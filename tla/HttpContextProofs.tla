------------------------- MODULE HttpContextProofs -------------------------
(***************************************************************************)
(* What Buffer's operations do to the content, and with it the answers on   *)
(* their way to the peer; then what the parser makes of the lines, and with *)
(* it the answers themselves, for buffers of any size, reads of any length  *)
(* and any number of rounds.                                                *)
(***************************************************************************)
EXTENDS HttpContext, Integers, SequenceTheorems, WellFoundedInduction, TLAPS

(***************************************************************************)
(* Induction, as the least and the greatest of a set of numbers             *)
(***************************************************************************)
Below == {p \in Nat \X Nat : p[1] < p[2]}

LEMMA Least ==
  ASSUME NEW T, T \subseteq Nat, T # {}
  PROVE  \E x \in T : \A y \in T : x <= y
<1>1. IsWellFoundedOn(Below, Nat)
    BY NatLessThanWellFounded DEF OpToRel, Below
<1>2. PICK x \in T : \A y \in T : <<y, x>> \notin Below
    BY <1>1, WFMin
<1>3. ASSUME NEW y \in T PROVE x <= y
  <2>1. x \in Nat /\ y \in Nat
    OBVIOUS
  <2>2. <<y, x>> \in Below <=> y < x
    BY <2>1 DEF Below
  <2> QED
    BY <1>2, <2>1, <2>2
<1> QED
    BY <1>3

LEMMA Greatest ==
  ASSUME NEW T, T \subseteq Nat, T # {}, NEW k \in Nat, \A y \in T : y <= k
  PROVE  \E x \in T : \A y \in T : y <= x
<1> DEFINE U == {n \in Nat : \A y \in T : y <= n}
<1>1. U \subseteq Nat /\ U # {}
    OBVIOUS
<1> HIDE DEF U
<1>2. PICK x \in U : \A y \in U : x <= y
    BY <1>1, Least
<1>3. x \in Nat /\ \A y \in T : y \in Nat /\ y <= x
    BY DEF U
<1>4. x \in T
  <2>1. SUFFICES ASSUME x \notin T PROVE FALSE
      OBVIOUS
  <2>2. \A y \in T : y <= x - 1
      BY <1>3, <2>1
  <2>3. x - 1 \in Nat
    <3>1. PICK y \in T : TRUE
      OBVIOUS
    <3>2. y \in Nat /\ y <= x - 1
      BY <1>3, <2>2
    <3> QED
      BY <1>3, <3>2
  <2>4. x - 1 \in U
      BY <2>2, <2>3 DEF U
  <2> QED
      BY <1>2, <1>3, <2>4
<1> QED
    BY <1>3, <1>4

(***************************************************************************)
(* Buffer                                                                   *)
(***************************************************************************)
\* The class invariant drawn in Buffer.h:7-12
IsBuffer(b, S) == /\ b \in [r : Nat, w : Nat, mem : Seq(S)]
                  /\ b.r <= b.w
                  /\ b.w <= Len(b.mem)

\* A part of a sequence by its elements
LEMMA SliceProperties ==
  ASSUME NEW S, NEW s \in Seq(S), NEW r \in Nat, NEW w \in Nat,
         r <= w, w <= Len(s)
  PROVE  /\ SubSeq(s, r + 1, w) \in Seq(S)
         /\ Len(SubSeq(s, r + 1, w)) = w - r
         /\ \A i \in 1..(w - r) : SubSeq(s, r + 1, w)[i] = s[r + i]
<1> DEFINE first == r + 1
<1>1. first \in Int /\ w \in Int
    OBVIOUS
<1>2. \A i \in first..w : s[i] \in S
    BY ElementOfSeq
<1> HIDE DEF first
<1>3. /\ SubSeq(s, first, w) \in Seq(S)
      /\ Len(SubSeq(s, first, w)) = IF first <= w THEN w - first + 1 ELSE 0
      /\ \A i \in 1..(w - first + 1) : SubSeq(s, first, w)[i] = s[first + i - 1]
    BY <1>1, <1>2, SubSeqProperties
<1>4. first = r + 1
    BY DEF first
<1>5. w - first + 1 = w - r /\ (first <= w \/ w - r = 0)
    BY <1>4
<1>6. \A i \in 1..(w - r) : first + i - 1 = r + i
    BY <1>4
<1>7. /\ SubSeq(s, first, w) \in Seq(S)
      /\ Len(SubSeq(s, first, w)) = w - r
      /\ \A i \in 1..(w - r) : SubSeq(s, first, w)[i] = s[r + i]
    BY <1>1, <1>3, <1>5, <1>6
<1>8. QED
    BY <1>4, <1>7

\* A vector of n bytes
LEMMA VectorIsSeq ==
  ASSUME NEW S, NEW n \in Nat, NEW f \in [1..n -> S]
  PROVE  f \in Seq(S) /\ Len(f) = n
    OBVIOUS

\* A sequence is the concatenation of two if they are its parts.
LEMMA PartsConcat ==
  ASSUME NEW S, NEW s \in Seq(S), NEW u \in Seq(S), NEW v \in Seq(S),
         Len(s) = Len(u) + Len(v),
         \A i \in 1..Len(u) : s[i] = u[i],
         \A i \in 1..Len(v) : s[Len(u) + i] = v[i]
  PROVE  s = u \o v
<1>1. /\ u \o v \in Seq(S)
      /\ Len(u \o v) = Len(u) + Len(v)
      /\ \A i \in 1..(Len(u) + Len(v)) :
           (u \o v)[i] = IF i <= Len(u) THEN u[i] ELSE v[i - Len(u)]
    BY ConcatProperties
<1>2. ASSUME NEW i \in 1..Len(s)
      PROVE  s[i] = (u \o v)[i]
  <2>1. Len(u) \in Nat /\ Len(v) \in Nat
      OBVIOUS
  <2>2. CASE i <= Len(u)
      BY <1>1, <2>1, <2>2
  <2>3. CASE i > Len(u)
    <3>1. i - Len(u) \in 1..Len(v) /\ Len(u) + (i - Len(u)) = i
        BY <2>1, <2>3
    <3>2. s[i] = v[i - Len(u)]
        BY <3>1
    <3>3. (u \o v)[i] = v[i - Len(u)]
        BY <1>1, <2>1, <2>3
    <3>4. QED
        BY <3>2, <3>3
  <2>4. QED
      BY <2>1, <2>2, <2>3
<1>3. QED
    BY <1>1, <1>2, SeqEqual

\* The content by its elements
LEMMA ContentProperties ==
  ASSUME NEW S, NEW b, IsBuffer(b, S)
  PROVE  /\ Content(b) \in Seq(S)
         /\ Len(Content(b)) = b.w - b.r
         /\ \A i \in 1..(b.w - b.r) : Content(b)[i] = b.mem[b.r + i]
    BY SliceProperties DEF IsBuffer, Content

\* A new buffer is one, and empty.
LEMMA NewIsEmpty ==
  ASSUME NEW S, Junk \in S
  PROVE  IsBuffer(NewBuffer, S) /\ Content(NewBuffer) = <<>>
<1>1. InitialSize \in Nat
    BY BufferAssumption
<1>2. [i \in 1..InitialSize |-> Junk] \in Seq(S)
    BY <1>1
<1>3. Len([i \in 1..InitialSize |-> Junk]) = InitialSize
    BY <1>1
<1>4. IsBuffer(NewBuffer, S)
    BY <1>1, <1>2, <1>3 DEF IsBuffer, NewBuffer
<1>5. Len(Content(NewBuffer)) = 0 /\ Content(NewBuffer) \in Seq(S)
    BY <1>4, ContentProperties DEF NewBuffer
<1>6. QED
    BY <1>4, <1>5, EmptySeq

\* ensureEnoughSpace() makes the room and keeps the content, whether makeSpace()
\* moves it or the vector grows (Buffer.cpp:28-48).
LEMMA SpaceKeepsContent ==
  ASSUME NEW S, Junk \in S, NEW b, IsBuffer(b, S), NEW len \in Nat
  PROVE  LET c == EnsureEnoughSpace(b, len)
         IN  /\ IsBuffer(c, S)
             /\ Content(c) = Content(b)
             /\ c.w + len <= Len(c.mem)
<1> DEFINE c == EnsureEnoughSpace(b, len)
<1>1. /\ b.r \in Nat /\ b.w \in Nat /\ b.mem \in Seq(S)
      /\ b.r <= b.w /\ b.w <= Len(b.mem) /\ Len(b.mem) \in Nat
      /\ \A i \in 1..Len(b.mem) : b.mem[i] \in S
      /\ b = [r |-> b.r, w |-> b.w, mem |-> b.mem]
    BY ElementOfSeq DEF IsBuffer
<1>2. SUFFICES /\ IsBuffer(c, S)
               /\ c.w - c.r = b.w - b.r
               /\ \A i \in 1..(b.w - b.r) : c.mem[c.r + i] = b.mem[b.r + i]
               /\ c.w + len <= Len(c.mem)
  <2>1. /\ Content(c) \in Seq(S) /\ Content(b) \in Seq(S)
        /\ Len(Content(c)) = Len(Content(b))
        /\ \A i \in 1..Len(Content(c)) : Content(c)[i] = Content(b)[i]
      BY <1>2, ContentProperties
  <2>2. QED
      BY <1>2, <2>1, SeqEqual
<1>3. CASE Len(b.mem) - b.w >= len
    BY <1>1, <1>3 DEF EnsureEnoughSpace, WritableBytes, IsBuffer
<1>4. CASE Len(b.mem) - b.w < len /\ b.r + (Len(b.mem) - b.w) >= len
  <2> DEFINE mem == [i \in 1..Len(b.mem) |->
                       IF i <= b.w - b.r THEN b.mem[b.r + i] ELSE Junk]
  <2>1. c = [r |-> 0, w |-> b.w - b.r, mem |-> mem]
      BY <1>4 DEF EnsureEnoughSpace, MakeSpace, WritableBytes, ReadableBytes
  <2>2. \A i \in 1..Len(b.mem) :
          (IF i <= b.w - b.r THEN b.mem[b.r + i] ELSE Junk) \in S
      BY <1>1
  <2>3. mem \in Seq(S) /\ Len(mem) = Len(b.mem)
      BY <1>1, <2>2, VectorIsSeq
  <2>4. \A i \in 1..(b.w - b.r) : mem[0 + i] = b.mem[b.r + i]
      BY <1>1
  <2> HIDE DEF mem, c
  <2>5. c.r = 0 /\ c.w = b.w - b.r /\ c.mem = mem
      BY <2>1
  <2>6. IsBuffer(c, S)
      BY <1>1, <2>1, <2>3 DEF IsBuffer
  <2>7. QED
      BY <1>1, <1>4, <2>3, <2>4, <2>5, <2>6
<1>5. CASE Len(b.mem) - b.w < len /\ b.r + (Len(b.mem) - b.w) < len
  <2> DEFINE mem == [i \in 1..(b.w + len) |->
                       IF i <= b.w THEN b.mem[i] ELSE Junk]
  <2>1. c = [r |-> b.r, w |-> b.w, mem |-> mem]
    <3>1. c = [b EXCEPT !.mem = mem]
        BY <1>1, <1>5 DEF EnsureEnoughSpace, MakeSpace, WritableBytes
    <3>2. QED
        BY <1>1, <3>1
  <2>2. \A i \in 1..(b.w + len) :
          (IF i <= b.w THEN b.mem[i] ELSE Junk) \in S
      BY <1>1
  <2>3. mem \in Seq(S) /\ Len(mem) = b.w + len
    <3>1. b.w + len \in Nat /\ mem \in [1..(b.w + len) -> S]
        BY <1>1, <2>2
    <3> HIDE DEF mem
    <3>2. QED
        BY <3>1, VectorIsSeq
  <2>4. \A i \in 1..(b.w - b.r) : mem[b.r + i] = b.mem[b.r + i]
      BY <1>1
  <2> HIDE DEF mem
  <2>5. QED
      BY <1>1, <1>5, <2>1, <2>3, <2>4 DEF IsBuffer
<1>6. QED
    BY <1>1, <1>3, <1>4, <1>5

\* The copy at the write index, where there is room for it
LEMMA CopyAppends ==
  ASSUME NEW S, NEW b, IsBuffer(b, S), NEW msg \in Seq(S),
         b.w + Len(msg) <= Len(b.mem)
  PROVE  IsBuffer(CopyIn(b, msg), S) /\ Content(CopyIn(b, msg)) = Content(b) \o msg
<1> DEFINE c == CopyIn(b, msg)
           mem == [i \in 1..Len(b.mem) |->
                     IF i \in (b.w + 1)..(b.w + Len(msg)) THEN msg[i - b.w]
                                                          ELSE b.mem[i]]
<1>1. /\ b.r \in Nat /\ b.w \in Nat /\ b.mem \in Seq(S)
      /\ b.r <= b.w /\ b.w <= Len(b.mem) /\ Len(b.mem) \in Nat
      /\ \A i \in 1..Len(b.mem) : b.mem[i] \in S
      /\ b = [r |-> b.r, w |-> b.w, mem |-> b.mem]
      /\ Len(msg) \in Nat /\ \A i \in 1..Len(msg) : msg[i] \in S
    BY ElementOfSeq DEF IsBuffer
<1>2. c = [r |-> b.r, w |-> b.w + Len(msg), mem |-> mem]
  <2>1. c = [b EXCEPT !.w = b.w + Len(msg), !.mem = mem]
      BY DEF CopyIn
  <2> HIDE DEF mem, c
  <2>2. QED
      BY <1>1, <2>1
<1>3. mem \in Seq(S) /\ Len(mem) = Len(b.mem)
  <2>1. \A i \in 1..Len(b.mem) :
          (IF i \in (b.w + 1)..(b.w + Len(msg)) THEN msg[i - b.w] ELSE b.mem[i]) \in S
      BY <1>1
  <2>2. mem \in [1..Len(b.mem) -> S]
      BY <2>1
  <2> HIDE DEF mem
  <2>3. QED
      BY <1>1, <2>2, VectorIsSeq
<1>4. /\ \A i \in 1..(b.w - b.r) : mem[b.r + i] = b.mem[b.r + i]
      /\ \A i \in 1..Len(msg) : mem[b.w + i] = msg[i]
  <2>1. ASSUME NEW i \in 1..(b.w - b.r) PROVE mem[b.r + i] = b.mem[b.r + i]
      BY <1>1
  <2>2. ASSUME NEW i \in 1..Len(msg) PROVE mem[b.w + i] = msg[i]
    <3>1. /\ b.w + i \in 1..Len(b.mem)
          /\ b.w + i \in (b.w + 1)..(b.w + Len(msg))
          /\ b.w + i - b.w = i
        BY <1>1
    <3>2. \A j \in 1..Len(b.mem) :
            j \in (b.w + 1)..(b.w + Len(msg)) => mem[j] = msg[j - b.w]
        OBVIOUS
    <3> HIDE DEF mem
    <3>3. PICK j : j = b.w + i
        OBVIOUS
    <3>4. mem[j] = msg[j - b.w] /\ j - b.w = i
        BY <1>1, <3>1, <3>2, <3>3
    <3>5. QED
        BY <3>3, <3>4
  <2>3. QED
      BY <2>1, <2>2
<1> HIDE DEF mem, c
<1>5. IsBuffer(c, S)
    BY <1>1, <1>2, <1>3 DEF IsBuffer
<1>6. c.r = b.r /\ c.w = b.w + Len(msg) /\ c.mem = mem
    BY <1>2
<1>7. /\ Content(c) \in Seq(S)
      /\ Len(Content(c)) = b.w - b.r + Len(msg)
      /\ \A i \in 1..(b.w - b.r + Len(msg)) : Content(c)[i] = mem[b.r + i]
  <2>1. /\ Content(c) \in Seq(S)
        /\ Len(Content(c)) = c.w - c.r
        /\ \A i \in 1..(c.w - c.r) : Content(c)[i] = c.mem[c.r + i]
      BY <1>5, ContentProperties
  <2>2. c.w - c.r = b.w - b.r + Len(msg)
      BY <1>1, <1>6
  <2>3. QED
      BY <1>6, <2>1, <2>2
<1>8. /\ Content(b) \in Seq(S)
      /\ Len(Content(b)) = b.w - b.r
      /\ \A i \in 1..(b.w - b.r) : Content(b)[i] = b.mem[b.r + i]
    BY ContentProperties
<1>9. ASSUME NEW i \in 1..Len(Content(b))
      PROVE  Content(c)[i] = Content(b)[i]
  <2>1. i \in 1..(b.w - b.r) /\ i \in 1..(b.w - b.r + Len(msg))
      BY <1>1, <1>8
  <2>2. QED
      BY <1>4, <1>7, <1>8, <2>1
<1>10. ASSUME NEW i \in 1..Len(msg)
       PROVE  Content(c)[Len(Content(b)) + i] = msg[i]
  <2>1. (b.w - b.r) + i \in 1..(b.w - b.r + Len(msg)) /\ b.r + ((b.w - b.r) + i) = b.w + i
      BY <1>1
  <2>2. QED
      BY <1>4, <1>7, <1>8, <2>1
<1>11. Content(c) = Content(b) \o msg
  <2>1. Len(Content(c)) = Len(Content(b)) + Len(msg)
      BY <1>7, <1>8
  <2>2. QED
      BY <1>7, <1>8, <1>9, <1>10, <2>1, PartsConcat
<1>12. QED
    BY <1>5, <1>11 DEF c

\* append() adds its message to the end of the content and keeps the rest,
\* however the buffer is moved or grown for it (Buffer.cpp:50-56).
THEOREM AppendAppends ==
  ASSUME NEW S, Junk \in S, NEW b, IsBuffer(b, S), NEW msg \in Seq(S)
  PROVE  /\ IsBuffer(AppendBytes(b, msg), S)
         /\ Content(AppendBytes(b, msg)) = Content(b) \o msg
<1> DEFINE c == EnsureEnoughSpace(b, Len(msg))
<1>1. IsBuffer(c, S) /\ Content(c) = Content(b) /\ c.w + Len(msg) <= Len(c.mem)
    BY SpaceKeepsContent
<1> HIDE DEF c
<1>2. IsBuffer(CopyIn(c, msg), S) /\ Content(CopyIn(c, msg)) = Content(b) \o msg
    BY <1>1, CopyAppends
<1>3. QED
    BY <1>2 DEF AppendBytes, c

\* Two parts of a sequence that follow one another
LEMMA SlicesJoin ==
  ASSUME NEW S, NEW s \in Seq(S), NEW u \in Nat, NEW v \in Nat, NEW w \in Nat,
         u <= v, v <= w, w <= Len(s)
  PROVE  SubSeq(s, u + 1, w) = SubSeq(s, u + 1, v) \o SubSeq(s, v + 1, w)
<1> DEFINE a == SubSeq(s, u + 1, w)
           b == SubSeq(s, u + 1, v)
           c == SubSeq(s, v + 1, w)
<1>1. v <= Len(s) /\ u <= w /\ Len(s) \in Nat
    OBVIOUS
<1>2. a \in Seq(S) /\ Len(a) = w - u /\ \A i \in 1..(w - u) : a[i] = s[u + i]
    BY <1>1, SliceProperties
<1>3. b \in Seq(S) /\ Len(b) = v - u /\ \A i \in 1..(v - u) : b[i] = s[u + i]
    BY <1>1, SliceProperties
<1>4. c \in Seq(S) /\ Len(c) = w - v /\ \A i \in 1..(w - v) : c[i] = s[v + i]
    BY <1>1, SliceProperties
<1> HIDE DEF a, b, c
<1>5. Len(a) = Len(b) + Len(c)
    BY <1>2, <1>3, <1>4
<1>6. \A i \in 1..Len(b) : a[i] = b[i]
    BY <1>2, <1>3
<1>7. ASSUME NEW i \in 1..Len(c) PROVE a[Len(b) + i] = c[i]
  <2>1. (v - u) + i \in 1..(w - u) /\ u + ((v - u) + i) = v + i /\ i \in 1..(w - v)
      BY <1>4
  <2> QED
      BY <1>2, <1>3, <1>4, <2>1
<1> QED
    BY <1>2, <1>3, <1>4, <1>5, <1>6, <1>7, PartsConcat DEF a, b, c

\* A part and what follows it, one after the other
LEMMA Joined ==
  ASSUME NEW S, NEW t \in Seq(S), NEW front, NEW rest, front \in Seq(S),
         rest \in Seq(S), NEW all, all = front \o rest
  PROVE  (t \o front) \o rest = t \o all
    BY ConcatAssociative

\* readFromFd() adds all the bytes that have arrived, however many reads it
\* takes (Buffer.cpp:85-107).
THEOREM ReadAppends ==
  ASSUME NEW S, Junk \in S, NEW b, IsBuffer(b, S), NEW bytes \in Seq(S)
  PROVE  /\ IsBuffer(ReadFromFd(b, bytes), S)
         /\ Content(ReadFromFd(b, bytes)) = Content(b) \o bytes
<1> DEFINE c == ChunkSize
           L == Len(bytes)
           upto(n) == IF n * c < L THEN n * c ELSE L
           piece(n) == SubSeq(bytes, (n - 1) * c + 1, upto(n))
           Q(f, k) == f = [n \in 0..k |-> IF n = 0 THEN b
                                          ELSE AppendBytes(f[n - 1], piece(n))]
           read == CHOOSE f : Q(f, L)
           q == (L + c - 1) \div c
<1>1. c \in Nat /\ c >= 1 /\ L \in Nat
    BY BufferAssumption
<1>2. ReadFromFd(b, bytes) = read[q]
    BY DEF ReadFromFd
<1>3. q \in 0..L /\ q * c >= L
    BY <1>1
<1> HIDE DEF c, q
<1>4. \A k \in Nat : \E f : Q(f, k)
  <2> DEFINE T == {k \in Nat : ~\E f : Q(f, k)}
  <2>1. SUFFICES ASSUME T # {} PROVE FALSE
      OBVIOUS
  <2>2. T \subseteq Nat
      OBVIOUS
  <2> HIDE DEF T
  <2>3. PICK k \in T : \A y \in T : k <= y
      BY <2>1, <2>2, Least
  <2>4. k \in Nat /\ ~\E f : Q(f, k)
      BY DEF T
  <2> HIDE DEF L, piece
  <2>5. k # 0
    <3>1. Q([n \in 0..0 |-> b], 0)
      OBVIOUS
    <3> QED
      BY <2>4, <3>1
  <2>6. k - 1 \in Nat /\ k - 1 \notin T
      BY <2>3, <2>4, <2>5
  <2>7. PICK f : Q(f, k - 1)
      BY <2>6 DEF T
  <2> DEFINE g == [n \in 0..k |-> IF n = 0 THEN b ELSE AppendBytes(f[n - 1], piece(n))]
  <2>8. \A n \in 1..k : f[n - 1] = g[n - 1]
      BY <2>4, <2>7
  <2>9. Q(g, k)
    <3>1. \A n \in 0..k : n = 0 \/ n \in 1..k
      BY <2>4
    <3> QED
      BY <2>8, <3>1
  <2> QED
      BY <2>4, <2>9
<1>5. Q(read, L)
    BY <1>1, <1>4
<1> HIDE DEF read
<1> DEFINE Read(n) == /\ IsBuffer(read[n], S)
                      /\ Content(read[n]) = Content(b) \o SubSeq(bytes, 1, upto(n))
<1>6. \A n \in Nat : upto(n) \in 0..L /\ (n * c \in Nat) /\ (n >= 1 => (n - 1) * c + c = n * c)
    BY <1>1
<1>7. Content(b) \in Seq(S)
    BY ContentProperties
<1>8. Read(0)
  <2>1. upto(0) = 0
      BY <1>1
  <2>2. SubSeq(bytes, 1, 0) = <<>>
      BY SubSeqEmpty
  <2>3. read[0] = b
      BY <1>1, <1>5
  <2> QED
      BY <1>7, <2>1, <2>2, <2>3, ConcatEmptySeq
<1>9. ASSUME NEW n \in 1..L, Read(n - 1) PROVE Read(n)
  <2>1. n \in Nat /\ n - 1 \in Nat /\ n \in 0..L /\ n # 0
      BY <1>1
  <2>2. read[n] = AppendBytes(read[n - 1], piece(n))
      BY <1>5, <2>1
  <2>3. /\ upto(n - 1) \in Nat /\ upto(n) \in Nat
        /\ upto(n - 1) <= upto(n) /\ upto(n) <= L
        /\ (n - 1) * c \in Nat
        /\ upto(n - 1) = (n - 1) * c \/ (upto(n - 1) = L /\ upto(n) = L /\ L <= (n - 1) * c)
      BY <1>1, <1>6, <2>1
  <2>4. piece(n) = SubSeq(bytes, upto(n - 1) + 1, upto(n))
    <3>1. CASE upto(n - 1) = (n - 1) * c
      BY <3>1
    <3>2. CASE upto(n - 1) = L /\ upto(n) = L /\ L <= (n - 1) * c
      <4>1. SubSeq(bytes, (n - 1) * c + 1, L) = <<>> /\ SubSeq(bytes, L + 1, L) = <<>>
        BY <1>1, <2>3, <3>2, SubSeqEmpty
      <4> QED
        BY <3>2, <4>1
    <3> QED
      BY <2>3, <3>1, <3>2
  <2> HIDE DEF piece, upto
  <2>5. /\ piece(n) \in Seq(S)
        /\ (Content(b) \o SubSeq(bytes, 1, upto(n - 1))) \o piece(n)
           = Content(b) \o SubSeq(bytes, 1, upto(n))
    <3>1. PICK u, v : u = upto(n - 1) /\ v = upto(n)
      OBVIOUS
    <3>2. /\ 0 \in Nat /\ 0 <= u /\ u <= v /\ u <= Len(bytes) /\ v <= Len(bytes)
          /\ u \in Nat /\ v \in Nat /\ 0 + 1 = 1
      BY <1>1, <2>3, <3>1
    <3>3. PICK front, rest, all : /\ front = SubSeq(bytes, 1, u)
                                  /\ rest = SubSeq(bytes, u + 1, v)
                                  /\ all = SubSeq(bytes, 1, v)
      OBVIOUS
    <3>4. front \in Seq(S) /\ rest \in Seq(S)
      BY <3>2, <3>3, SliceProperties
    <3>5. SubSeq(bytes, 0 + 1, v) = SubSeq(bytes, 0 + 1, u) \o SubSeq(bytes, u + 1, v)
      BY <3>2, SlicesJoin
    <3>6. all = front \o rest
      BY <3>2, <3>3, <3>5
    <3>7. PICK t : t = Content(b)
      OBVIOUS
    <3>8. t \in Seq(S) /\ front \in Seq(S) /\ rest \in Seq(S) /\ all = front \o rest
      BY <1>7, <3>4, <3>6, <3>7
    <3>9. (t \o front) \o rest = t \o all
      BY ONLY <3>8, Joined, SMTT(30)
    <3> QED
      BY <2>4, <3>1, <3>3, <3>4, <3>7, <3>9
  <2>6. /\ IsBuffer(read[n], S)
        /\ Content(read[n]) = Content(read[n - 1]) \o piece(n)
      BY <1>9, <2>2, <2>5, AppendAppends
  <2>7. Content(read[n]) = Content(b) \o SubSeq(bytes, 1, upto(n))
      BY <1>9, <2>5, <2>6, Zenon
  <2> QED
      BY <2>6, <2>7
<1>10. \A n \in 0..L : Read(n)
  <2> DEFINE T == {n \in 0..L : ~Read(n)}
  <2> HIDE DEF Read
  <2>1. SUFFICES ASSUME T # {} PROVE FALSE
      OBVIOUS
  <2>2. T \subseteq Nat
      OBVIOUS
  <2>3. PICK n \in T : \A y \in T : n <= y
    <3> HIDE DEF T
    <3> QED
      BY <2>1, <2>2, Least
  <2>4. n \in 1..L /\ n - 1 \in 0..L /\ n - 1 \notin T
      BY <1>1, <1>8, <2>3
  <2> QED
      BY <1>9, <2>4
<1>11. upto(q) = L
    BY <1>1, <1>3
<1>12. SubSeq(bytes, 1, L) = bytes
    BY SubSeqFull
<1> QED
    BY <1>2, <1>3, <1>10, <1>11, <1>12

\* retrieveAll() leaves an empty buffer.
LEMMA RetrieveEmpties ==
  ASSUME NEW S, Junk \in S, NEW b, IsBuffer(b, S)
  PROVE  IsBuffer(RetrieveAll(b), S) /\ Content(RetrieveAll(b)) = <<>>
<1> DEFINE mem == [i \in DOMAIN b.mem |-> Junk]
           c == RetrieveAll(b)
<1>1. Len(b.mem) \in Nat /\ DOMAIN b.mem = 1..Len(b.mem)
    BY DEF IsBuffer
<1>2. mem \in [1..Len(b.mem) -> S]
    BY <1>1
<1>3. c = [r |-> 0, w |-> 0, mem |-> mem]
    BY DEF RetrieveAll
<1> HIDE DEF mem, c
<1>4. mem \in Seq(S) /\ Len(mem) \in Nat
    BY <1>1, <1>2, VectorIsSeq
<1>5. IsBuffer(c, S) /\ c.w - c.r = 0
    BY <1>3, <1>4 DEF IsBuffer
<1>6. Content(c) \in Seq(S) /\ Len(Content(c)) = 0
    BY <1>5, ContentProperties
<1>7. QED
    BY <1>5, <1>6, EmptySeq DEF c

\* writeToFd() takes what the socket took, and only that, from the front of the
\* content (Buffer.cpp:109-136).
THEOREM WriteTakesFront ==
  ASSUME NEW S, Junk \in S, NEW b, IsBuffer(b, S), NEW n \in 0..ReadableBytes(b)
  PROVE  /\ IsBuffer(WriteToFd(b, n), S)
         /\ Content(b) = SubSeq(Content(b), 1, n) \o Content(WriteToFd(b, n))
<1>1. /\ b.r \in Nat /\ b.w \in Nat /\ b.mem \in Seq(S)
      /\ b.r <= b.w /\ b.w <= Len(b.mem) /\ Len(b.mem) \in Nat
      /\ \A i \in 1..Len(b.mem) : b.mem[i] \in S
      /\ b = [r |-> b.r, w |-> b.w, mem |-> b.mem]
      /\ n \in Nat /\ n <= b.w - b.r
      /\ DOMAIN b.mem = 1..Len(b.mem)
    BY ElementOfSeq DEF IsBuffer, ReadableBytes
<1>2. /\ Content(b) \in Seq(S)
      /\ Len(Content(b)) = b.w - b.r
      /\ \A i \in 1..(b.w - b.r) : Content(b)[i] = b.mem[b.r + i]
    BY ContentProperties
<1>3. CASE n = b.w - b.r
  <2>1. WriteToFd(b, n) = RetrieveAll(b)
      BY <1>3 DEF WriteToFd, ReadableBytes
  <2>2. SubSeq(Content(b), 1, n) = Content(b)
      BY <1>2, <1>3, SubSeqFull
  <2>3. QED
      BY <1>2, <2>1, <2>2, RetrieveEmpties, ConcatEmptySeq
<1>4. CASE n # b.w - b.r
  <2> DEFINE c == WriteToFd(b, n)
             mem == [i \in DOMAIN b.mem |-> IF i <= b.r + n THEN Junk ELSE b.mem[i]]
             front == SubSeq(Content(b), 1, n)
  <2>1. c = [r |-> b.r + n, w |-> b.w, mem |-> mem]
    <3>1. c = [b EXCEPT !.r = b.r + n, !.mem = mem]
        BY <1>4 DEF WriteToFd, ReadableBytes, Advance
    <3> HIDE DEF c, mem
    <3>2. QED
        BY <1>1, <3>1
  <2>2. mem \in Seq(S) /\ Len(mem) = Len(b.mem)
    <3>1. mem \in [1..Len(b.mem) -> S]
        BY <1>1
    <3> HIDE DEF mem
    <3>2. QED
        BY <1>1, <3>1, VectorIsSeq
  <2>3. \A i \in 1..(b.w - b.r - n) : mem[b.r + n + i] = b.mem[b.r + n + i]
      BY <1>1
  <2> HIDE DEF c, mem
  <2>4. IsBuffer(c, S)
      BY <1>1, <2>1, <2>2 DEF IsBuffer
  <2>5. c.r = b.r + n /\ c.w = b.w /\ c.mem = mem
      BY <2>1
  <2>6. /\ Content(c) \in Seq(S)
        /\ Len(Content(c)) = b.w - b.r - n
        /\ \A i \in 1..(b.w - b.r - n) : Content(c)[i] = b.mem[b.r + n + i]
    <3>1. /\ Content(c) \in Seq(S)
          /\ Len(Content(c)) = c.w - c.r
          /\ \A i \in 1..(c.w - c.r) : Content(c)[i] = c.mem[c.r + i]
        BY <2>4, ContentProperties
    <3>2. c.w - c.r = b.w - b.r - n
        BY <1>1, <2>5
    <3>3. QED
        BY <2>3, <2>5, <3>1, <3>2
  <2>7. /\ front \in Seq(S)
        /\ Len(front) = n
        /\ \A i \in 1..n : front[i] = Content(b)[i]
    <3>1. /\ SubSeq(Content(b), 0 + 1, n) \in Seq(S)
          /\ Len(SubSeq(Content(b), 0 + 1, n)) = n - 0
          /\ \A i \in 1..(n - 0) : SubSeq(Content(b), 0 + 1, n)[i] = Content(b)[0 + i]
        BY <1>1, <1>2, SliceProperties, SMTT(30)
    <3>2. 0 + 1 = 1 /\ n - 0 = n /\ \A i \in 1..n : 0 + i = i
        BY <1>1
    <3>3. QED
        BY <3>1, <3>2
  <2> HIDE DEF front
  <2>8. Len(Content(b)) = Len(front) + Len(Content(c))
      BY <1>1, <1>2, <2>6, <2>7
  <2>9. ASSUME NEW i \in 1..Len(Content(c))
        PROVE  Content(b)[Len(front) + i] = Content(c)[i]
    <3>1. n + i \in 1..(b.w - b.r) /\ b.r + (n + i) = b.r + n + i
        BY <1>1, <2>6
    <3>2. QED
        BY <1>2, <2>6, <2>7, <3>1
  <2>10. \A i \in 1..Len(front) : Content(b)[i] = front[i]
      BY <2>7
  <2>11. Content(b) = front \o Content(c)
      BY <1>2, <2>6, <2>7, <2>8, <2>9, <2>10, PartsConcat
  <2>12. QED
      BY <2>4, <2>11 DEF front, c
<1>5. QED
    BY <1>3, <1>4

(***************************************************************************)
(* The answers                                                              *)
(***************************************************************************)
OutBytes == {"200", "400", "404", "page", Junk}

\* AnswersInOrder with the shape of what it speaks of
Outgoing == /\ IsBuffer(output, OutBytes)
            /\ sent \in Seq(OutBytes)
            /\ AnswersInOrder

\* An answer joins the output at its end (HttpContext.cpp:255-323).
LEMMA StepRespond ==
  ASSUME Outgoing, GetHttpResponse
  PROVE  Outgoing'
<1> DEFINE msg == <<Status, "page">>
<1>1. /\ output' = AppendBytes(output, msg)
      /\ answers' = answers \o msg
      /\ sent' = sent
    BY DEF GetHttpResponse
<1>2. msg \in Seq(OutBytes)
    BY DEF Status, OutBytes
<1> HIDE DEF msg
<1>3. /\ IsBuffer(output', OutBytes)
      /\ Content(output') = Content(output) \o msg
    BY <1>1, <1>2, AppendAppends DEF Outgoing, OutBytes
<1>4. Content(output) \in Seq(OutBytes)
    BY ContentProperties DEF Outgoing
<1>5. (sent \o Content(output)) \o msg = sent \o (Content(output) \o msg)
  <2>1. PICK c, all : c = Content(output) /\ all = c \o msg
      OBVIOUS
  <2>2. sent \in Seq(OutBytes) /\ c \in Seq(OutBytes)
      BY <1>4, <2>1 DEF Outgoing
  <2>3. (sent \o c) \o msg = sent \o all
      BY ONLY <1>2, <2>1, <2>2, Joined
  <2> QED
      BY <2>1, <2>3, Zenon
<1>6. QED
    BY <1>1, <1>3, <1>5 DEF Outgoing, AnswersInOrder

\* What the socket takes leaves the front of the output (Buffer.cpp:109-136).
LEMMA StepSend ==
  ASSUME Outgoing, NEW n \in 0..ReadableBytes(output), Send(n),
         UNCHANGED answers
  PROVE  Outgoing'
<1> DEFINE front == SubSeq(Content(output), 1, n)
<1>1. output' = WriteToFd(output, n) /\ sent' = sent \o front
    BY DEF Send
<1>2. /\ IsBuffer(output', OutBytes)
      /\ Content(output) = front \o Content(output')
    BY <1>1, WriteTakesFront DEF Outgoing, OutBytes
<1>3. Content(output) \in Seq(OutBytes) /\ Len(Content(output)) = ReadableBytes(output)
    BY ContentProperties DEF Outgoing, ReadableBytes
<1>4. front \in Seq(OutBytes)
    BY <1>3, SliceProperties
<1> HIDE DEF front
<1>5. Content(output') \in Seq(OutBytes)
    BY <1>2, ContentProperties
<1>6. (sent \o front) \o Content(output') = sent \o (front \o Content(output'))
    BY <1>4, <1>5, ConcatAssociative DEF Outgoing
<1>7. sent' \in Seq(OutBytes)
    BY <1>1, <1>4, ConcatProperties DEF Outgoing
<1>8. QED
    BY <1>1, <1>2, <1>6, <1>7 DEF Outgoing, AnswersInOrder

\* Nothing else touches the output.
LEMMA StepOther ==
  ASSUME Outgoing, UNCHANGED <<output, answers, sent>>
  PROVE  Outgoing'
    BY DEF Outgoing, AnswersInOrder, IsBuffer, Content

\* No step loses, repeats or reorders a byte of an answer.
LEMMA StepOutgoing ==
  ASSUME Outgoing, [Next]_vars
  PROVE  Outgoing'
<1>1. CASE \E d \in Deliveries : Deliver(d)
    BY <1>1, StepOther DEF Deliver
<1>2. CASE ParseLine
    BY <1>2, StepOther DEF ParseLine, history
<1>3. CASE ParseRequestLine
    BY <1>3, StepOther DEF ParseRequestLine, history
<1>4. CASE ParseMessageHeader
    BY <1>4, StepOther DEF ParseMessageHeader, history
<1>5. CASE ParseMessageBody
    BY <1>5, StepOther DEF ParseMessageBody, history
<1>6. CASE LeaveLoop
    BY <1>6, StepOther DEF LeaveLoop, history
<1>7. CASE GetHttpResponse
    BY <1>7, StepRespond
<1>8. CASE HandleWrite
  <2>1. UNCHANGED answers
      BY <1>8 DEF HandleWrite
  <2>2. ReadableBytes(output) \in Nat
      BY DEF Outgoing, IsBuffer, ReadableBytes
  <2>3. \/ \E n \in 0..ReadableBytes(output) : Send(n)
        \/ UNCHANGED <<output, sent>>
      BY <1>8, <2>2 DEF HandleWrite
  <2>4. QED
      BY <2>1, <2>3, StepSend, StepOther
<1>9. CASE UNCHANGED vars
    BY <1>9, StepOther DEF vars, history
<1>10. QED
    BY <1>1, <1>2, <1>3, <1>4, <1>5, <1>6, <1>7, <1>8, <1>9
       DEF Next, Handle

\* What the peer was sent and what waits in the output buffer are the answers,
\* in order and each byte once, for buffers of every size: a byte is neither
\* lost nor repeated when the buffer moves or grows under an unsent rest
\* (Buffer.cpp:28-56, 109-136; TcpConnection.cpp:105-137).
THEOREM AnswersKeepOrder == Spec => []AnswersInOrder
<1>1. Init => Outgoing
  <2>1. SUFFICES ASSUME Init PROVE Outgoing
      OBVIOUS
  <2>2. output = NewBuffer /\ sent = <<>> /\ answers = <<>>
      BY <2>1 DEF Init
  <2>3. IsBuffer(output, OutBytes) /\ Content(output) = <<>>
      BY <2>2, NewIsEmpty DEF OutBytes
  <2>4. sent \in Seq(OutBytes) /\ sent \o <<>> = sent
      BY <2>2, EmptySeq, ConcatEmptySeq
  <2>5. QED
      BY <2>2, <2>3, <2>4 DEF Outgoing, AnswersInOrder
<1>2. Outgoing /\ [Next]_vars => Outgoing'
  <2>1. SUFFICES ASSUME Outgoing, [Next]_vars PROVE Outgoing'
      OBVIOUS
  <2>2. QED
      BY <2>1, StepOutgoing
<1>3. Outgoing => AnswersInOrder
    BY DEF Outgoing
<1>4. QED
    BY <1>1, <1>2, <1>3, PTL DEF Spec

(***************************************************************************)
(* What arrives                                                             *)
(***************************************************************************)
\* The bytes peers send
InBytes == {"CR", "LF", "part", "text", "hit", "miss", "keepAlive", "close"}

\* Sequences put together are one of the same elements.
LEMMA FlattenIsSeq ==
  ASSUME NEW S, NEW n \in Nat, NEW d, d \in [1..n -> Seq(S)]
  PROVE  FlattenSeq(d) \in Seq(S)
<1> DEFINE Q(f, k) == f = [i \in 1..k |-> IF i = 1 THEN d[i] ELSE f[i - 1] \o d[i]]
           flat == CHOOSE f : Q(f, n)
<1>1. Len(d) = n
    OBVIOUS
<1>2. CASE n = 0
  <2>1. FlattenSeq(d) = d
      BY <1>1, <1>2 DEF FlattenSeq
  <2>2. d \in [1..0 -> S]
      BY <1>2
  <2> QED
      BY <2>1, <2>2, VectorIsSeq
<1>3. CASE n # 0
  <2>1. FlattenSeq(d) = flat[n]
      BY <1>1, <1>3 DEF FlattenSeq
  <2>2. \A k \in Nat : \E f : Q(f, k)
    <3> DEFINE T == {k \in Nat : ~\E f : Q(f, k)}
    <3>1. SUFFICES ASSUME T # {} PROVE FALSE
        OBVIOUS
    <3>2. T \subseteq Nat
        OBVIOUS
    <3> HIDE DEF T
    <3>3. PICK k \in T : \A y \in T : k <= y
        BY <3>1, <3>2, Least
    <3>4. k \in Nat /\ ~\E f : Q(f, k)
        BY DEF T
    <3>5. k # 0
      <4>1. Q([i \in 1..0 |-> d[i]], 0)
        OBVIOUS
      <4> QED
        BY <3>4, <4>1
    <3>6. k - 1 \in Nat /\ k - 1 \notin T
        BY <3>3, <3>4, <3>5
    <3>7. PICK f : Q(f, k - 1)
        BY <3>6 DEF T
    <3> DEFINE g == [i \in 1..k |-> IF i = 1 THEN d[i] ELSE f[i - 1] \o d[i]]
    <3>8. \A i \in 1..k : i # 1 => f[i - 1] = g[i - 1]
      <4> SUFFICES ASSUME NEW i \in 1..k, i # 1 PROVE f[i - 1] = g[i - 1]
        OBVIOUS
      <4>1. i - 1 \in 1..(k - 1) /\ i - 1 \in 1..k
        BY <3>4
      <4> DEFINE j == i - 1
      <4>2. f[j] = IF j = 1 THEN d[j] ELSE f[j - 1] \o d[j]
        BY <3>7, <4>1
      <4>3. g[j] = IF j = 1 THEN d[j] ELSE f[j - 1] \o d[j]
        BY <4>1
      <4> QED
        BY <4>2, <4>3
    <3>9. Q(g, k)
        BY <3>8
    <3> QED
        BY <3>4, <3>9
  <2>3. Q(flat, n)
      BY <2>2
  <2> HIDE DEF flat
  <2> DEFINE T == {i \in 1..n : flat[i] \notin Seq(S)}
  <2>4. T = {}
    <3>1. SUFFICES ASSUME T # {} PROVE FALSE
        OBVIOUS
    <3>2. T \subseteq Nat
        OBVIOUS
    <3>3. PICK i \in T : \A y \in T : i <= y
      <4> HIDE DEF T
      <4> QED
        BY <3>1, <3>2, Least
    <3>4. i \in 1..n /\ flat[i] \notin Seq(S) /\ d[i] \in Seq(S)
        OBVIOUS
    <3>5. i # 1
        BY <2>3, <3>4
    <3>6. flat[i - 1] \in Seq(S) /\ flat[i] = flat[i - 1] \o d[i]
      <4>1. i - 1 \in 1..n /\ i - 1 \notin T
        BY <3>3, <3>4, <3>5
      <4>2. flat[i - 1] \in Seq(S)
        BY <4>1
      <4> QED
        BY <2>3, <3>4, <3>5, <4>2
    <3>7. flat[i - 1] \o d[i] \in Seq(S)
        BY <3>4, <3>6, ConcatProperties
    <3> QED
        BY <3>4, <3>6, <3>7
  <2>5. n \in 1..n
      BY <1>3
  <2> QED
      BY <2>1, <2>4, <2>5
<1> QED
    BY <1>2, <1>3

\* A line's bytes, whole or cut
LEMMA BytesAreInBytes ==
  ASSUME NEW l \in Lines
  PROVE  Bytes(l) \in Seq(InBytes)
<1>1. /\ "part" \in InBytes /\ "text" \in InBytes
      /\ "CR" \in InBytes /\ "LF" \in InBytes
    BY DEF InBytes
<1>2. CASE l = "blank"
  <2>1. Bytes(l) = <<"CR", "LF">>
      BY <1>2 DEF Bytes
  <2> QED
      BY <1>1, <2>1
<1>3. CASE l = "bareCR"
  <2>1. Bytes(l) = <<"part", "CR", "text", "CR", "LF">>
      BY <1>3 DEF Bytes
  <2> QED
      BY <1>1, <2>1
<1>4. CASE l \notin {"blank", "bareCR"}
  <2>1. l \in InBytes
      BY <1>4 DEF Lines, InBytes
  <2>2. Bytes(l) = <<"part", l, "CR", "LF">>
      BY <1>4 DEF Bytes
  <2> QED
      BY <1>1, <2>1, <2>2
<1> QED
    BY <1>2, <1>3, <1>4

LEMMA SentIsInBytes ==
  ASSUME NEW max \in Nat, NEW s \in Sent(max)
  PROVE  s \in Seq(InBytes)
<1> DEFINE whole(n, d) == FlattenSeq([i \in 1..n |-> Bytes(d[i])])
           lines(n) == {whole(n, d) \o c : d \in [1..n -> Lines], c \in Cuts}
<1>1. s \in UNION {lines(n) : n \in 0..(max - 1)}
  <2>1. Sent(max) = UNION {lines(n) : n \in 0..(max - 1)}
      BY DEF Sent
  <2> HIDE DEF lines
  <2> QED
      BY <2>1
<1>2. PICK n \in 0..(max - 1) : \E d \in [1..n -> Lines], c \in Cuts : s = whole(n, d) \o c
  <2> HIDE DEF lines
  <2>1. PICK n \in 0..(max - 1) : s \in lines(n)
      BY <1>1
  <2> HIDE DEF whole
  <2>2. \E d \in [1..n -> Lines], c \in Cuts : s = whole(n, d) \o c
      BY <2>1 DEF lines
  <2> QED
      BY <2>2
<1> HIDE DEF whole
<1>3. PICK d \in [1..n -> Lines], c \in Cuts : s = whole(n, d) \o c
    BY <1>2
<1>4. n \in Nat /\ [i \in 1..n |-> Bytes(d[i])] \in [1..n -> Seq(InBytes)]
  <2>1. \A i \in 1..n : d[i] \in Lines
      BY <1>2
  <2> QED
      BY <2>1, BytesAreInBytes
<1>5. whole(n, d) \in Seq(InBytes)
    BY <1>4, FlattenIsSeq DEF whole
<1>6. c \in Seq(InBytes)
  <2>1. PICK l \in Lines : c \in {SubSeq(Bytes(l), 1, k) : k \in 1..Len(Bytes(l))}
      BY DEF Cuts
  <2>2. PICK k \in 1..Len(Bytes(l)) : c = SubSeq(Bytes(l), 1, k)
      BY <2>1
  <2>3. Bytes(l) \in Seq(InBytes)
      BY BytesAreInBytes
  <2>4. k \in Nat /\ k <= Len(Bytes(l)) /\ 0 <= k /\ 0 \in Nat /\ 0 + 1 = 1
      BY <2>3
  <2>5. SubSeq(Bytes(l), 0 + 1, k) \in Seq(InBytes)
      BY <2>3, <2>4, SliceProperties
  <2> QED
      BY <2>2, <2>4, <2>5
<1> QED
    BY <1>3, <1>5, <1>6, ConcatProperties

LEMMA DeliveriesAreInBytes ==
  ASSUME NEW d \in Deliveries
  PROVE  d \in Seq(InBytes)
<1>1. MaxFirst \in Nat /\ MaxLater \in Nat
    BY HttpAssumption
<1>2. CASE rounds = 0
    BY <1>1, <1>2, SentIsInBytes DEF Deliveries, First
<1>3. CASE rounds # 0
  <2>1. PICK e \in Ends(taken) :
          \/ \E k \in 1..Len(e) : d = SubSeq(e, 1, k)
          \/ \E l \in Later : d = e \o l
      BY <1>3 DEF Deliveries
  <2>2. e \in {<<>>, <<"LF">>, <<"CR", "LF">>, <<"hit", "CR", "LF">>, <<"keepAlive", "CR", "LF">>}
      BY DEF Ends
  <2>3. /\ "CR" \in InBytes /\ "LF" \in InBytes
        /\ "hit" \in InBytes /\ "keepAlive" \in InBytes
      BY DEF InBytes
  <2>4. e \in Seq(InBytes)
    <3>1. CASE e = <<>>
      BY <3>1
    <3>2. CASE e = <<"LF">>
      BY <2>3, <3>2
    <3>3. CASE e = <<"CR", "LF">>
      BY <2>3, <3>3
    <3>4. CASE e = <<"hit", "CR", "LF">>
      BY <2>3, <3>4
    <3>5. CASE e = <<"keepAlive", "CR", "LF">>
      BY <2>3, <3>5
    <3> QED
      BY <2>2, <3>1, <3>2, <3>3, <3>4, <3>5
  <2>5. CASE \E k \in 1..Len(e) : d = SubSeq(e, 1, k)
    <3>1. PICK k \in 1..Len(e) : d = SubSeq(e, 1, k)
      BY <2>5
    <3>2. \A i \in 1..k : e[i] \in InBytes
      BY <2>4, LenProperties, ElementOfSeq
    <3> QED
      BY <2>4, <3>1, <3>2, SubSeqProperties
  <2>6. CASE \E l \in Later : d = e \o l
    <3>1. PICK l \in Later : d = e \o l
      BY <2>6
    <3>2. l \in Seq(InBytes)
      BY <1>1, SentIsInBytes DEF Later
    <3> QED
      BY <2>4, <3>1, <3>2, ConcatProperties
  <2> QED
      BY <2>1, <2>5, <2>6
<1> QED
    BY <1>2, <1>3

(***************************************************************************)
(* Lines                                                                    *)
(***************************************************************************)
\* What is behind the first n elements of a rest
LEMMA SliceOfRest ==
  ASSUME NEW S, NEW s \in Seq(S), NEW q \in Nat, NEW n \in Nat, q + n <= Len(s)
  PROVE  SubSeq(SubSeq(s, q + 1, Len(s)), n + 1, Len(s) - q) = SubSeq(s, (q + n) + 1, Len(s))
<1> DEFINE L == Len(s)
           l == L - q
           m == q + n
           rest == SubSeq(s, q + 1, L)
           a == SubSeq(rest, n + 1, l)
           b == SubSeq(s, m + 1, L)
<1>1. /\ L \in Nat /\ l \in Nat /\ m \in Nat /\ q <= L /\ L <= Len(s) /\ m <= L
      /\ n <= l /\ l - n = L - m
    OBVIOUS
<1>2. /\ rest \in Seq(S) /\ Len(rest) = L - q
      /\ \A i \in 1..(L - q) : rest[i] = s[q + i]
  <2> HIDE DEF L
  <2> QED
    BY <1>1, SliceProperties
<1> HIDE DEF rest
<1>3. /\ a \in Seq(S) /\ Len(a) = l - n
      /\ \A i \in 1..(l - n) : a[i] = rest[n + i]
  <2>1. rest \in Seq(S) /\ n \in Nat /\ l \in Nat /\ n <= l /\ l <= Len(rest)
    BY <1>1, <1>2
  <2> HIDE DEF L, l
  <2> QED
    BY <2>1, SliceProperties
<1>4. /\ b \in Seq(S) /\ Len(b) = L - m
      /\ \A i \in 1..(L - m) : b[i] = s[m + i]
  <2> HIDE DEF L, m
  <2> QED
    BY <1>1, SliceProperties
<1> HIDE DEF a, b
<1>5. ASSUME NEW i \in 1..Len(a) PROVE a[i] = b[i]
  <2>1. i \in 1..(l - n) /\ i \in 1..(L - m) /\ n + i \in 1..(L - q) /\ q + (n + i) = m + i
      BY <1>1, <1>3
  <2> QED
      BY <1>2, <1>3, <1>4, <2>1
<1>6. a = b
    BY <1>1, <1>3, <1>4, <1>5, SeqEqual
<1> QED
    BY <1>6 DEF a, b, rest

\* t and s agree behind r and q, up to k and m.
Agree(B, t, r, k, s, q, m) ==
  /\ t \in Seq(B) /\ s \in Seq(B)
  /\ r \in Nat /\ k \in Nat /\ q \in Nat /\ m \in Nat
  /\ r <= k /\ k <= Len(t) /\ q <= m /\ m <= Len(s)
  /\ k - r = m - q
  /\ \A j \in 1..(m - q) : t[r + j] = s[q + j]

\* The elements of s behind the first u, up to v
Part(s, u, v) == SubSeq(s, u + 1, v)

LEMMA SameSlices ==
  ASSUME NEW B, NEW t, NEW r, NEW k, NEW s, NEW q, NEW m, Agree(B, t, r, k, s, q, m)
  PROVE  Part(t, r, k) = Part(s, q, m)
<1> DEFINE a == SubSeq(t, r + 1, k)
           b == SubSeq(s, q + 1, m)
<1>1. /\ a \in Seq(B) /\ Len(a) = k - r
      /\ \A i \in 1..(k - r) : a[i] = t[r + i]
    BY SliceProperties, SMTT(30) DEF Agree
<1>2. /\ b \in Seq(B) /\ Len(b) = m - q
      /\ \A i \in 1..(m - q) : b[i] = s[q + i]
    BY SliceProperties DEF Agree
<1> HIDE DEF a, b
<1>3. Len(a) = Len(b) /\ \A i \in 1..Len(a) : a[i] = b[i]
    BY <1>1, <1>2 DEF Agree
<1>4. a = b
    BY <1>1, <1>2, <1>3, SeqEqual
<1> QED
    BY <1>4 DEF a, b, Part

\* e ends the line behind q.
NextFeed(s, q, e) == /\ e \in LineFeeds(s)
                     /\ q < e
                     /\ \A f \in LineFeeds(s) : f <= q \/ e <= f

\* The lines up to q have been read.
AtFeed(s, q) == /\ q \in 0..Len(s)
                /\ q = 0 \/ q \in LineFeeds(s)

\* The line behind q has a '\r' and a '\n' of its own.
LEMMA NextFeedProperties ==
  ASSUME NEW S, NEW s \in Seq(S), NEW q, NEW e, AtFeed(s, q), NextFeed(s, q, e)
  PROVE  /\ q \in Nat /\ e \in Nat /\ q + 2 <= e /\ e <= Len(s)
         /\ s[e - 1] = "CR" /\ s[e] = "LF"
         /\ AtFeed(s, e)
<1>1. Len(s) \in Nat
    OBVIOUS
<1>2. e \in 2..Len(s) /\ s[e - 1] = "CR" /\ s[e] = "LF" /\ q \in Nat /\ q < e
    BY <1>1 DEF AtFeed, NextFeed, LineFeeds
<1>3. q # e - 1
  <2>1. SUFFICES ASSUME q = e - 1 PROVE FALSE
      OBVIOUS
  <2>2. q # 0
      BY <1>1, <1>2, <2>1
  <2>3. s[q] = "LF"
      BY <2>2 DEF AtFeed, LineFeeds
  <2> QED
      BY <1>2, <2>1, <2>3
<1> QED
    BY <1>1, <1>2, <1>3 DEF AtFeed, NextFeed

\* The ends of lines a buffer sees are those of its content.
LEMMA LineEndsAreFeeds ==
  ASSUME NEW S, NEW b, IsBuffer(b, S), NEW R, NEW s \in Seq(R), NEW q, AtFeed(s, q),
         Content(b) = Part(s, q, Len(s))
  PROVE  /\ b.w - b.r = Len(s) - q
         /\ \A j \in 1..(b.w - b.r) : b.mem[b.r + j] = s[q + j]
         /\ \A j \in 1..(b.w - b.r) : b.r + j \in LineEnds(b) <=> q + j \in LineFeeds(s)
<1>1. /\ b.r \in Nat /\ b.w \in Nat /\ b.r <= b.w /\ Len(s) \in Nat
      /\ q \in Nat /\ q <= Len(s)
    BY DEF IsBuffer, AtFeed
<1>2. /\ Len(Content(b)) = b.w - b.r
      /\ \A i \in 1..(b.w - b.r) : Content(b)[i] = b.mem[b.r + i]
    BY ContentProperties
<1>3. /\ Len(SubSeq(s, q + 1, Len(s))) = Len(s) - q
      /\ \A i \in 1..(Len(s) - q) : SubSeq(s, q + 1, Len(s))[i] = s[q + i]
    BY <1>1, SliceProperties
<1>4. b.w - b.r = Len(s) - q
    BY <1>2, <1>3 DEF Part
<1>5. \A j \in 1..(b.w - b.r) : b.mem[b.r + j] = s[q + j]
    BY <1>2, <1>3, <1>4 DEF Part
<1>6. ASSUME NEW j \in 1..(b.w - b.r)
      PROVE  b.r + j \in LineEnds(b) <=> q + j \in LineFeeds(s)
  <2>1. CASE j = 1
    <3>1. b.r + j \notin LineEnds(b)
        BY <1>1, <2>1 DEF LineEnds
    <3>2. q + j \notin LineFeeds(s)
      <4>1. SUFFICES ASSUME q + j \in LineFeeds(s) PROVE FALSE
          OBVIOUS
      <4>2. q + j \in 2..Len(s) /\ s[q + j - 1] = "CR"
          BY <1>1, <4>1 DEF LineFeeds
      <4>3. q # 0 /\ q + j - 1 = q
          BY <1>1, <2>1, <4>2
      <4>4. s[q] = "LF"
          BY <4>3 DEF AtFeed, LineFeeds
      <4> QED
          BY <4>2, <4>3, <4>4
    <3> QED
        BY <3>1, <3>2
  <2>2. CASE j # 1
    <3>1. /\ j - 1 \in 1..(b.w - b.r) /\ b.r + (j - 1) = b.r + j - 1 /\ q + (j - 1) = q + j - 1
          /\ b.r + j \in (b.r + 2)..b.w /\ q + j \in 2..Len(s)
        BY <1>1, <1>4, <2>2
    <3>2. b.mem[b.r + j] = s[q + j] /\ b.mem[b.r + j - 1] = s[q + j - 1]
        BY <1>5, <3>1
    <3>3. b.r + j \in LineEnds(b) <=> b.mem[b.r + j - 1] = "CR" /\ b.mem[b.r + j] = "LF"
      <4>1. PICK i : i = b.r + j
          OBVIOUS
      <4>2. PICK k : k = b.r + j - 1
          OBVIOUS
      <4>3. i \in (b.r + 2)..b.w /\ k = i - 1
          BY <1>1, <3>1, <4>1, <4>2, SMTT(30)
      <4>4. i \in LineEnds(b) <=> b.mem[k] = "CR" /\ b.mem[i] = "LF"
          BY <4>3 DEF LineEnds
      <4> QED
          BY <4>1, <4>2, <4>4, Zenon
    <3>4. q + j \in LineFeeds(s) <=> s[q + j - 1] = "CR" /\ s[q + j] = "LF"
      <4> DEFINE i == q + j
      <4>1. i \in 2..Len(s)
          BY <3>1
      <4> HIDE DEF i
      <4>2. i \in LineFeeds(s) <=> s[i - 1] = "CR" /\ s[i] = "LF"
          BY <4>1 DEF LineFeeds
      <4> QED
          BY <1>1, <4>2 DEF i
    <3> QED
        BY <3>2, <3>3, <3>4
  <2> QED
      BY <2>1, <2>2
<1> QED
    BY <1>4, <1>5, <1>6

\* Taking the front of a buffer leaves the rest.
LEMMA AdvanceLeaves ==
  ASSUME NEW S, Junk \in S, NEW b, IsBuffer(b, S), NEW n \in Nat, n <= b.w - b.r
  PROVE  /\ IsBuffer(Advance(b, b.r + n), S)
         /\ Content(Advance(b, b.r + n)) = SubSeq(Content(b), n + 1, b.w - b.r)
<1> DEFINE c == Advance(b, b.r + n)
           mem == [i \in DOMAIN b.mem |-> IF i <= b.r + n THEN Junk ELSE b.mem[i]]
           rest == SubSeq(Content(b), n + 1, b.w - b.r)
<1>1. /\ b.r \in Nat /\ b.w \in Nat /\ b.mem \in Seq(S)
      /\ b.r <= b.w /\ b.w <= Len(b.mem) /\ Len(b.mem) \in Nat
      /\ \A i \in 1..Len(b.mem) : b.mem[i] \in S
      /\ b = [r |-> b.r, w |-> b.w, mem |-> b.mem]
      /\ DOMAIN b.mem = 1..Len(b.mem)
    BY ElementOfSeq DEF IsBuffer
<1>2. c = [r |-> b.r + n, w |-> b.w, mem |-> mem]
  <2>1. c = [b EXCEPT !.r = b.r + n, !.mem = mem]
      BY DEF Advance
  <2> HIDE DEF c, mem
  <2> QED
      BY <1>1, <2>1
<1>3. mem \in Seq(S) /\ Len(mem) = Len(b.mem)
  <2>1. mem \in [1..Len(b.mem) -> S]
      BY <1>1
  <2> HIDE DEF mem
  <2> QED
      BY <1>1, <2>1, VectorIsSeq
<1>4. \A i \in 1..(b.w - b.r - n) : mem[b.r + n + i] = b.mem[b.r + n + i]
    BY <1>1
<1> HIDE DEF c, mem
<1>5. IsBuffer(c, S)
    BY <1>1, <1>2, <1>3 DEF IsBuffer
<1>6. c.r = b.r + n /\ c.w = b.w /\ c.mem = mem
    BY <1>2
<1>7. /\ Content(c) \in Seq(S)
      /\ Len(Content(c)) = b.w - b.r - n
      /\ \A i \in 1..(b.w - b.r - n) : Content(c)[i] = b.mem[b.r + n + i]
  <2>1. /\ Content(c) \in Seq(S)
        /\ Len(Content(c)) = c.w - c.r
        /\ \A i \in 1..(c.w - c.r) : Content(c)[i] = c.mem[c.r + i]
      BY <1>5, ContentProperties
  <2>2. c.w - c.r = b.w - b.r - n
      BY <1>1, <1>6
  <2> QED
      BY <1>4, <1>6, <2>1, <2>2
<1>8. /\ rest \in Seq(S)
      /\ Len(rest) = b.w - b.r - n
      /\ \A i \in 1..(b.w - b.r - n) : rest[i] = b.mem[b.r + n + i]
  <2>1. /\ Content(b) \in Seq(S)
        /\ Len(Content(b)) = b.w - b.r
        /\ \A i \in 1..(b.w - b.r) : Content(b)[i] = b.mem[b.r + i]
      BY ContentProperties
  <2> DEFINE l == b.w - b.r
  <2>2. l \in Nat /\ n <= l /\ l <= Len(Content(b))
      BY <1>1, <2>1
  <2> HIDE DEF l
  <2>3. /\ SubSeq(Content(b), n + 1, l) \in Seq(S)
        /\ Len(SubSeq(Content(b), n + 1, l)) = l - n
        /\ \A i \in 1..(l - n) : SubSeq(Content(b), n + 1, l)[i] = Content(b)[n + i]
      BY <2>1, <2>2, SliceProperties
  <2>4. /\ rest \in Seq(S) /\ Len(rest) = b.w - b.r - n
        /\ \A i \in 1..(b.w - b.r - n) : rest[i] = Content(b)[n + i]
      BY <2>3 DEF l
  <2> HIDE DEF rest
  <2>5. ASSUME NEW i \in 1..(b.w - b.r - n) PROVE rest[i] = b.mem[b.r + n + i]
    <3>1. n + i \in 1..(b.w - b.r) /\ b.r + (n + i) = b.r + n + i
        BY <1>1
    <3> QED
        BY <2>1, <2>4, <3>1
  <2> QED
      BY <2>4, <2>5
<1> HIDE DEF rest
<1>9. Content(c) = rest
    BY <1>7, <1>8, SeqEqual
<1> QED
    BY <1>5, <1>9 DEF c, rest

\* The line behind q of s is got, and the rest of s is left; or no line ends
\* there, and nothing is taken.
LineRead(S, s, q, got) ==
  /\ IsBuffer(got.rest, S)
  /\ \/ /\ \A f \in LineFeeds(s) : f <= q
        /\ got.line = Part(s, q, Len(s) - 1)
        /\ Content(got.rest) = Part(s, q, Len(s))
     \/ \E e \in LineFeeds(s) :
          /\ NextFeed(s, q, e)
          /\ got.line = Part(s, q, e)
          /\ Content(got.rest) = Part(s, e, Len(s))

\* getAnHTTPLine() takes the line behind q out of the buffer, or leaves it all
\* there when no line ends (Buffer.cpp:58-83).
LEMMA LineIsRead ==
  ASSUME NEW S, Junk \in S, NEW b, IsBuffer(b, S), NEW R, NEW s \in Seq(R), NEW q,
         AtFeed(s, q), Content(b) = Part(s, q, Len(s))
  PROVE  LineRead(S, s, q, GetAnHTTPLine(b))
<1> DEFINE got == GetAnHTTPLine(b)
<1>1. /\ b.r \in Nat /\ b.w \in Nat /\ b.mem \in Seq(S) /\ Len(b.mem) \in Nat
      /\ b.r <= b.w /\ b.w <= Len(b.mem) /\ Len(s) \in Nat
      /\ q \in Nat /\ q <= Len(s)
    BY DEF IsBuffer, AtFeed
<1>2. /\ b.w - b.r = Len(s) - q
      /\ \A j \in 1..(b.w - b.r) : b.mem[b.r + j] = s[q + j]
      /\ \A j \in 1..(b.w - b.r) : b.r + j \in LineEnds(b) <=> q + j \in LineFeeds(s)
    BY LineEndsAreFeeds
<1>3. ASSUME NEW i \in LineEnds(b)
      PROVE  i \in Nat /\ i - b.r \in 1..(b.w - b.r) /\ b.r + (i - b.r) = i
  <2>1. i \in (b.r + 2)..b.w
      BY DEF LineEnds
  <2>2. PICK r, w : r = b.r /\ w = b.w
      OBVIOUS
  <2>3. r \in Nat /\ w \in Nat /\ i \in (r + 2)..w
      BY <1>1, <2>1, <2>2
  <2>4. i \in Nat /\ i - r \in 1..(w - r) /\ r + (i - r) = i
      BY ONLY <2>3
  <2> QED
      BY <2>2, <2>4
<1>4. ASSUME NEW f \in LineFeeds(s), q < f
      PROVE  /\ f \in Nat /\ f - q \in 1..(b.w - b.r) /\ q + (f - q) = f
             /\ b.r + (f - q) \in LineEnds(b)
  <2>1. f \in Nat /\ f - q \in 1..(b.w - b.r) /\ q + (f - q) = f
      BY <1>1, <1>2, <1>4 DEF LineFeeds
  <2> QED
      BY <1>2, <2>1
<1>5. Seq(S) \subseteq Seq(S \cup R) /\ Seq(R) \subseteq Seq(S \cup R)
    OBVIOUS
<1>6. CASE LineEnds(b) = {}
  <2>1. got = [line |-> SubSeq(b.mem, b.r + 1, b.w - 1), rest |-> b]
      BY <1>6 DEF GetAnHTTPLine
  <2>2. \A f \in LineFeeds(s) : f <= q
    <3>1. \A f \in LineFeeds(s) : f \in Nat
        BY DEF LineFeeds
    <3> QED
        BY <1>1, <1>4, <1>6, <3>1
  <2>3. SubSeq(b.mem, b.r + 1, b.w - 1) = SubSeq(s, q + 1, Len(s) - 1)
    <3>1. CASE b.w = b.r
      <4>1. /\ b.r + 1 \in Int /\ b.w - 1 \in Int /\ b.w - 1 < b.r + 1
            /\ q + 1 \in Int /\ Len(s) - 1 \in Int /\ Len(s) - 1 < q + 1
          BY <1>1, <1>2, <3>1
      <4> QED
          BY <4>1, SubSeqEmpty
    <3>2. CASE b.w # b.r
      <4> DEFINE n == b.w - b.r - 1
      <4>1. /\ n \in Nat /\ b.r + n = b.w - 1 /\ q + n = Len(s) - 1
            /\ b.r + n <= Len(b.mem) /\ q + n <= Len(s)
            /\ \A j \in 1..n : j \in 1..(b.w - b.r)
        <5>1. b.w - b.r = Len(s) - q
          BY <1>2
        <5> QED
          BY <1>1, <3>2, <5>1, SMTT(30)
      <4> HIDE DEF n
      <4>2. \A j \in 1..n : b.mem[b.r + j] = s[q + j]
          BY <1>2, <4>1
      <4>3. SubSeq(b.mem, b.r + 1, b.r + n) = SubSeq(s, q + 1, q + n)
        <5>1. PICK t, r, k, m : t = b.mem /\ r = b.r /\ k = b.w - 1 /\ m = Len(s) - 1
          OBVIOUS
        <5>2. t \in Seq(S) /\ r \in Nat /\ k \in Nat /\ r <= k /\ k <= Len(t)
          BY <1>1, <4>1, <5>1
        <5>3. m \in Nat /\ q <= m /\ m <= Len(s) /\ k - r = n /\ m - q = n
          BY <1>1, <4>1, <5>1
        <5>4. \A j \in 1..n : t[r + j] = s[q + j]
          BY <4>2, <5>1
        <5>5. Agree(S \cup R, t, r, k, s, q, m)
          BY <1>1, <1>5, <5>2, <5>3, <5>4 DEF Agree
        <5>6. Part(t, r, k) = Part(s, q, m)
          BY <5>5, SameSlices
        <5> QED
          BY <4>1, <5>1, <5>6 DEF Part
      <4> QED
          BY <4>1, <4>3
    <3> QED
        BY <3>1, <3>2
  <2> HIDE DEF got
  <2>4. got.line = SubSeq(s, q + 1, Len(s) - 1) /\ got.rest = b
      BY <2>1, <2>3
  <2> QED
      BY <2>2, <2>4 DEF LineRead, got, Part
<1>7. CASE LineEnds(b) # {}
  <2> DEFINE end == CHOOSE i \in LineEnds(b) : \A j \in LineEnds(b) : i <= j
             n == end - b.r
             e == q + n
  <2>1. got = [line |-> SubSeq(b.mem, b.r + 1, end), rest |-> Advance(b, end)]
      BY <1>7 DEF GetAnHTTPLine
  <2>2. end \in LineEnds(b) /\ \A j \in LineEnds(b) : end <= j
    <3>1. LineEnds(b) \subseteq Nat
        BY <1>3
    <3>2. \E i \in LineEnds(b) : \A j \in LineEnds(b) : i <= j
        BY <1>7, <3>1, Least
    <3> QED
        BY <3>2
  <2> HIDE DEF end
  <2>3. /\ n \in Nat /\ n \in 1..(b.w - b.r) /\ b.r + n = end
      BY <1>1, <1>3, <2>2
  <2>4. NextFeed(s, q, e)
    <3>1. b.r + n \in LineEnds(b)
        BY <2>2, <2>3
    <3> HIDE DEF n
    <3>2. e \in LineFeeds(s)
        BY <1>2, <2>3, <3>1
    <3>3. q < e
        BY <1>1, <2>3
    <3>4. ASSUME NEW f \in LineFeeds(s), ~(f <= q) PROVE e <= f
      <4>1. f \in Nat /\ q < f
          BY <1>1, <3>4 DEF LineFeeds
      <4>2. f - q \in 1..(b.w - b.r) /\ b.r + (f - q) \in LineEnds(b)
          BY <1>4, <4>1
      <4>3. b.r + n <= b.r + (f - q)
          BY <2>2, <2>3, <4>2
      <4> QED
          BY <1>1, <2>3, <4>1, <4>3
    <3> QED
        BY <3>2, <3>3, <3>4 DEF NextFeed
  <2>5. SubSeq(b.mem, b.r + 1, end) = SubSeq(s, q + 1, e)
    <3>1. b.r + n <= Len(b.mem) /\ q + n <= Len(s) /\ \A j \in 1..n : j \in 1..(b.w - b.r)
        BY <1>1, <1>2, <2>3
    <3> HIDE DEF n
    <3>2. \A j \in 1..n : b.mem[b.r + j] = s[q + j]
        BY <1>2, <3>1
    <3>3. SubSeq(b.mem, b.r + 1, b.r + n) = SubSeq(s, q + 1, q + n)
      <4>1. PICK t, r, k, m : t = b.mem /\ r = b.r /\ k = b.r + n /\ m = q + n
          OBVIOUS
      <4>2. t \in Seq(S) /\ r \in Nat /\ k \in Nat /\ r <= k /\ k <= Len(t)
          BY <1>1, <2>3, <3>1, <4>1
      <4>3. m \in Nat /\ q <= m /\ m <= Len(s) /\ k - r = n /\ m - q = n
          BY <1>1, <2>3, <3>1, <4>1
      <4>4. \A j \in 1..n : t[r + j] = s[q + j]
          BY <3>2, <4>1
      <4>5. Agree(S \cup R, t, r, k, s, q, m)
          BY <1>1, <1>5, <4>2, <4>3, <4>4 DEF Agree
      <4>6. Part(t, r, k) = Part(s, q, m)
          BY <4>5, SameSlices
      <4> QED
          BY <4>1, <4>6 DEF Part
    <3> QED
        BY <2>3, <3>3
  <2>6. /\ IsBuffer(Advance(b, end), S)
        /\ Content(Advance(b, end)) = SubSeq(s, e + 1, Len(s))
    <3> HIDE DEF n
    <3>1. n <= b.w - b.r
        BY <2>3
    <3>2. /\ IsBuffer(Advance(b, b.r + n), S)
          /\ Content(Advance(b, b.r + n)) = SubSeq(Content(b), n + 1, b.w - b.r)
        BY <2>3, <3>1, AdvanceLeaves
    <3>3. SubSeq(SubSeq(s, q + 1, Len(s)), n + 1, Len(s) - q) = SubSeq(s, (q + n) + 1, Len(s))
        BY <1>1, <1>2, <2>3, <3>1, SliceOfRest
    <3> QED
        BY <1>2, <2>3, <3>2, <3>3 DEF Part
  <2> HIDE DEF got
  <2>7. got.line = SubSeq(b.mem, b.r + 1, end) /\ got.rest = Advance(b, end)
      BY <2>1
  <2> HIDE DEF e
  <2>8. e \in LineFeeds(s)
      BY <2>4 DEF NextFeed
  <2> QED
      BY <2>4, <2>5, <2>6, <2>7, <2>8 DEF LineRead, got, Part
<1> QED
    BY <1>6, <1>7

\* A text with a '\r' in it is the one the reading calls so.
LEMMA KindIsBareCR ==
  ASSUME NEW text \in Seq(InBytes)
  PROVE  Kind(text) = "bareCR" <=> \E i \in 1..Len(text) : text[i] = "CR"
<1>1. CASE text = <<>>
  <2>1. Kind(text) = "blank"
      BY <1>1 DEF Kind
  <2>2. Len(text) = 0
      BY <1>1
  <2> QED
      BY <2>1, <2>2
<1>2. CASE text # <<>> /\ Contains(text, "CR")
  <2>1. Kind(text) = "bareCR"
      BY <1>2 DEF Kind
  <2> QED
      BY <1>2, <2>1 DEF Contains
<1>3. CASE text # <<>> /\ ~Contains(text, "CR") /\ Len(text) = 2 /\ text[1] = "part"
  <2>1. Kind(text) = text[2]
      BY <1>3 DEF Kind
  <2>2. text[2] \in InBytes
    <3>1. 2 \in 1..Len(text)
      BY <1>3
    <3> QED
      BY <3>1, ElementOfSeq
  <2>3. Kind(text) # "bareCR"
      BY <2>1, <2>2 DEF InBytes
  <2> QED
      BY <1>3, <2>3 DEF Contains
<1>4. CASE text # <<>> /\ ~Contains(text, "CR") /\ ~(Len(text) = 2 /\ text[1] = "part")
    BY <1>4 DEF Kind, Contains
<1> QED
    BY <1>1, <1>2, <1>3, <1>4

\* The line that ends at e begins behind q.
LEMMA LineKindIsKind ==
  ASSUME NEW R, NEW s \in Seq(R), NEW q, NEW e, AtFeed(s, q), NextFeed(s, q, e)
  PROVE  LineKind(s, e) = Kind(SubSeq(s, q + 1, e - 2))
<1> DEFINE T == {0} \cup Before(s, e)
<1>1. q \in Nat /\ e \in Nat /\ q + 2 <= e /\ e <= Len(s)
    BY NextFeedProperties
<1>2. \A f \in LineFeeds(s) : f \in Nat
    BY DEF LineFeeds
<1>3. q \in T
    BY <1>1 DEF AtFeed, Before
<1>4. \A f \in T : f \in Nat /\ f <= q
    BY <1>1, <1>2 DEF NextFeed, Before
<1> HIDE DEF T
<1>5. \A x \in T : (\A y \in T : x >= y) => x = q
    BY <1>1, <1>3, <1>4
<1>6. q \in T /\ \A y \in T : q >= y
    BY <1>1, <1>3, <1>4
<1>7. Max(T) = q
    BY <1>5, <1>6 DEF Max
<1> QED
    BY <1>7 DEF LineKind, T

\* parseLine() on the line that was read (HttpContext.cpp:88-111): what it makes
\* of a text is what the reading makes of it, and it is content unless the text
\* has a '\r' of its own.
LEMMA LineIsParsed ==
  ASSUME NEW s \in Seq(InBytes), NEW q, NEW e, AtFeed(s, q), NextFeed(s, q, e),
         line = Part(s, q, e)
  PROVE  /\ Text = LineKind(s, e)
         /\ LineOk <=> LineKind(s, e) # "bareCR"
<1> DEFINE n == e - q
           crs == {i \in 1..(Len(line) - 1) : line[i] = "CR"}
           first == CHOOSE i \in crs : \A j \in crs : i <= j
           text == SubSeq(s, q + 1, e - 2)
<1>1. /\ q \in Nat /\ e \in Nat /\ q + 2 <= e /\ e <= Len(s)
      /\ s[e - 1] = "CR" /\ s[e] = "LF"
    BY NextFeedProperties
<1>2. /\ line \in Seq(InBytes) /\ Len(line) = n
      /\ \A i \in 1..n : line[i] = s[q + i]
    BY <1>1, SliceProperties DEF Part
<1>3. n \in Nat /\ n >= 2 /\ q + n = e /\ e - 2 \in Nat /\ q <= e - 2 /\ e - 2 <= Len(s)
      /\ e - 2 - q = n - 2 /\ n - 2 \in Nat
    BY <1>1
<1>4. /\ text \in Seq(InBytes) /\ Len(text) = n - 2
      /\ \A i \in 1..(n - 2) : text[i] = s[q + i]
  <2> DEFINE m == e - 2
  <2>1. m \in Nat /\ q <= m /\ m <= Len(s)
      BY <1>3
  <2> HIDE DEF m
  <2>2. /\ SubSeq(s, q + 1, m) \in Seq(InBytes) /\ Len(SubSeq(s, q + 1, m)) = m - q
        /\ \A i \in 1..(m - q) : SubSeq(s, q + 1, m)[i] = s[q + i]
      BY <1>1, <2>1, SliceProperties
  <2> QED
      BY <1>3, <2>2 DEF m
<1>5. LineKind(s, e) = Kind(text)
    BY LineKindIsKind
<1>6. Text = Kind(text)
  <2>1. Part(line, 0, n - 2) = Part(s, q, e - 2)
    <3>1. /\ 0 \in Nat /\ n - 2 \in Nat /\ q \in Nat /\ e - 2 \in Nat
          /\ 0 <= n - 2 /\ n - 2 <= Len(line) /\ q <= e - 2 /\ e - 2 <= Len(s)
          /\ (n - 2) - 0 = (e - 2) - q
        BY <1>1, <1>2, <1>3
    <3>2. \A j \in 1..((e - 2) - q) : line[0 + j] = s[q + j]
      <4>1. \A j \in 1..((e - 2) - q) : j \in 1..n /\ 0 + j = j
        BY <1>1
      <4> QED
        BY <1>2, <4>1
    <3> HIDE DEF n
    <3>3. Agree(InBytes, line, 0, n - 2, s, q, e - 2)
        BY <1>2, <3>1, <3>2 DEF Agree
    <3> QED
        BY <3>3, SameSlices
  <2>2. Part(s, q, e - 2) = text /\ Part(line, 0, n - 2) = SubSeq(line, 0 + 1, n - 2)
      BY DEF Part
  <2>3. 0 + 1 = 1 /\ n - 2 = Len(line) - 2
      BY <1>2
  <2> HIDE DEF text
  <2>4. text = SubSeq(line, 1, Len(line) - 2)
      BY <2>1, <2>2, <2>3
  <2> QED
      BY <2>4 DEF Text
<1> HIDE DEF n, text
<1>7. n - 1 \in crs /\ n - 1 \in Nat /\ n - 1 + 1 = n
  <2>1. n - 1 \in 1..n /\ q + (n - 1) = e - 1 /\ n - 1 \in 1..(n - 1)
      BY <1>1, <1>3
  <2>2. line[n - 1] = "CR"
      BY <1>1, <1>2, <2>1
  <2> QED
      BY <1>2, <1>3, <2>1, <2>2
<1>8. /\ first \in crs /\ \A j \in crs : first <= j
      /\ crs # {} /\ \A j \in crs : j \in 1..(n - 1) /\ line[j] = "CR"
  <2>1. \A j \in crs : j \in 1..(n - 1) /\ line[j] = "CR"
      BY <1>2
  <2>2. crs \subseteq Nat /\ crs # {}
    <3> HIDE DEF crs
    <3> QED
      BY <1>7, <2>1
  <2> HIDE DEF crs
  <2>3. \E i \in crs : \A j \in crs : i <= j
      BY <2>2, Least
  <2> QED
      BY <2>1, <2>2, <2>3
<1>9. LineState = IF line[first + 1] = "LF" THEN "LINE_OK" ELSE "LINE_BAD"
    BY <1>8 DEF LineState
<1>10. \A i \in 1..(n - 1) : line[i] = "CR" => i \in crs
    BY <1>2
<1> HIDE DEF crs, first
<1>11. first \in 1..(n - 1) /\ first \in Nat /\ first <= n - 1
    BY <1>3, <1>8
<1>12. line[first + 1] = "LF" <=> first = n - 1
  <2>1. ASSUME line[first + 1] = "LF" PROVE first = n - 1
    <3> DEFINE f == q + first + 1
    <3>1. /\ first \in 1..n /\ first + 1 \in 1..n
          /\ q + (first + 1) = f /\ q + first = f - 1 /\ f \in 2..Len(s)
        BY <1>1, <1>3, <1>11
    <3>2. s[f] = "LF" /\ s[f - 1] = "CR"
        BY <1>2, <1>8, <2>1, <3>1
    <3> HIDE DEF f
    <3>3. f \in LineFeeds(s)
        BY <3>1, <3>2 DEF LineFeeds
    <3>4. f <= q \/ e <= f
        BY <3>3 DEF NextFeed
    <3> QED
        BY <1>1, <1>3, <1>11, <3>4 DEF f
  <2>2. ASSUME first = n - 1 PROVE line[first + 1] = "LF"
    <3>1. n \in 1..n
        BY <1>3
    <3>2. line[n] = s[e]
        BY <1>2, <1>3, <3>1
    <3> QED
        BY <1>1, <1>7, <2>2, <3>2
  <2> QED
      BY <2>1, <2>2
<1>13. first = n - 1 <=> ~\E i \in 1..(n - 2) : text[i] = "CR"
  <2>1. ASSUME first = n - 1, NEW i \in 1..(n - 2), text[i] = "CR" PROVE FALSE
    <3>1. i \in 1..(n - 1) /\ i \in 1..n /\ i <= n - 2
        BY <1>3
    <3>2. i \in crs
        BY <1>2, <1>4, <1>10, <2>1, <3>1
    <3> QED
        BY <1>3, <1>8, <2>1, <3>1, <3>2
  <2>2. ASSUME first # n - 1 PROVE \E i \in 1..(n - 2) : text[i] = "CR"
    <3>1. first \in 1..(n - 2) /\ first \in 1..n
        BY <1>3, <1>11, <2>2
    <3>2. text[first] = "CR"
        BY <1>2, <1>4, <1>8, <3>1
    <3> QED
        BY <3>1, <3>2
  <2> QED
      BY <2>1, <2>2
<1>14. Kind(text) = "bareCR" <=> \E i \in 1..(n - 2) : text[i] = "CR"
    BY <1>4, KindIsBareCR
<1> QED
    BY <1>5, <1>6, <1>9, <1>12, <1>13, <1>14 DEF LineOk

\* What is left when no line ends is not a line (HttpContext.cpp:88-111).
LEMMA RestIsNoLine ==
  ASSUME NEW R, NEW s \in Seq(R), NEW q, AtFeed(s, q), \A f \in LineFeeds(s) : f <= q,
         line = Part(s, q, Len(s) - 1)
  PROVE  ~LineOk
<1> DEFINE crs == {i \in 1..(Len(line) - 1) : line[i] = "CR"}
           first == CHOOSE i \in crs : \A j \in crs : i <= j
           m == Len(s) - 1
<1>1. q \in Nat /\ Len(s) \in Nat /\ q <= Len(s)
    BY DEF AtFeed
<1>2. CASE q = Len(s)
  <2>1. q + 1 \in Int /\ m \in Int /\ m < q + 1
      BY <1>1, <1>2
  <2>2. line = <<>>
      BY <2>1, SubSeqEmpty DEF Part
  <2>3. PICK none : none = line
      OBVIOUS
  <2>4. none = <<>> /\ Len(none) = 0
      BY <2>2, <2>3
  <2>5. {i \in 1..(Len(none) - 1) : none[i] = "CR"} = {}
      BY <2>4
  <2>6. crs = {}
      BY <2>3, <2>5
  <2> QED
      BY <2>6 DEF LineOk, LineState
<1>3. CASE q # Len(s)
  <2>1. m \in Nat /\ q <= m /\ m <= Len(s) /\ m + 1 = Len(s)
      BY <1>1, <1>3
  <2> HIDE DEF m
  <2>2. /\ SubSeq(s, q + 1, m) \in Seq(R) /\ Len(SubSeq(s, q + 1, m)) = m - q
        /\ \A i \in 1..(m - q) : SubSeq(s, q + 1, m)[i] = s[q + i]
      BY <1>1, <2>1, SliceProperties
  <2>3. Len(line) = m - q /\ \A i \in 1..(m - q) : line[i] = s[q + i]
      BY <2>2 DEF m, Part
  <2>4. SUFFICES ASSUME LineOk PROVE FALSE
      OBVIOUS
  <2>5. crs # {} /\ line[first + 1] = "LF"
      BY <2>4 DEF LineOk, LineState
  <2>6. \A j \in crs : j \in 1..(m - q - 1) /\ line[j] = "CR"
      BY <1>1, <2>1, <2>3
  <2>7. crs \subseteq Nat
      BY <2>6
  <2> HIDE DEF crs
  <2>8. first \in crs
    <3>1. \E i \in crs : \A j \in crs : i <= j
        BY <2>5, <2>7, Least
    <3> QED
        BY <3>1
  <2> HIDE DEF first
  <2> DEFINE f == q + first + 1
  <2>9. /\ first \in 1..(m - q) /\ first + 1 \in 1..(m - q) /\ first \in Nat
        /\ q + (first + 1) = f /\ q + first = f - 1 /\ f \in 2..Len(s) /\ f > q
    <3>1. first \in 1..(m - q - 1)
      BY <2>6, <2>8
    <3> QED
      BY <1>1, <2>1, <3>1
  <2>10. s[f] = "LF" /\ s[f - 1] = "CR"
      BY <2>3, <2>5, <2>6, <2>8, <2>9
  <2> HIDE DEF f
  <2>11. f \in LineFeeds(s)
      BY <2>9, <2>10 DEF LineFeeds
  <2> QED
      BY <1>1, <2>9, <2>11
<1> QED
    BY <1>2, <1>3

(***************************************************************************)
(* The reading, as far as the parser has come                               *)
(***************************************************************************)
\* Up to q the header has nothing that ends the parsing.
Quiet(start, s, q) ==
  \A e \in HeaderLines(start, s) :
    e <= q => LineKind(s, e) \notin {"close", "bareCR", "blank"}

\* The header asks up to q to keep the connection.
AsksBefore(start, s, q) ==
  \E e \in HeaderLines(start, s) : e <= q /\ LineKind(s, e) = "keepAlive"

\* The request line is there and good, or has been before.
Begun(start, s) == /\ start # "END"
                   /\ start = "REQUEST_LINE" => FirstKind(s) \in {"hit", "miss"}

\* The first end of a line is the one behind the beginning.
LEMMA FirstIsNext ==
  ASSUME NEW s, NEW e, NextFeed(s, 0, e)
  PROVE  FirstKind(s) = LineKind(s, e)
<1>1. \A f \in LineFeeds(s) : f \in Nat /\ f > 0
    BY DEF LineFeeds
<1>2. e \in LineFeeds(s) /\ \A f \in LineFeeds(s) : e <= f
    BY <1>1 DEF NextFeed
<1>3. \A x \in LineFeeds(s) : (\A y \in LineFeeds(s) : x <= y) => x = e
    BY <1>1, <1>2
<1>4. Min(LineFeeds(s)) = e
    BY <1>2, <1>3 DEF Min
<1> QED
    BY <1>2, <1>4 DEF FirstKind

\* The line behind q is in the header when the request line is before it.
LEMMA NextIsInHeader ==
  ASSUME NEW start, NEW s, NEW q, NEW e, AtFeed(s, q), NextFeed(s, q, e),
         start = "REQUEST_LINE" => q # 0
  PROVE  /\ e \in HeaderLines(start, s)
         /\ \A f \in HeaderLines(start, s) : f <= q \/ e <= f
  BY DEF AtFeed, NextFeed, HeaderLines, Before

\* When the request line is read, no line of the header is.
LEMMA NoHeaderYet ==
  ASSUME NEW s, NEW e, NextFeed(s, 0, e)
  PROVE  \A f \in HeaderLines("REQUEST_LINE", s) : ~(f <= e)
<1>1. \A f \in LineFeeds(s) : f \in Nat /\ f > 0
    BY DEF LineFeeds
<1>2. SUFFICES ASSUME NEW f \in HeaderLines("REQUEST_LINE", s), f <= e PROVE FALSE
    OBVIOUS
<1>3. PICK g \in LineFeeds(s) : g < f
    BY DEF HeaderLines, Before
<1>4. f \in LineFeeds(s) /\ e \in LineFeeds(s) /\ e <= g
    BY <1>1 DEF HeaderLines, NextFeed
<1> QED
    BY <1>1, <1>2, <1>3, <1>4

\* Without a good request line nothing is complete and nothing is asked for.
LEMMA NotBegun ==
  ASSUME NEW start, NEW s, ~Begun(start, s)
  PROVE  ~Complete(start, s) /\ ~Asks(start, s)
  BY DEF Begun, Complete, Asks, Reaches

\* A header line up to q is reached.
LEMMA QuietReaches ==
  ASSUME NEW start, NEW s, NEW q \in Nat, Begun(start, s), Quiet(start, s, q),
         NEW e \in HeaderLines(start, s), e <= q
  PROVE  /\ Reaches(start, s, e)
         /\ \A f \in HeaderLines(start, s) : f <= e => LineKind(s, f) # "blank"
<1>1. \A f \in HeaderLines(start, s) : f \in Nat
    BY DEF HeaderLines, LineFeeds
<1>2. \A f \in HeaderLines(start, s) : f <= e => f <= q
    BY <1>1
<1> QED
    BY <1>2 DEF Quiet, Begun, Reaches

\* If nothing, or a bad line, follows the lines up to q, the request is not
\* complete, and what it asks for it has asked for before q.
LEMMA StopsIncomplete ==
  ASSUME NEW start, NEW s, NEW q \in Nat, Begun(start, s), Quiet(start, s, q),
         \/ \A f \in HeaderLines(start, s) : f <= q
         \/ \E e \in HeaderLines(start, s) :
              /\ \A f \in HeaderLines(start, s) : f <= q \/ e <= f
              /\ LineKind(s, e) \in {"close", "bareCR"}
  PROVE  ~Complete(start, s) /\ (Asks(start, s) <=> AsksBefore(start, s, q))
<1>1. ASSUME NEW g, Reaches(start, s, g)
      PROVE  g \in HeaderLines(start, s) /\ g <= q
  <2>1. g \in HeaderLines(start, s)
      BY <1>1 DEF Reaches
  <2>2. \A e \in HeaderLines(start, s) : e <= g => LineKind(s, e) \notin {"close", "bareCR"}
      BY <1>1 DEF Reaches
  <2> QED
      BY <2>1, <2>2
<1>2. ~Complete(start, s)
  <2>1. SUFFICES ASSUME NEW g, Reaches(start, s, g), LineKind(s, g) = "blank" PROVE FALSE
      BY DEF Complete
  <2> QED
      BY <1>1, <2>1 DEF Quiet
<1>3. ASSUME Asks(start, s) PROVE AsksBefore(start, s, q)
  <2>1. PICK g : Reaches(start, s, g) /\ LineKind(s, g) = "keepAlive"
      BY <1>3 DEF Asks
  <2> QED
      BY <1>1, <2>1 DEF AsksBefore
<1>4. ASSUME AsksBefore(start, s, q) PROVE Asks(start, s)
  <2>1. PICK g \in HeaderLines(start, s) : g <= q /\ LineKind(s, g) = "keepAlive"
      BY <1>4 DEF AsksBefore
  <2>2. g \in LineFeeds(s)
      BY DEF HeaderLines
  <2> QED
      BY <2>1, <2>2, QuietReaches DEF Asks
<1> QED
    BY <1>2, <1>3, <1>4

\* An empty line behind q completes the request.
LEMMA StopsComplete ==
  ASSUME NEW start, NEW s, NEW q \in Nat, Begun(start, s), Quiet(start, s, q),
         NEW e \in HeaderLines(start, s), LineKind(s, e) = "blank",
         \A f \in HeaderLines(start, s) : f <= q \/ e <= f
  PROVE  Complete(start, s) /\ (Asks(start, s) <=> AsksBefore(start, s, q))
<1>1. \A f \in HeaderLines(start, s) : f \in Nat /\ f \in LineFeeds(s)
    BY DEF HeaderLines, LineFeeds
<1>2. Complete(start, s)
  <2>1. \A f \in HeaderLines(start, s) :
          f <= e => LineKind(s, f) \notin {"close", "bareCR"}
    <3>1. SUFFICES ASSUME NEW f \in HeaderLines(start, s), f <= e
                   PROVE  LineKind(s, f) \notin {"close", "bareCR"}
        OBVIOUS
    <3>2. f <= q \/ f = e
        BY <1>1, <3>1
    <3> QED
        BY <3>2 DEF Quiet
  <2>2. Reaches(start, s, e)
      BY <2>1 DEF Begun, Reaches
  <2> QED
      BY <1>1, <2>2 DEF Complete
<1>3. ASSUME Asks(start, s) PROVE AsksBefore(start, s, q)
  <2>1. PICK g : /\ Reaches(start, s, g) /\ LineKind(s, g) = "keepAlive"
                 /\ \A f \in HeaderLines(start, s) : f <= g => LineKind(s, f) # "blank"
      BY <1>3 DEF Asks
  <2>2. g \in HeaderLines(start, s)
      BY <2>1 DEF Reaches
  <2>3. ~(e <= g)
      BY <2>1
  <2> QED
      BY <2>1, <2>2, <2>3 DEF AsksBefore
<1>4. ASSUME AsksBefore(start, s, q) PROVE Asks(start, s)
  <2>1. PICK g \in HeaderLines(start, s) : g <= q /\ LineKind(s, g) = "keepAlive"
      BY <1>4 DEF AsksBefore
  <2>2. g \in LineFeeds(s)
      BY DEF HeaderLines
  <2> QED
      BY <2>1, <2>2, QuietReaches DEF Asks
<1> QED
    BY <1>2, <1>3, <1>4

(***************************************************************************)
(* The inductive invariant                                                  *)
(***************************************************************************)
AllBytes == InBytes \cup {Junk}

Buffers == /\ IsBuffer(input, AllBytes)
           /\ Content(input) \in Seq(InBytes)
           /\ taken \in Seq(InBytes)
           /\ Outgoing

\* CHECK_STATE_BODY is passed within the loop, on the line that was read, and a
\* page is named from the request line on.
Types == /\ TypeOK
         /\ check # "REQUEST_LINE" => uri # "none"
         /\ check = "BODY" => pc = "loop" /\ LineOk

\* The lines of the round up to q have been parsed, and the parser goes on.
Parsed(q) ==
  /\ AtFeed(taken, q)
  /\ check = "REQUEST_LINE" => q = 0 /\ from = "REQUEST_LINE"
  /\ check # "REQUEST_LINE" /\ from = "REQUEST_LINE" => q # 0 /\ FirstKind(taken) = uri
  /\ check = "END" <=> from = "END"
  /\ from = "END" => q = 0
  /\ Quiet(from, taken, q)
  /\ ~alive => (keep <=> AsksBefore(from, taken, q))

\* The line behind q is in the loop's hands, or what is there instead of one.
InHand(q) ==
  \/ /\ \A f \in LineFeeds(taken) : f <= q
     /\ line = Part(taken, q, Len(taken) - 1)
     /\ Content(input) = Part(taken, q, Len(taken))
     /\ check # "BODY"
  \/ \E e \in LineFeeds(taken) :
       /\ NextFeed(taken, q, e)
       /\ line = Part(taken, q, e)
       /\ Content(input) = Part(taken, e, Len(taken))
       /\ check = "BODY" => LineKind(taken, e) = "blank"

\* The round's outcome
Settled == /\ request = "GET_REQUEST" <=> Complete(from, taken)
           /\ request = "GET_REQUEST" /\ from = "REQUEST_LINE" => FirstKind(taken) = uri
           /\ ~alive => (keep <=> Asks(from, taken))

Parsing ==
  /\ pc = "parseLine" =>
       \E q \in Nat : Parsed(q) /\ Content(input) = Part(taken, q, Len(taken))
  /\ pc = "loop" => \E q \in Nat : Parsed(q) /\ InHand(q)
  /\ pc = "respond" => Settled

\* A connection is kept when it was asked for, and a first round comes to all.
Keeping ==
  /\ pc \in {"parseLine", "loop", "respond"} => (asked <=> alive \/ Asks(from, taken))
  /\ pc \in {"idle", "closed", "write", "writable"} => (asked <=> alive)
  /\ pc = "idle" => (alive <=> rounds > 0) /\ (~alive => ~keep)
  /\ pc = "closed" => ~alive
  /\ pc # "idle" => rounds > 0

(***************************************************************************)
(* Its steps: the buffers and the types                                     *)
(***************************************************************************)
\* What getAnHTTPLine() leaves is a buffer of the same bytes.
LEMMA LineKeepsBuffers ==
  ASSUME Buffers
  PROVE  /\ IsBuffer(GetAnHTTPLine(input).rest, AllBytes)
         /\ Content(GetAnHTTPLine(input).rest) \in Seq(InBytes)
<1> DEFINE s == Content(input)
           got == GetAnHTTPLine(input)
<1>1. IsBuffer(input, AllBytes) /\ s \in Seq(InBytes) /\ Junk \in AllBytes
    BY DEF Buffers, AllBytes
<1>2. AtFeed(s, 0)
    BY <1>1 DEF AtFeed
<1>3. Content(input) = Part(s, 0, Len(s))
    BY <1>1, SubSeqFull DEF Part
<1> HIDE DEF s
<1>4. LineRead(AllBytes, s, 0, got)
    BY <1>1, <1>2, <1>3, LineIsRead
<1> HIDE DEF got
<1>5. PICK rest : rest = Content(got.rest)
    OBVIOUS
<1>6. \A u \in 0..Len(s) : Part(s, u, Len(s)) \in Seq(InBytes)
    BY <1>1, SliceProperties DEF Part
<1>7. /\ IsBuffer(got.rest, AllBytes)
      /\ \/ rest = Part(s, 0, Len(s))
         \/ \E e \in LineFeeds(s) : rest = Part(s, e, Len(s))
    BY <1>4, <1>5 DEF LineRead
<1>8. rest \in Seq(InBytes)
  <2>1. 0 \in 0..Len(s) /\ \A e \in LineFeeds(s) : e \in 0..Len(s)
      BY <1>1 DEF LineFeeds
  <2> QED
      BY <1>6, <1>7, <2>1
<1> QED
    BY <1>5, <1>7, <1>8 DEF got

LEMMA StepBuffers ==
  ASSUME Buffers, Outgoing', [Next]_vars
  PROVE  Buffers'
<1>1. ASSUME NEW d \in Deliveries, Deliver(d) PROVE Buffers'
  <2>1. d \in Seq(InBytes)
      BY DeliveriesAreInBytes
  <2>2. d \in Seq(AllBytes) /\ Junk \in AllBytes
      BY <2>1 DEF AllBytes
  <2>3. /\ IsBuffer(ReadFromFd(input, d), AllBytes)
        /\ Content(ReadFromFd(input, d)) = Content(input) \o d
      BY <2>2, ReadAppends DEF Buffers
  <2>4. Content(input) \o d \in Seq(InBytes)
      BY <2>1, ConcatProperties DEF Buffers
  <2>5. input' = ReadFromFd(input, d) /\ taken' = Content(input) \o d
      BY <1>1 DEF Deliver
  <2> QED
      BY <2>3, <2>4, <2>5 DEF Buffers
<1>2. ASSUME ParseLine PROVE Buffers'
  <2>1. input' = GetAnHTTPLine(input).rest /\ taken' = taken
      BY <1>2 DEF ParseLine, history
  <2> QED
      BY <2>1, LineKeepsBuffers DEF Buffers
<1>3. ASSUME HandleWrite PROVE Buffers'
  <2>1. taken' = taken /\ (input' = input \/ input' = RetrieveAll(input))
      BY <1>3 DEF HandleWrite, AfterWrite, Reset
  <2>2. Junk \in AllBytes
      BY DEF AllBytes
  <2>3. /\ IsBuffer(RetrieveAll(input), AllBytes)
        /\ Content(RetrieveAll(input)) = <<>>
      BY <2>2, RetrieveEmpties DEF Buffers
  <2>4. CASE input' = input
      BY <2>1, <2>4 DEF Buffers, IsBuffer, Content
  <2>5. CASE input' = RetrieveAll(input)
    <3>1. IsBuffer(input', AllBytes) /\ Content(input') = <<>>
      BY <2>3, <2>5
    <3>2. <<>> \in Seq(InBytes)
      OBVIOUS
    <3> QED
      BY <2>1, <3>1, <3>2 DEF Buffers
  <2> QED
      BY <2>1, <2>4, <2>5
<1>4. CASE UNCHANGED <<input, taken>>
    BY <1>4 DEF Buffers, IsBuffer, Content
<1>5. \/ \E d \in Deliveries : Deliver(d)
      \/ ParseLine \/ HandleWrite \/ UNCHANGED <<input, taken>>
    BY DEF Next, Handle, ParseRequestLine, ParseMessageHeader, ParseMessageBody,
           LeaveLoop, GetHttpResponse, vars, history
<1> QED
    BY <1>1, <1>2, <1>3, <1>4, <1>5

\* TypeOK's first conjunct
LEMMA BuffersAreTyped ==
  ASSUME Buffers
  PROVE  \A b \in {input, output} : b.r <= b.w /\ b.w <= Len(b.mem)
  BY DEF Buffers, Outgoing, IsBuffer

LEMMA StepTypes ==
  ASSUME Types, Buffers', [Next]_vars
  PROVE  Types'
<1>1. (\A b \in {input, output} : b.r <= b.w /\ b.w <= Len(b.mem))'
    BY BuffersAreTyped, PTL
<1> USE DEF TypeOK
<1>2. CASE \E d \in Deliveries : Deliver(d)
    BY <1>1, <1>2, HttpAssumption DEF Types, Deliver
<1>3. CASE ParseLine
    BY <1>1, <1>3 DEF Types, ParseLine, history
<1>4. CASE ParseRequestLine
    BY <1>1, <1>4 DEF Types, ParseRequestLine, history
<1>5. CASE ParseMessageHeader
    BY <1>1, <1>5 DEF Types, ParseMessageHeader, history, LineOk, LineState
<1>6. CASE ParseMessageBody
    BY <1>1, <1>6 DEF Types, ParseMessageBody, history
<1>7. CASE LeaveLoop
    BY <1>1, <1>7 DEF Types, LeaveLoop, history
<1>8. CASE GetHttpResponse
    BY <1>1, <1>8 DEF Types, GetHttpResponse, Status
<1>9. CASE HandleWrite
    BY <1>1, <1>9 DEF Types, HandleWrite, AfterWrite, Reset
<1>10. CASE UNCHANGED vars
    BY <1>1, <1>10 DEF Types, vars, history, LineOk, LineState
<1> QED
    BY <1>2, <1>3, <1>4, <1>5, <1>6, <1>7, <1>8, <1>9, <1>10 DEF Next, Handle

(***************************************************************************)
(* Its steps: the parser                                                    *)
(***************************************************************************)
\* No line ends before the content begins.
LEMMA NothingAtZero ==
  ASSUME NEW start, NEW s
  PROVE  Quiet(start, s, 0) /\ ~AsksBefore(start, s, 0)
<1>1. \A e \in HeaderLines(start, s) : e \in Nat /\ ~(e <= 0)
    BY DEF HeaderLines, LineFeeds
<1> QED
    BY <1>1 DEF Quiet, AsksBefore

\* One more line of the header is read.
LEMMA QuietExtends ==
  ASSUME NEW start, NEW s, NEW q \in Nat, NEW e \in HeaderLines(start, s), q < e,
         \A f \in HeaderLines(start, s) : f <= q \/ e <= f,
         Quiet(start, s, q), LineKind(s, e) \notin {"close", "bareCR", "blank"}
  PROVE  /\ Quiet(start, s, e)
         /\ AsksBefore(start, s, e) <=> AsksBefore(start, s, q) \/ LineKind(s, e) = "keepAlive"
<1>1. \A f \in HeaderLines(start, s) : f \in Nat
    BY DEF HeaderLines, LineFeeds
<1>2. \A f \in HeaderLines(start, s) : f <= e <=> f <= q \/ f = e
    BY <1>1
<1> QED
    BY <1>2 DEF Quiet, AsksBefore

Inv == Buffers /\ Types /\ Parsing /\ Keeping /\ ResponseMatches

Step == Parsing' /\ Keeping' /\ ResponseMatches'

LEMMA StepDeliver ==
  ASSUME Inv, Buffers', NEW d \in Deliveries, Deliver(d)
  PROVE  Step
<1>1. /\ pc = "idle" /\ pc' = "parseLine" /\ from' = check /\ check' = check
      /\ taken' = Content(input) \o d /\ input' = ReadFromFd(input, d)
      /\ alive' = alive /\ keep' = keep /\ rounds' = rounds + 1
      /\ asked' = (asked \/ Asks(check, taken'))
    BY DEF Deliver
<1>2. d \in Seq(AllBytes) /\ Junk \in AllBytes /\ IsBuffer(input, AllBytes)
    BY DeliveriesAreInBytes DEF AllBytes, Inv, Buffers
<1>3. Content(input') = taken' /\ taken' \in Seq(InBytes)
    BY <1>1, <1>2, ReadAppends DEF Buffers
<1>4. Content(input') = Part(taken', 0, Len(taken'))
    BY <1>3, SubSeqFull DEF Part
<1>5. AtFeed(taken', 0)
    BY <1>3 DEF AtFeed
<1>6. (asked <=> alive) /\ (~alive => ~keep) /\ (check = "END" <=> from' = "END")
    BY <1>1 DEF Inv, Keeping
<1>7. Parsed(0)'
    BY <1>1, <1>5, <1>6, NothingAtZero DEF Parsed
<1>8. Parsing'
    BY <1>1, <1>4, <1>7 DEF Parsing
<1>9. rounds' > 0
    BY <1>1 DEF Inv, Types, TypeOK
<1>10. Keeping'
    BY <1>1, <1>6, <1>9 DEF Keeping
<1> QED
    BY <1>1, <1>8, <1>10 DEF Step, ResponseMatches

LEMMA StepParseLine ==
  ASSUME Inv, ParseLine
  PROVE  Step
<1> DEFINE got == GetAnHTTPLine(input)
<1>1. /\ pc = "parseLine" /\ pc' = "loop" /\ line' = got.line /\ input' = got.rest
      /\ UNCHANGED <<check, uri, keep, alive, rounds, taken, from, asked>>
    BY DEF ParseLine, history
<1>2. PICK q \in Nat : Parsed(q) /\ Content(input) = Part(taken, q, Len(taken))
    BY <1>1 DEF Inv, Parsing
<1>3. /\ IsBuffer(input, AllBytes) /\ taken \in Seq(InBytes) /\ Junk \in AllBytes
      /\ AtFeed(taken, q)
    BY <1>2 DEF Inv, Buffers, AllBytes, Parsed
<1>4. LineRead(AllBytes, taken, q, got)
    BY <1>2, <1>3, LineIsRead
<1> HIDE DEF got
<1>5. check # "BODY"
    BY <1>1 DEF Inv, Types
<1>6. InHand(q)'
    BY <1>1, <1>4, <1>5 DEF LineRead, InHand
<1>7. Parsed(q)'
    BY <1>1, <1>2 DEF Parsed
<1>8. Parsing'
    BY <1>1, <1>6, <1>7 DEF Parsing
<1>9. Keeping'
    BY <1>1 DEF Inv, Keeping
<1> QED
    BY <1>1, <1>8, <1>9 DEF Step, ResponseMatches

\* The line in hand is a whole one, and what the parser makes of it.
LEMMA WholeLine ==
  ASSUME Inv, NEW q \in Nat, Parsed(q), InHand(q), LineOk
  PROVE  \E e \in LineFeeds(taken) :
           /\ NextFeed(taken, q, e) /\ AtFeed(taken, e) /\ e \in Nat /\ q < e
           /\ Text = LineKind(taken, e) /\ Text # "bareCR"
           /\ line = Part(taken, q, e) /\ Content(input) = Part(taken, e, Len(taken))
           /\ check = "BODY" => LineKind(taken, e) = "blank"
<1>1. taken \in Seq(InBytes) /\ AtFeed(taken, q)
    BY DEF Inv, Buffers, Parsed
<1>2. ~((\A f \in LineFeeds(taken) : f <= q) /\ line = Part(taken, q, Len(taken) - 1))
    BY <1>1, RestIsNoLine
<1>3. PICK e \in LineFeeds(taken) :
        /\ NextFeed(taken, q, e) /\ line = Part(taken, q, e)
        /\ Content(input) = Part(taken, e, Len(taken))
        /\ check = "BODY" => LineKind(taken, e) = "blank"
    BY <1>2 DEF InHand
<1>4. AtFeed(taken, e) /\ e \in Nat /\ q < e
    BY <1>1, <1>3, NextFeedProperties
<1>5. Text = LineKind(taken, e) /\ Text # "bareCR"
    BY <1>1, <1>3, LineIsParsed
<1> QED
    BY <1>3, <1>4, <1>5

LEMMA StepRequestLine ==
  ASSUME Inv, ParseRequestLine
  PROVE  Step
<1>1. /\ pc = "loop" /\ LineOk /\ check = "REQUEST_LINE"
      /\ UNCHANGED <<input, keep, alive, rounds, taken, from, asked>>
    BY DEF ParseRequestLine, history
<1>2. PICK q \in Nat : Parsed(q) /\ InHand(q)
    BY <1>1 DEF Inv, Parsing
<1>3. q = 0 /\ from = "REQUEST_LINE"
    BY <1>1, <1>2 DEF Parsed
<1>4. PICK e \in LineFeeds(taken) :
        /\ NextFeed(taken, 0, e) /\ AtFeed(taken, e) /\ e \in Nat /\ 0 < e
        /\ Text = LineKind(taken, e)
        /\ Content(input) = Part(taken, e, Len(taken))
    BY <1>1, <1>2, <1>3, WholeLine
<1>5. FirstKind(taken) = Text
    BY <1>4, FirstIsNext
<1>6. ~alive => ~keep
    BY <1>2, <1>3, NothingAtZero DEF Parsed
<1>7. CASE /\ Text \in {"hit", "miss"} /\ uri' = Text /\ check' = "HEADER"
           /\ pc' = "parseLine"
  <2>1. Quiet(from, taken, e) /\ ~AsksBefore(from, taken, e)
      BY <1>3, <1>4, NoHeaderYet DEF Quiet, AsksBefore
  <2>2. Parsed(e)'
      BY <1>1, <1>3, <1>4, <1>5, <1>6, <1>7, <2>1 DEF Parsed
  <2>3. Content(input') = Part(taken', e, Len(taken'))
      BY <1>1, <1>4
  <2>4. Parsing'
      BY <1>4, <1>7, <2>2, <2>3 DEF Parsing
  <2>5. Keeping'
      BY <1>1, <1>7 DEF Inv, Keeping
  <2> QED
      BY <1>7, <2>4, <2>5 DEF Step, ResponseMatches
<1>8. CASE Text \notin {"hit", "miss"} /\ request' = "BAD_REQUEST" /\ pc' = "respond"
  <2>1. ~Complete(from, taken) /\ ~Asks(from, taken)
      BY <1>3, <1>5, <1>8, NotBegun DEF Begun
  <2>2. Settled'
      BY <1>1, <1>6, <1>8, <2>1 DEF Settled
  <2>3. Keeping'
      BY <1>1, <1>8 DEF Inv, Keeping
  <2> QED
      BY <1>8, <2>2, <2>3 DEF Step, Parsing, ResponseMatches
<1> QED
    BY <1>7, <1>8 DEF ParseRequestLine

\* Behind the request line the header is being read.
LEMMA HeaderIsBegun ==
  ASSUME Inv, NEW q \in Nat, Parsed(q), check \in {"HEADER", "BODY"}
  PROVE  Begun(from, taken) /\ (from = "REQUEST_LINE" => q # 0 /\ FirstKind(taken) = uri)
  BY DEF Inv, Types, TypeOK, Parsed, Begun

LEMMA StepHeader ==
  ASSUME Inv, ParseMessageHeader
  PROVE  Step
<1>1. /\ pc = "loop" /\ LineOk /\ check = "HEADER"
      /\ UNCHANGED <<input, line, uri, alive, rounds, taken, from, asked>>
    BY DEF ParseMessageHeader, history
<1>2. PICK q \in Nat : Parsed(q) /\ InHand(q)
    BY <1>1 DEF Inv, Parsing
<1>3. PICK e \in LineFeeds(taken) :
        /\ NextFeed(taken, q, e) /\ AtFeed(taken, e) /\ e \in Nat /\ q < e
        /\ Text = LineKind(taken, e) /\ Text # "bareCR"
        /\ line = Part(taken, q, e) /\ Content(input) = Part(taken, e, Len(taken))
    BY <1>1, <1>2, WholeLine
<1>4. Begun(from, taken) /\ (from = "REQUEST_LINE" => q # 0 /\ FirstKind(taken) = uri)
    BY <1>1, <1>2, HeaderIsBegun
<1>5. /\ e \in HeaderLines(from, taken)
      /\ \A f \in HeaderLines(from, taken) : f <= q \/ e <= f
    BY <1>2, <1>3, <1>4, NextIsInHeader DEF Parsed
<1>6. Quiet(from, taken, q) /\ (~alive => (keep <=> AsksBefore(from, taken, q)))
    BY <1>2 DEF Parsed
<1>7. CASE Text = "blank" /\ check' = "BODY" /\ UNCHANGED <<keep, pc>>
  <2>1. line' = Part(taken', q, e) /\ Content(input') = Part(taken', e, Len(taken'))
      BY <1>1, <1>3
  <2>2. InHand(q)'
      BY <1>1, <1>3, <1>7, <2>1 DEF InHand
  <2>3. Parsed(q)'
      BY <1>1, <1>2, <1>7 DEF Parsed
  <2>4. Parsing'
      BY <1>1, <1>7, <2>2, <2>3 DEF Parsing
  <2>5. Keeping'
      BY <1>1, <1>7 DEF Inv, Keeping
  <2> QED
      BY <1>1, <1>7, <2>4, <2>5 DEF Step, ResponseMatches
<1>8. CASE Text = "close" /\ request' = "BAD_REQUEST" /\ pc' = "respond"
           /\ UNCHANGED <<keep, check>>
  <2>1. ~Complete(from, taken) /\ (Asks(from, taken) <=> AsksBefore(from, taken, q))
      BY <1>3, <1>4, <1>5, <1>6, <1>8, StopsIncomplete
  <2>2. Settled'
      BY <1>1, <1>6, <1>8, <2>1 DEF Settled
  <2>3. Keeping'
      BY <1>1, <1>8 DEF Inv, Keeping
  <2> QED
      BY <1>8, <2>2, <2>3 DEF Step, Parsing, ResponseMatches
<1>9. CASE /\ Text \notin {"blank", "close"} /\ keep' = (keep \/ Text = "keepAlive")
           /\ pc' = "parseLine" /\ UNCHANGED check
  <2>1. /\ Quiet(from, taken, e)
        /\ AsksBefore(from, taken, e) <=> AsksBefore(from, taken, q) \/ Text = "keepAlive"
      BY <1>3, <1>5, <1>6, <1>9, QuietExtends
  <2>2. ~alive => (keep' <=> AsksBefore(from, taken, e))
      BY <1>6, <1>9, <2>1
  <2>3. Parsed(e)'
      BY <1>1, <1>2, <1>3, <1>4, <1>9, <2>1, <2>2 DEF Parsed
  <2>4. Content(input') = Part(taken', e, Len(taken'))
      BY <1>1, <1>3
  <2>5. Parsing'
      BY <1>3, <1>9, <2>3, <2>4 DEF Parsing
  <2>6. Keeping'
      BY <1>1, <1>9 DEF Inv, Keeping
  <2> QED
      BY <1>9, <2>5, <2>6 DEF Step, ResponseMatches
<1> QED
    BY <1>7, <1>8, <1>9 DEF ParseMessageHeader

LEMMA StepBody ==
  ASSUME Inv, ParseMessageBody
  PROVE  Step
<1>1. /\ pc = "loop" /\ LineOk /\ check = "BODY" /\ pc' = "respond"
      /\ request' = "GET_REQUEST"
      /\ UNCHANGED <<uri, keep, alive, rounds, taken, from, asked>>
    BY DEF ParseMessageBody, history
<1>2. PICK q \in Nat : Parsed(q) /\ InHand(q)
    BY <1>1 DEF Inv, Parsing
<1>3. PICK e \in LineFeeds(taken) :
        NextFeed(taken, q, e) /\ LineKind(taken, e) = "blank"
    BY <1>1, <1>2, WholeLine
<1>4. Begun(from, taken) /\ (from = "REQUEST_LINE" => q # 0 /\ FirstKind(taken) = uri)
    BY <1>1, <1>2, HeaderIsBegun
<1>5. /\ e \in HeaderLines(from, taken)
      /\ \A f \in HeaderLines(from, taken) : f <= q \/ e <= f
    BY <1>2, <1>3, <1>4, NextIsInHeader DEF Parsed
<1>6. Quiet(from, taken, q) /\ (~alive => (keep <=> AsksBefore(from, taken, q)))
    BY <1>2 DEF Parsed
<1>7. Complete(from, taken) /\ (Asks(from, taken) <=> AsksBefore(from, taken, q))
    BY <1>3, <1>4, <1>5, <1>6, StopsComplete
<1>8. Settled'
    BY <1>1, <1>4, <1>6, <1>7 DEF Settled
<1>9. Keeping'
    BY <1>1 DEF Inv, Keeping
<1> QED
    BY <1>1, <1>8, <1>9 DEF Step, Parsing, ResponseMatches

\* Nothing that was parsed makes the request complete when the loop is left for
\* want of a line or for a bad one.
LEMMA LeftIncomplete ==
  ASSUME Inv, NEW q \in Nat, Parsed(q), InHand(q), ~LineOk
  PROVE  ~Complete(from, taken) /\ (Asks(from, taken) <=> AsksBefore(from, taken, q))
<1>1. taken \in Seq(InBytes) /\ AtFeed(taken, q) /\ check # "BODY"
    BY DEF Inv, Buffers, Types, Parsed
<1>2. \/ \A f \in LineFeeds(taken) : f <= q
      \/ \E e \in LineFeeds(taken) : NextFeed(taken, q, e) /\ LineKind(taken, e) = "bareCR"
  <2>1. ASSUME NEW e \in LineFeeds(taken), NextFeed(taken, q, e), line = Part(taken, q, e)
        PROVE  LineKind(taken, e) = "bareCR"
      BY <1>1, <2>1, LineIsParsed
  <2> QED
      BY <2>1 DEF InHand
<1>3. CASE from = "END"
  <2>1. q = 0 /\ ~Begun(from, taken)
      BY <1>3 DEF Parsed, Begun
  <2> QED
      BY <2>1, NotBegun, NothingAtZero
<1>4. CASE check = "REQUEST_LINE"
  <2>1. q = 0 /\ from = "REQUEST_LINE"
      BY <1>4 DEF Parsed
  <2>2. FirstKind(taken) \in {"open", "bareCR"}
    <3>1. CASE \A f \in LineFeeds(taken) : f <= q
      <4>1. \A f \in LineFeeds(taken) : f \in Nat /\ ~(f <= 0)
          BY DEF LineFeeds
      <4>2. LineFeeds(taken) = {}
          BY <2>1, <3>1, <4>1
      <4> QED
          BY <4>2 DEF FirstKind
    <3>2. CASE \E e \in LineFeeds(taken) :
                 NextFeed(taken, q, e) /\ LineKind(taken, e) = "bareCR"
        BY <2>1, <3>2, FirstIsNext
    <3> QED
        BY <1>2, <3>1, <3>2
  <2>3. ~Begun(from, taken)
      BY <2>1, <2>2 DEF Begun
  <2> QED
      BY <2>1, <2>3, NotBegun, NothingAtZero
<1>5. CASE from # "END" /\ check # "REQUEST_LINE"
  <2>1. check = "HEADER"
      BY <1>1, <1>5 DEF Inv, Types, TypeOK, Parsed
  <2>2. Begun(from, taken) /\ (from = "REQUEST_LINE" => q # 0)
      BY <2>1, HeaderIsBegun
  <2>3. Quiet(from, taken, q)
      BY DEF Parsed
  <2>4. CASE \A f \in LineFeeds(taken) : f <= q
    <3>1. \A f \in HeaderLines(from, taken) : f <= q
        BY <2>4 DEF HeaderLines
    <3> QED
        BY <2>2, <2>3, <3>1, StopsIncomplete
  <2>5. ASSUME NEW e \in LineFeeds(taken), NextFeed(taken, q, e),
               LineKind(taken, e) = "bareCR"
        PROVE  ~Complete(from, taken) /\ (Asks(from, taken) <=> AsksBefore(from, taken, q))
    <3>1. /\ e \in HeaderLines(from, taken)
          /\ \A f \in HeaderLines(from, taken) : f <= q \/ e <= f
        BY <1>1, <2>2, <2>5, NextIsInHeader
    <3> QED
        BY <2>2, <2>3, <2>5, <3>1, StopsIncomplete
  <2> QED
      BY <1>2, <2>4, <2>5
<1> QED
    BY <1>3, <1>4, <1>5

LEMMA StepLeave ==
  ASSUME Inv, LeaveLoop
  PROVE  Step
<1>1. /\ pc = "loop" /\ ~LineOk /\ pc' = "respond" /\ request' # "GET_REQUEST"
      /\ UNCHANGED <<uri, keep, alive, rounds, taken, from, asked>>
    BY DEF LeaveLoop, history
<1>2. PICK q \in Nat : Parsed(q) /\ InHand(q)
    BY <1>1 DEF Inv, Parsing
<1>3. ~Complete(from, taken) /\ (Asks(from, taken) <=> AsksBefore(from, taken, q))
    BY <1>1, <1>2, LeftIncomplete
<1>4. ~alive => (keep <=> AsksBefore(from, taken, q))
    BY <1>2 DEF Parsed
<1>5. Settled'
    BY <1>1, <1>3, <1>4 DEF Settled
<1>6. Keeping'
    BY <1>1 DEF Inv, Keeping
<1> QED
    BY <1>1, <1>5, <1>6 DEF Step, Parsing, ResponseMatches

LEMMA StepAnswer ==
  ASSUME Inv, GetHttpResponse
  PROVE  Step
<1>1. /\ pc = "respond" /\ pc' = "write" /\ answer' = Status /\ alive' = (alive \/ keep)
      /\ UNCHANGED <<uri, rounds, taken, from, asked>>
    BY DEF GetHttpResponse
<1>2. Settled /\ (asked <=> alive \/ Asks(from, taken)) /\ rounds > 0
    BY <1>1 DEF Inv, Parsing, Keeping
<1>3. request = "GET_REQUEST" => uri \in {"hit", "miss"}
    BY DEF Inv, Types, TypeOK
<1>4. ResponseMatches'
  <2>1. CASE request = "GET_REQUEST"
    <3>1. Complete(from, taken) /\ (from = "REQUEST_LINE" => FirstKind(taken) = uri)
        BY <1>2, <2>1 DEF Settled
    <3>2. Status = IF uri = "hit" THEN "200" ELSE "404"
        BY <1>3, <2>1 DEF Status
    <3> QED
        BY <1>1, <3>1, <3>2 DEF ResponseMatches
  <2>2. CASE request # "GET_REQUEST"
    <3>1. ~Complete(from, taken) /\ Status = "400"
        BY <1>2, <2>2 DEF Settled, Status
    <3> QED
        BY <1>1, <3>1 DEF ResponseMatches
  <2> QED
      BY <2>1, <2>2
<1>5. asked <=> alive \/ keep
    BY <1>2 DEF Settled
<1>6. Keeping'
    BY <1>1, <1>2, <1>5 DEF Keeping
<1> QED
    BY <1>1, <1>4, <1>6 DEF Step, Parsing

LEMMA StepWrite ==
  ASSUME Inv, HandleWrite
  PROVE  Step
<1>1. /\ pc \in {"write", "writable"} /\ UNCHANGED <<alive, rounds, asked>>
      /\ \/ pc' = "writable"
         \/ alive /\ pc' = "idle"
         \/ ~alive /\ pc' = "closed"
    BY DEF HandleWrite, AfterWrite
<1>2. (asked <=> alive) /\ rounds > 0
    BY <1>1 DEF Inv, Keeping
<1>3. Keeping'
    BY <1>1, <1>2 DEF Keeping
<1> QED
    BY <1>1, <1>3 DEF Step, Parsing, ResponseMatches

LEMMA StepNone ==
  ASSUME Inv, UNCHANGED vars
  PROVE  Step
<1>1. UNCHANGED <<input, line, check, request, uri, keep, alive, pc, answer, rounds,
                  taken, from, asked>>
    BY DEF vars, history
<1> QED
    BY <1>1 DEF Inv, Step, Parsing, Parsed, InHand, Settled, Keeping, ResponseMatches

\* The beginning
LEMMA InvAtInit ==
  ASSUME Init
  PROVE  Inv
<1>1. Outgoing
  <2>1. output = NewBuffer /\ sent = <<>> /\ answers = <<>>
      BY DEF Init
  <2>2. IsBuffer(output, OutBytes) /\ Content(output) = <<>>
      BY <2>1, NewIsEmpty DEF OutBytes
  <2>3. sent \in Seq(OutBytes) /\ sent \o <<>> = sent
      BY <2>1, EmptySeq, ConcatEmptySeq
  <2> QED
      BY <2>1, <2>2, <2>3 DEF Outgoing, AnswersInOrder
<1>2. Buffers
  <2>1. input = NewBuffer /\ taken = <<>> /\ Junk \in AllBytes
      BY DEF Init, AllBytes
  <2>2. IsBuffer(input, AllBytes) /\ Content(input) = <<>>
      BY <2>1, NewIsEmpty
  <2>3. <<>> \in Seq(InBytes)
      OBVIOUS
  <2> QED
      BY <1>1, <2>1, <2>2, <2>3 DEF Buffers
<1>3. Types
  <2>1. \A b \in {input, output} : b.r <= b.w /\ b.w <= Len(b.mem)
      BY <1>2, BuffersAreTyped
  <2>2. 0 \in 0..MaxRounds
      BY HttpAssumption
  <2>3. TypeOK
      BY <2>1, <2>2 DEF Init, TypeOK
  <2> QED
      BY <2>3 DEF Init, Types
<1> QED
    BY <1>2, <1>3 DEF Init, Inv, Parsing, Keeping, ResponseMatches

LEMMA InvIsKept ==
  ASSUME Inv, [Next]_vars
  PROVE  Inv'
<1>1. Buffers'
    BY StepOutgoing, StepBuffers DEF Inv, Buffers
<1>2. Types'
    BY <1>1, StepTypes DEF Inv
<1>3. Step
  <2>1. CASE \E d \in Deliveries : Deliver(d)
      BY <1>1, <2>1, StepDeliver
  <2>2. CASE ParseLine
      BY <2>2, StepParseLine
  <2>3. CASE ParseRequestLine
      BY <2>3, StepRequestLine
  <2>4. CASE ParseMessageHeader
      BY <2>4, StepHeader
  <2>5. CASE ParseMessageBody
      BY <2>5, StepBody
  <2>6. CASE LeaveLoop
      BY <2>6, StepLeave
  <2>7. CASE GetHttpResponse
      BY <2>7, StepAnswer
  <2>8. CASE HandleWrite
      BY <2>8, StepWrite
  <2>9. CASE UNCHANGED vars
      BY <2>9, StepNone
  <2> QED
      BY <2>1, <2>2, <2>3, <2>4, <2>5, <2>6, <2>7, <2>8, <2>9 DEF Next, Handle
<1> QED
    BY <1>1, <1>2, <1>3 DEF Inv, Step

LEMMA Invariance == Spec => []Inv
<1>1. Init => Inv
    BY InvAtInit
<1>2. Inv /\ [Next]_vars => Inv'
    BY InvIsKept
<1> QED
    BY <1>1, <1>2, PTL DEF Spec

\* The state machine and the buffers keep to their values: the indices stay in
\* order within the vector, CHECK_STATE_BODY is not left for another round, and
\* GET_REQUEST goes with CHECK_STATE_END and a page (HttpContext.h:20-63,
\* Buffer.h:7-12).
THEOREM TypeCorrect == Spec => []TypeOK
<1>1. Inv => TypeOK
    BY DEF Inv, Types
<1> QED
    BY <1>1, Invariance, PTL

\* However the lines are cut and the buffer moves and grows, each answer is the
\* one that the bytes of its round call for: a complete request gets its page or
\* "not found" and nothing else does, an error gets 400
\* (HttpContext.cpp:88-324, Buffer.cpp:28-107).
THEOREM AnswersMatch == Spec => []ResponseMatches
<1>1. Inv => ResponseMatches
    BY DEF Inv
<1> QED
    BY <1>1, Invariance, PTL

\* A connection outlives its first answer only when a header that was read
\* without error has asked for it, in this round or an earlier one, and then it
\* does (TcpConnection.cpp:83,128; HttpContext.cpp:230).
THEOREM KeptWhenAsked == Spec => []KeptOnRequest
<1>1. ASSUME Inv PROVE KeptOnRequest
  <2>1. asked \in BOOLEAN /\ rounds \in 0..MaxRounds
      BY <1>1 DEF Inv, Types, TypeOK
  <2>2. rounds > 0 /\ pc = "idle" => (asked <=> TRUE)
      BY <1>1 DEF Inv, Keeping
  <2>3. pc = "closed" => (asked <=> FALSE)
      BY <1>1 DEF Inv, Keeping
  <2> QED
      BY <2>1, <2>2, <2>3 DEF KeptOnRequest
<1> QED
    BY <1>1, Invariance, PTL
=============================================================================
