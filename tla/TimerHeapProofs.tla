-------------------------- MODULE TimerHeapProofs --------------------------
(***************************************************************************)
(* The heap's percolations on heaps of every size, and with them the        *)
(* properties of the timers for any delays and any number of timers.        *)
(***************************************************************************)
EXTENDS TimerHeap, SequenceTheorems, WellFoundedInduction, TLAPS

(***************************************************************************)
(* Induction.  The library's induction theorems take the formula to be      *)
(* shown as an operator; this form takes the set of counterexamples.        *)
(***************************************************************************)
Below == {p \in Nat \X Nat : p[1] < p[2]}

LEMMA Least ==
  ASSUME NEW T, T \subseteq Nat, T # {}
  PROVE  \E x \in T : \A y \in T : x <= y
<1>1. IsWellFoundedOn(Below, Nat)
    BY NatLessThanWellFounded DEF OpToRel, Below
<1>2. PICK x \in T : \A y \in T : <<y, x>> \notin Below
    BY <1>1, WFMin
<1>3. ASSUME NEW y \in T PROVE x <= y
  <2>1. x \in Nat /\ y \in Nat
    OBVIOUS
  <2>2. <<y, x>> \in Below <=> y < x
    BY <2>1 DEF Below
  <2> QED
    BY <1>2, <2>1, <2>2
<1> QED
    BY <1>3

\* A set of numbers that holds 0 and with each number the next one
LEMMA Induction ==
  ASSUME NEW P, P \subseteq Nat, 0 \in P, \A n \in P : n + 1 \in P
  PROVE  P = Nat
<1> DEFINE T == Nat \ P
<1>1. SUFFICES ASSUME T # {} PROVE FALSE
    OBVIOUS
<1>2. PICK x \in T : \A y \in T : x <= y
    BY <1>1, Least
<1>3. x \in Nat /\ x # 0 /\ x - 1 \in Nat
    OBVIOUS
<1>4. x - 1 \in P
    BY <1>2, <1>3
<1>5. (x - 1) + 1 \in P
    BY <1>4
<1> QED
    BY <1>3, <1>5

(***************************************************************************)
(* A function that calls itself last.  D are its arguments, stop those at   *)
(* which it returns (out) and next the argument of the call it makes at the *)
(* others, where the measure m is smaller.  J is an invariant of the calls. *)
(***************************************************************************)
Calls(D, stop, next, out, f) ==
  f = [s \in D |-> IF s \in stop THEN out[s] ELSE f[next[s]]]

Descends(D, stop, next, m) == /\ m \in [D -> Nat] /\ next \in [D -> D]
                              /\ \A s \in D \ stop : m[next[s]] < m[s]

Closed(J, D, stop, next) == /\ J \subseteq D
                            /\ \A s \in J \ stop : next[s] \in J

LEMMA TailRecursion ==
  ASSUME NEW D, NEW m, NEW stop, NEW next, NEW out, Descends(D, stop, next, m)
  PROVE  \E f : Calls(D, stop, next, out, f)
<1> USE DEF Descends
<1> DEFINE Upto(n) == {s \in D : m[s] <= n}
           Q(g, n) == Calls(Upto(n), stop, next, out, g)
           P == {n \in Nat : \E g : Q(g, n)}
<1>1. 0 \in P
  <2> DEFINE g == [s \in Upto(0) |-> out[s]]
  <2>1. ASSUME NEW s \in Upto(0) PROVE s \in stop
    <3>1. s \in D /\ m[s] = 0 /\ next[s] \in D /\ m[next[s]] \in Nat
      OBVIOUS
    <3> QED
      BY <3>1
  <2>2. Q(g, 0)
    BY <2>1 DEF Calls
  <2> QED
    BY <2>2
<1>2. ASSUME NEW n \in P PROVE n + 1 \in P
  <2>1. PICK g : Q(g, n)
    OBVIOUS
  <2> DEFINE h == [s \in Upto(n + 1) |-> IF s \in stop THEN out[s] ELSE g[next[s]]]
  <2>2. ASSUME NEW s \in Upto(n + 1), s \notin stop
        PROVE  g[next[s]] = h[next[s]]
    <3>1. s \in D /\ next[s] \in D /\ m[s] \in Nat /\ m[next[s]] \in Nat /\ n \in Nat
      OBVIOUS
    <3>2. next[s] \in Upto(n) /\ next[s] \in Upto(n + 1)
      BY <2>2, <3>1
    <3>3. g[next[s]] = IF next[s] \in stop THEN out[next[s]] ELSE g[next[next[s]]]
      BY <2>1, <3>2 DEF Calls
    <3>4. h[next[s]] = IF next[s] \in stop THEN out[next[s]] ELSE g[next[next[s]]]
      BY <3>2
    <3> QED
      BY <3>3, <3>4
  <2>3. Q(h, n + 1)
    BY <2>2 DEF Calls
  <2> QED
    BY <2>3, SMTT(30)
<1> DEFINE G(n) == CHOOSE g : Q(g, n)
<1>3. \A n \in Nat : Q(G(n), n)
  <2> HIDE DEF P
  <2>1. P \subseteq Nat
    BY DEF P
  <2>2. P = Nat
    BY <1>1, <1>2, <2>1, Induction
  <2>3. ASSUME NEW n \in Nat PROVE \E g : Q(g, n)
    BY <2>2 DEF P
  <2> HIDE DEF Q
  <2> QED
    BY <2>3
<1> HIDE DEF G
<1>4. ASSUME NEW n \in Nat, NEW k \in Nat, n <= k
      PROVE  \A s \in Upto(n) : G(n)[s] = G(k)[s]
  <2> DEFINE R == {j \in Nat : \A s \in Upto(n) : m[s] <= j => G(n)[s] = G(k)[s]}
  <2>1. ASSUME NEW s \in Upto(n)
        PROVE  /\ s \in Upto(k) /\ s \in D /\ m[s] \in Nat
               /\ G(n)[s] = IF s \in stop THEN out[s] ELSE G(n)[next[s]]
               /\ G(k)[s] = IF s \in stop THEN out[s] ELSE G(k)[next[s]]
    <3>1. s \in Upto(k) /\ s \in D /\ m[s] \in Nat
      BY <1>4
    <3>2. Q(G(n), n) /\ Q(G(k), k)
      BY <1>3
    <3> QED
      BY <3>1, <3>2 DEF Calls
  <2>2. 0 \in R
    <3>1. ASSUME NEW s \in Upto(n), m[s] <= 0 PROVE s \in stop
      <4>1. s \in D /\ m[s] = 0 /\ next[s] \in D /\ m[next[s]] \in Nat
        BY <3>1
      <4> QED
        BY <4>1
    <3> QED
      BY <2>1, <3>1
  <2>3. ASSUME NEW j \in R PROVE j + 1 \in R
    <3>1. ASSUME NEW s \in Upto(n), m[s] <= j + 1, s \notin stop
          PROVE  G(n)[next[s]] = G(k)[next[s]]
      <4>1. /\ s \in D /\ next[s] \in D /\ m[s] \in Nat /\ m[next[s]] \in Nat
            /\ j \in Nat /\ m[next[s]] < m[s] /\ m[s] <= n
        BY <3>1
      <4>2. next[s] \in Upto(n) /\ m[next[s]] <= j
        BY <3>1, <4>1
      <4> QED
        BY <4>2
    <3> QED
      BY <2>1, <3>1
  <2>4. R = Nat
    <3> HIDE DEF R
    <3>1. R \subseteq Nat
      BY DEF R
    <3> QED
      BY <2>2, <2>3, <3>1, Induction
  <2> QED
    BY <2>1, <2>4
<1> DEFINE f == [s \in D |-> G(m[s])[s]]
<1>5. ASSUME NEW s \in D
      PROVE  f[s] = IF s \in stop THEN out[s] ELSE f[next[s]]
  <2>1. m[s] \in Nat /\ s \in Upto(m[s]) /\ f[s] = G(m[s])[s]
    OBVIOUS
  <2>2. Q(G(m[s]), m[s])
    BY <1>3, <2>1
  <2>3. f[s] = IF s \in stop THEN out[s] ELSE G(m[s])[next[s]]
    BY <2>1, <2>2 DEF Calls
  <2>4. ASSUME s \notin stop PROVE G(m[s])[next[s]] = f[next[s]]
    <3>1. next[s] \in D /\ m[next[s]] \in Nat /\ m[next[s]] <= m[s]
      BY <2>1, <2>4
    <3>2. next[s] \in Upto(m[next[s]]) /\ f[next[s]] = G(m[next[s]])[next[s]]
      BY <3>1
    <3> QED
      BY <1>4, <2>1, <3>1, <3>2
  <2> QED
    BY <2>3, <2>4
<1>6. Calls(D, stop, next, out, f)
  <2> DEFINE F == [s \in D |-> IF s \in stop THEN out[s] ELSE f[next[s]]]
  <2>1. \A s \in D : f[s] = F[s]
    BY <1>5
  <2>2. f = F
    BY <2>1
  <2> QED
    BY <2>2 DEF Calls
<1> QED
    BY <1>6

\* What holds of the first argument and is kept by each call holds of the last,
\* and what is returned is what the last call returns.
LEMMA TailInvariant ==
  ASSUME NEW D, NEW m, NEW stop, NEW next, NEW out, NEW f, NEW J, NEW s0 \in J,
         Descends(D, stop, next, m), Calls(D, stop, next, out, f),
         Closed(J, D, stop, next)
  PROVE  \E e \in J : e \in stop /\ f[s0] = out[e]
<1> USE DEF Descends, Closed
<1> DEFINE R(s) == \E e \in J : e \in stop /\ f[s] = out[e]
           P == {n \in Nat : \A s \in J : m[s] <= n => R(s)}
<1>1. ASSUME NEW s \in J
      PROVE  /\ s \in D /\ m[s] \in Nat
             /\ f[s] = IF s \in stop THEN out[s] ELSE f[next[s]]
    BY DEF Calls
<1>2. ASSUME NEW s \in J, s \in stop PROVE R(s)
    BY <1>1, <1>2
<1>3. ASSUME NEW s \in J, s \notin stop
      PROVE  /\ next[s] \in J /\ m[next[s]] \in Nat /\ m[next[s]] < m[s]
             /\ R(next[s]) => R(s)
    BY <1>1, <1>3
<1> HIDE DEF R
<1>4. 0 \in P
  <2>1. ASSUME NEW s \in J, m[s] <= 0 PROVE s \in stop
      BY <1>1, <1>3, <2>1
  <2> QED
      BY <1>2, <2>1
<1>5. ASSUME NEW n \in P PROVE n + 1 \in P
  <2>1. n \in Nat /\ n + 1 \in Nat /\ \A s \in J : m[s] <= n => R(s)
      OBVIOUS
  <2>2. ASSUME NEW s \in J, m[s] <= n + 1, s \notin stop PROVE R(s)
    <3>1. m[next[s]] <= n /\ next[s] \in J
      BY <1>1, <1>3, <2>1, <2>2
    <3> QED
      BY <1>3, <2>1, <2>2, <3>1
  <2> QED
      BY <1>2, <2>1, <2>2
<1>6. P = Nat
  <2>1. P \subseteq Nat
      OBVIOUS
  <2> HIDE DEF P
  <2> QED
      BY <1>4, <1>5, <2>1, Induction
<1> QED
    BY <1>1, <1>6 DEF R

(***************************************************************************)
(* The percolations                                                         *)
(***************************************************************************)
LEMMA Halves ==
  ASSUME NEW n \in Nat, n > 1
  PROVE  /\ n \div 2 \in Nat /\ n \div 2 >= 1 /\ n \div 2 < n
         /\ \A k \in Nat : n \div 2 = k <=> n = 2 * k \/ n = 2 * k + 1
    OBVIOUS

\* What a swap of two timers does to a heap
IsSwap(g, h, i, j) ==
  /\ Len(g) = Len(h) /\ DOMAIN g = 1..Len(h)
  /\ g[i] = h[j] /\ g[j] = h[i]
  /\ \A k \in 1..Len(h) : k # i /\ k # j => g[k] = h[k]

LEMMA SwapProperties ==
  ASSUME NEW T, NEW h \in Seq(T), NEW i \in 1..Len(h), NEW j \in 1..Len(h)
  PROVE  /\ Swap(h, i, j) \in Seq(T)
         /\ IsSwap(Swap(h, i, j), h, i, j)
         /\ Range(Swap(h, i, j)) = Range(h)
<1> DEFINE g == Swap(h, i, j)
<1>1. /\ DOMAIN h = 1..Len(h) /\ h \in [1..Len(h) -> T] /\ Len(h) \in Nat
    OBVIOUS
<1>2. /\ g \in [1..Len(h) -> T]
      /\ g[i] = h[j] /\ g[j] = h[i]
      /\ \A k \in 1..Len(h) : k # i /\ k # j => g[k] = h[k]
    BY <1>1 DEF Swap
<1>3. Range(g) = Range(h)
    BY <1>1, <1>2 DEF Range
<1> HIDE DEF g
<1>4. g \in Seq(T) /\ Len(g) = Len(h) /\ DOMAIN g = 1..Len(h)
    BY <1>1, <1>2
<1> QED
    BY <1>2, <1>3, <1>4 DEF g, IsSwap

LEMMA MovedIsPlace ==
  ASSUME NEW T, NEW h \in Seq(T), NEW s \in Places(h), NEW j \in 1..Len(h)
  PROVE  /\ Moved(s, j) \in Places(h)
         /\ Moved(s, j).i = j
         /\ Moved(s, j).h = Swap(s.h, s.i, j)
<1>1. /\ s.h \in [1..Len(h) -> Range(h)] /\ s.i \in 1..Len(h) /\ Len(h) \in Nat
      /\ DOMAIN h = 1..Len(h)
    BY DEF Places
<1>2. s.h \in Seq(Range(h)) /\ Len(s.h) = Len(h)
    BY <1>1
<1>3. Swap(s.h, s.i, j) \in [1..Len(h) -> Range(h)]
    BY <1>1 DEF Swap
<1> QED
    BY <1>1, <1>3 DEF Places, Moved

Rises(s) == s.i > 1 /\ Less(s.h, s.i, s.i \div 2)

\* percolateUp() ends at a place that any invariant of its calls holds of.
LEMMA UpReaches ==
  ASSUME NEW T, NEW heap0 \in Seq(T), NEW index \in 1..Len(heap0),
         NEW J \in SUBSET Places(heap0), [h |-> heap0, i |-> index] \in J,
         \A s \in J : Rises(s) => Moved(s, s.i \div 2) \in J
  PROVE  \E e \in J : PercolateUp(heap0, index) = e.h /\ ~Rises(e)
<1> DEFINE D == Places(heap0)
           stop == {s \in D : ~Rises(s)}
           next == [s \in D |-> IF Rises(s) THEN Moved(s, s.i \div 2) ELSE s]
           m == [s \in D |-> s.i]
           out == [s \in D |-> s.h]
           Q(f) == f = [s \in D |-> IF s.i > 1 /\ Less(s.h, s.i, s.i \div 2)
                                    THEN f[Moved(s, s.i \div 2)] ELSE s.h]
<1>1. ASSUME NEW s \in D PROVE s.i \in 1..Len(heap0) /\ s.i \in Nat
    BY DEF Places
<1>2. ASSUME NEW s \in D, Rises(s)
      PROVE  Moved(s, s.i \div 2) \in D /\ Moved(s, s.i \div 2).i < s.i
  <2>1. s.i \div 2 \in 1..Len(heap0) /\ s.i \div 2 < s.i
      BY <1>1, <1>2, Halves DEF Rises
  <2> QED
      BY <2>1, MovedIsPlace
<1>3. m \in [D -> Nat] /\ next \in [D -> D]
    BY <1>1, <1>2
<1>4. Descends(D, stop, next, m)
    BY <1>2, <1>3 DEF Descends
<1>5. ASSUME NEW f PROVE Calls(D, stop, next, out, f) <=> Q(f)
  <2>1. ASSUME NEW s \in D
        PROVE  (IF s \in stop THEN out[s] ELSE f[next[s]])
               = IF s.i > 1 /\ Less(s.h, s.i, s.i \div 2)
                 THEN f[Moved(s, s.i \div 2)] ELSE s.h
      BY DEF Rises
  <2> QED
      BY <2>1 DEF Calls
<1>6. \E f : Q(f)
  <2> HIDE DEF D, stop, next, m, out, Q
  <2> QED
      BY <1>4, <1>5, TailRecursion
<1> DEFINE up == CHOOSE f : Q(f)
<1>7. Q(up)
    BY <1>6
<1>8. PercolateUp(heap0, index) = up[[h |-> heap0, i |-> index]]
    BY DEF PercolateUp
<1>9. Closed(J, D, stop, next)
    BY DEF Closed
<1>10. PICK e \in J : e \in stop /\ up[[h |-> heap0, i |-> index]] = out[e]
  <2>1. Calls(D, stop, next, out, up)
      BY <1>5, <1>7
  <2> HIDE DEF D, stop, next, m, out, up, Q
  <2> QED
      BY <1>4, <1>9, <2>1, TailInvariant
<1> QED
    BY <1>8, <1>10

LEMMA SmallestIsChild ==
  ASSUME NEW T, NEW h \in Seq(T), NEW s \in Places(h), Smallest(s) # s.i
  PROVE  Smallest(s) \in 1..Len(h) /\ Smallest(s) > s.i
<1>1. s.i \in 1..Len(h) /\ Len(s.h) = Len(h) /\ Len(h) \in Nat
    BY DEF Places
<1> QED
    BY <1>1 DEF Smallest

\* The same of percolateDown()
LEMMA DownReaches ==
  ASSUME NEW T, NEW heap0 \in Seq(T), NEW index \in 1..Len(heap0),
         NEW J \in SUBSET Places(heap0), [h |-> heap0, i |-> index] \in J,
         \A s \in J : Smallest(s) # s.i => Moved(s, Smallest(s)) \in J
  PROVE  \E e \in J : PercolateDown(heap0, index) = e.h /\ Smallest(e) = e.i
<1> DEFINE D == Places(heap0)
           stop == {s \in D : Smallest(s) = s.i}
           next == [s \in D |-> IF Smallest(s) # s.i THEN Moved(s, Smallest(s)) ELSE s]
           m == [s \in D |-> Len(heap0) - s.i]
           out == [s \in D |-> s.h]
           Q(f) == f = [s \in D |-> IF Smallest(s) # s.i
                                    THEN f[Moved(s, Smallest(s))] ELSE s.h]
<1>1. ASSUME NEW s \in D
      PROVE  s.i \in 1..Len(heap0) /\ s.i \in Nat /\ Len(heap0) - s.i \in Nat
    BY DEF Places
<1>2. ASSUME NEW s \in D, Smallest(s) # s.i
      PROVE  Moved(s, Smallest(s)) \in D /\ Moved(s, Smallest(s)).i > s.i
    BY <1>2, SmallestIsChild, MovedIsPlace
<1>3. m \in [D -> Nat] /\ next \in [D -> D]
    BY <1>1, <1>2
<1>4. Descends(D, stop, next, m)
  <2>1. ASSUME NEW s \in D, Smallest(s) # s.i, NEW t \in D, t = Moved(s, Smallest(s))
        PROVE  Len(heap0) - t.i < Len(heap0) - s.i
      BY <1>1, <1>2, <2>1
  <2> QED
      BY <1>2, <1>3, <2>1 DEF Descends
<1>5. ASSUME NEW f PROVE Calls(D, stop, next, out, f) <=> Q(f)
  <2>1. ASSUME NEW s \in D
        PROVE  (IF s \in stop THEN out[s] ELSE f[next[s]])
               = IF Smallest(s) # s.i THEN f[Moved(s, Smallest(s))] ELSE s.h
      OBVIOUS
  <2> QED
      BY <2>1 DEF Calls
<1>6. \E f : Q(f)
  <2> HIDE DEF D, stop, next, m, out, Q
  <2> QED
      BY <1>4, <1>5, TailRecursion
<1> DEFINE down == CHOOSE f : Q(f)
<1>7. Q(down)
    BY <1>6
<1>8. PercolateDown(heap0, index) = down[[h |-> heap0, i |-> index]]
  <2>1. ~(index > Len(heap0))
      OBVIOUS
  <2> QED
      BY <2>1 DEF PercolateDown
<1>9. Closed(J, D, stop, next)
    BY DEF Closed
<1>10. PICK e \in J : e \in stop /\ down[[h |-> heap0, i |-> index]] = out[e]
  <2>1. Calls(D, stop, next, out, down)
      BY <1>5, <1>7
  <2> HIDE DEF D, stop, next, m, out, down, Q
  <2> QED
      BY <1>4, <1>9, <2>1, TailInvariant
<1> QED
    BY <1>8, <1>10

(***************************************************************************)
(* The order of the heap.  While a timer rises or sinks from index i, only  *)
(* the edge above i, or the edges below it, may be out of order, and the    *)
(* timers around i are in order without it.                                 *)
(***************************************************************************)
Timers == [id : Nat, expire : Nat, added : Nat, delay : Nat]

Ordered(h) == \A j \in 2..Len(h) : h[j \div 2].expire <= h[j].expire

Skips(h, i) == \A j \in 2..Len(h) :
                 i > 1 /\ j \div 2 = i => h[i \div 2].expire <= h[j].expire

OrderedExceptAbove(h, i) ==
  /\ \A j \in 2..Len(h) : j # i => h[j \div 2].expire <= h[j].expire
  /\ Skips(h, i)

OrderedExceptBelow(h, i) ==
  /\ \A j \in 2..Len(h) : j \div 2 # i => h[j \div 2].expire <= h[j].expire
  /\ Skips(h, i)

LEMMA ParentIsPlace ==
  ASSUME NEW n \in Nat, NEW j \in 2..n
  PROVE  j \div 2 \in 1..n /\ j \div 2 < j
    BY Halves

LEMMA RisingKeepsOrder ==
  ASSUME NEW h \in Seq(Timers), NEW i \in 2..Len(h), OrderedExceptAbove(h, i),
         Less(h, i, i \div 2)
  PROVE  OrderedExceptAbove(Swap(h, i, i \div 2), i \div 2)
<1> DEFINE p == i \div 2
           g == Swap(h, i, p)
           e(s, k) == s[k].expire
<1>1. /\ Len(h) \in Nat /\ i \in 1..Len(h) /\ p \in 1..Len(h) /\ p < i
      /\ p \in Nat /\ i > 1 /\ i \in Nat
    BY ParentIsPlace
<1>2. /\ Len(g) = Len(h) /\ e(g, i) = e(h, p) /\ e(g, p) = e(h, i)
      /\ \A k \in 1..Len(h) : k # i /\ k # p => e(g, k) = e(h, k)
  <2> HIDE DEF p
  <2>1. /\ Len(g) = Len(h) /\ g[i] = h[p] /\ g[p] = h[i]
        /\ \A k \in 1..Len(h) : k # i /\ k # p => g[k] = h[k]
    <3>1. IsSwap(Swap(h, i, p), h, i, p)
      BY <1>1, SwapProperties
    <3> QED
      BY <3>1 DEF IsSwap, g
  <2> HIDE DEF g
  <2> QED
      BY <2>1
<1>3. /\ \A k \in 1..Len(h) : e(h, k) \in Nat
      /\ e(h, i) < e(h, p)
  <2>1. \A k \in 1..Len(h) : h[k] \in Timers
      BY ElementOfSeq
  <2> QED
      BY <2>1 DEF Timers, Less
<1>4. ASSUME NEW j \in 2..Len(h)
      PROVE  /\ j \in 1..Len(h) /\ j \div 2 \in 1..Len(h) /\ j \div 2 # j
             /\ j # i => e(h, j \div 2) <= e(h, j)
             /\ j \div 2 = i => e(h, p) <= e(h, j)
  <2>1. j \in 1..Len(h) /\ j \div 2 \in 1..Len(h) /\ j \div 2 # j
      BY <1>1, ParentIsPlace
  <2> QED
      BY <1>1, <2>1 DEF OrderedExceptAbove, Skips
<1> HIDE DEF g, e, p
<1>5. ASSUME NEW j \in 2..Len(h), j # p PROVE e(g, j \div 2) <= e(g, j)
  <2>1. CASE j = i
      BY <1>1, <1>2, <1>3, <2>1 DEF p
  <2>2. CASE j # i /\ j \div 2 = p
    <3>1. e(g, p) = e(h, i) /\ e(g, j) = e(h, j) /\ e(h, p) <= e(h, j)
      BY <1>2, <1>4, <1>5, <2>2
    <3>2. e(h, i) \in Nat /\ e(h, p) \in Nat /\ e(h, j) \in Nat /\ e(h, i) < e(h, p)
      BY <1>1, <1>3, <1>4
    <3> QED
      BY <2>2, <3>1, <3>2
  <2>3. CASE j # i /\ j \div 2 = i
      BY <1>1, <1>2, <1>3, <1>4, <1>5, <2>3
  <2>4. CASE j # i /\ j \div 2 # i /\ j \div 2 # p
    <3>1. e(g, j \div 2) = e(h, j \div 2) /\ e(g, j) = e(h, j)
      BY <1>2, <1>4, <1>5, <2>4
    <3> QED
      BY <1>4, <2>4, <3>1
  <2> QED
      BY <2>1, <2>2, <2>3, <2>4
<1>6. ASSUME NEW j \in 2..Len(h), p > 1, j \div 2 = p
      PROVE  e(g, p \div 2) <= e(g, j)
  <2>1. /\ p \in 2..Len(h) /\ p \div 2 \in 1..Len(h) /\ p \div 2 # p /\ p \div 2 # i
        /\ e(h, p \div 2) <= e(h, p)
      BY <1>1, <1>4, <1>6, ParentIsPlace
  <2>2. e(g, p \div 2) = e(h, p \div 2)
      BY <1>2, <2>1
  <2>3. CASE j = i
      BY <1>2, <2>1, <2>2, <2>3
  <2>4. CASE j # i
    <3>1. j # p /\ e(g, j) = e(h, j) /\ e(h, p) <= e(h, j)
      BY <1>2, <1>4, <1>6, <2>4
    <3> QED
      BY <1>1, <1>3, <1>4, <2>1, <2>2, <3>1
  <2> QED
      BY <2>3, <2>4
<1> QED
    BY <1>2, <1>5, <1>6 DEF OrderedExceptAbove, Skips, g, e, p

LEMMA RisenIsOrdered ==
  ASSUME NEW h \in Seq(Timers), NEW i \in 1..Len(h), OrderedExceptAbove(h, i),
         ~(i > 1 /\ Less(h, i, i \div 2))
  PROVE  Ordered(h)
<1>1. \A k \in 1..Len(h) : h[k].expire \in Nat
  <2>1. \A k \in 1..Len(h) : h[k] \in Timers
      BY ElementOfSeq
  <2> QED
      BY <2>1 DEF Timers
<1>2. ASSUME NEW j \in 2..Len(h) PROVE h[j \div 2].expire <= h[j].expire
  <2>1. j \in 1..Len(h) /\ j \div 2 \in 1..Len(h)
      BY ParentIsPlace
  <2>2. CASE j = i
      BY <1>1, <2>1, <2>2 DEF Less
  <2>3. CASE j # i
      BY <2>3 DEF OrderedExceptAbove
  <2> QED
      BY <2>2, <2>3
<1> QED
    BY <1>2 DEF Ordered

LEMMA SinkingKeepsOrder ==
  ASSUME NEW h \in Seq(Timers), NEW i \in 1..Len(h), NEW k \in 2..Len(h),
         OrderedExceptBelow(h, i), k \div 2 = i, Less(h, k, i),
         \A j \in 2..Len(h) : j \div 2 = i => h[k].expire <= h[j].expire
  PROVE  OrderedExceptBelow(Swap(h, i, k), k)
<1> DEFINE g == Swap(h, i, k)
           e(s, x) == s[x].expire
<1>1. /\ Len(h) \in Nat /\ k \in 1..Len(h) /\ i < k /\ k \in Nat /\ i \in Nat /\ k > 1
    BY ParentIsPlace
<1>2. /\ Len(g) = Len(h) /\ e(g, i) = e(h, k) /\ e(g, k) = e(h, i)
      /\ \A x \in 1..Len(h) : x # i /\ x # k => e(g, x) = e(h, x)
  <2>1. /\ Len(g) = Len(h) /\ g[i] = h[k] /\ g[k] = h[i]
        /\ \A x \in 1..Len(h) : x # i /\ x # k => g[x] = h[x]
    <3>1. IsSwap(Swap(h, i, k), h, i, k)
      BY <1>1, SwapProperties
    <3> QED
      BY <3>1 DEF IsSwap, g
  <2> HIDE DEF g
  <2> QED
      BY <2>1
<1>3. /\ \A x \in 1..Len(h) : e(h, x) \in Nat
      /\ e(h, k) < e(h, i)
  <2>1. \A x \in 1..Len(h) : h[x] \in Timers
      BY ElementOfSeq
  <2> QED
      BY <2>1 DEF Timers, Less
<1>4. ASSUME NEW j \in 2..Len(h)
      PROVE  /\ j \in 1..Len(h) /\ j \div 2 \in 1..Len(h) /\ j \div 2 < j
             /\ j \div 2 # i => e(h, j \div 2) <= e(h, j)
             /\ j \div 2 = i => e(h, k) <= e(h, j)
             /\ i > 1 => e(h, i \div 2) <= e(h, k)
  <2>1. j \in 1..Len(h) /\ j \div 2 \in 1..Len(h) /\ j \div 2 < j
      BY <1>1, ParentIsPlace
  <2> QED
      BY <1>1, <2>1 DEF OrderedExceptBelow, Skips
<1> HIDE DEF g, e
<1>5. ASSUME NEW j \in 2..Len(h), j \div 2 # k PROVE e(g, j \div 2) <= e(g, j)
  <2>1. CASE j = k
      BY <1>1, <1>2, <1>3, <2>1, SMTT(30)
  <2>2. CASE j # k /\ j \div 2 = i
      BY <1>1, <1>2, <1>3, <1>4, <2>2
  <2>3. CASE j = i
    <3>1. i > 1 /\ i \div 2 \in 1..Len(h) /\ i \div 2 # i /\ i \div 2 # k
      BY <1>1, <1>4, <2>3
    <3> QED
      BY <1>2, <1>4, <2>3, <3>1
  <2>4. CASE j # k /\ j # i /\ j \div 2 # i
      BY <1>1, <1>2, <1>4, <1>5, <2>4
  <2> QED
      BY <2>1, <2>2, <2>3, <2>4
<1>6. ASSUME NEW j \in 2..Len(h), j \div 2 = k
      PROVE  e(g, k \div 2) <= e(g, j)
  <2>1. j # k /\ j # i /\ k # i /\ e(h, k) <= e(h, j)
      BY <1>1, <1>4, <1>6
  <2> QED
      BY <1>2, <1>4, <2>1
<1> QED
    BY <1>2, <1>5, <1>6 DEF OrderedExceptBelow, Skips, g, e

\* Smallest() is the smaller child, when it is smaller than its parent.
LEMMA SmallestProperties ==
  ASSUME NEW s, s.h \in Seq(Timers), s.i \in 1..Len(s.h)
  PROVE  LET k == Smallest(s) IN
         /\ \A j \in 2..Len(s.h) : j \div 2 = s.i => s.h[k].expire <= s.h[j].expire
         /\ k # s.i => /\ k \in 2..Len(s.h) /\ k \div 2 = s.i
                       /\ Less(s.h, k, s.i)
<1> DEFINE k == Smallest(s)
           e(x) == s.h[x].expire
<1>1. s.i \in Nat /\ s.i >= 1 /\ s.i <= Len(s.h) /\ Len(s.h) \in Nat
    OBVIOUS
<1>2. \A x \in 1..Len(s.h) : e(x) \in Nat
  <2>1. \A x \in 1..Len(s.h) : s.h[x] \in Timers
      BY ElementOfSeq
  <2> QED
      BY <2>1 DEF Timers
<1> DEFINE left == IF 2 * s.i <= Len(s.h) /\ e(2 * s.i) < e(s.i) THEN 2 * s.i ELSE s.i
<1>3. k = IF 2 * s.i + 1 <= Len(s.h) /\ e(2 * s.i + 1) < e(left)
          THEN 2 * s.i + 1 ELSE left
    BY DEF Smallest, Less
<1> HIDE DEF k, e
<1>4. /\ 2 * s.i <= Len(s.h) => e(2 * s.i) \in Nat
      /\ 2 * s.i + 1 <= Len(s.h) => e(2 * s.i + 1) \in Nat
      /\ e(s.i) \in Nat
    BY <1>1, <1>2
<1>5. /\ 2 * s.i <= Len(s.h) => e(k) <= e(2 * s.i)
      /\ 2 * s.i + 1 <= Len(s.h) => e(k) <= e(2 * s.i + 1)
      /\ k # s.i => k \in 2..Len(s.h) /\ k \in {2 * s.i, 2 * s.i + 1} /\ e(k) < e(s.i)
    BY <1>1, <1>3, <1>4
<1>6. ASSUME NEW j \in 2..Len(s.h), j \div 2 = s.i PROVE e(k) <= e(j)
  <2>1. j \in Nat /\ j > 1
      BY <1>1
  <2>2. j = 2 * s.i \/ j = 2 * s.i + 1
      BY <1>1, <1>6, <2>1, Halves
  <2> QED
      BY <1>1, <1>5, <2>2
<1>7. ASSUME k # s.i PROVE k \div 2 = s.i
    BY <1>1, <1>5, <1>7, Halves
<1> QED
    BY <1>5, <1>6, <1>7 DEF k, e, Less

(***************************************************************************)
(* What the heap's operations do                                            *)
(***************************************************************************)
LEMMA UpOrders ==
  ASSUME NEW heap0 \in Seq(Timers), NEW index \in 1..Len(heap0),
         OrderedExceptAbove(heap0, index)
  PROVE  /\ PercolateUp(heap0, index) \in Seq(Timers)
         /\ Len(PercolateUp(heap0, index)) = Len(heap0)
         /\ Range(PercolateUp(heap0, index)) = Range(heap0)
         /\ Ordered(PercolateUp(heap0, index))
<1> DEFINE I(s) == /\ s.h \in Seq(Timers) /\ Len(s.h) = Len(heap0)
                   /\ Range(s.h) = Range(heap0)
                   /\ OrderedExceptAbove(s.h, s.i)
           J == {s \in Places(heap0) : I(s)}
           start == [h |-> heap0, i |-> index]
<1>1. start \in J
  <2>1. heap0 \in [DOMAIN heap0 -> Range(heap0)] /\ index \in DOMAIN heap0
      BY DEF Range
  <2> QED
      BY <2>1 DEF Places
<1>2. ASSUME NEW s \in J, Rises(s) PROVE Moved(s, s.i \div 2) \in J
  <2> DEFINE p == s.i \div 2
  <2>1. /\ s \in Places(heap0) /\ s.h \in Seq(Timers) /\ Len(s.h) = Len(heap0)
        /\ OrderedExceptAbove(s.h, s.i) /\ Range(s.h) = Range(heap0)
        /\ s.i \in 1..Len(s.h)
      BY DEF Places
  <2>2. s.i \in 2..Len(s.h) /\ Less(s.h, s.i, s.i \div 2)
      BY <1>2, <2>1 DEF Rises
  <2>3. p \in 1..Len(s.h) /\ p \in 1..Len(heap0)
      BY <2>1, <2>2, ParentIsPlace
  <2>4. OrderedExceptAbove(Swap(s.h, s.i, p), p)
      BY <2>1, <2>2, RisingKeepsOrder
  <2> HIDE DEF p
  <2>5. /\ Swap(s.h, s.i, p) \in Seq(Timers) /\ IsSwap(Swap(s.h, s.i, p), s.h, s.i, p)
        /\ Range(Swap(s.h, s.i, p)) = Range(s.h)
      BY <2>1, <2>3, SwapProperties
  <2>6. /\ Moved(s, p) \in Places(heap0) /\ Moved(s, p).i = p
        /\ Moved(s, p).h = Swap(s.h, s.i, p)
      BY <2>1, <2>3, MovedIsPlace
  <2>7. I(Moved(s, p))
      BY <2>1, <2>4, <2>5, <2>6 DEF IsSwap
  <2>8. Moved(s, p) \in J
      BY <2>6, <2>7
  <2> QED
      BY <2>8 DEF p
<1>3. J \in SUBSET Places(heap0)
    OBVIOUS
<1>4. PICK e \in J : PercolateUp(heap0, index) = e.h /\ ~Rises(e)
  <2> HIDE DEF J
  <2> QED
      BY <1>1, <1>2, <1>3, UpReaches
<1>5. e.i \in 1..Len(e.h)
    BY DEF Places
<1>6. Ordered(e.h)
    BY <1>4, <1>5, RisenIsOrdered DEF Rises
<1> QED
    BY <1>4, <1>6

LEMMA DownOrders ==
  ASSUME NEW heap0 \in Seq(Timers), NEW index \in 1..Len(heap0),
         OrderedExceptBelow(heap0, index)
  PROVE  /\ PercolateDown(heap0, index) \in Seq(Timers)
         /\ Len(PercolateDown(heap0, index)) = Len(heap0)
         /\ Range(PercolateDown(heap0, index)) = Range(heap0)
         /\ Ordered(PercolateDown(heap0, index))
<1> DEFINE I(s) == /\ s.h \in Seq(Timers) /\ Len(s.h) = Len(heap0)
                   /\ Range(s.h) = Range(heap0)
                   /\ OrderedExceptBelow(s.h, s.i)
           J == {s \in Places(heap0) : I(s)}
           start == [h |-> heap0, i |-> index]
<1>1. start \in J
  <2>1. heap0 \in [DOMAIN heap0 -> Range(heap0)] /\ index \in DOMAIN heap0
      BY DEF Range
  <2> QED
      BY <2>1 DEF Places
<1>2. ASSUME NEW s \in J, Smallest(s) # s.i PROVE Moved(s, Smallest(s)) \in J
  <2> DEFINE k == Smallest(s)
  <2>1. /\ s \in Places(heap0) /\ s.h \in Seq(Timers) /\ Len(s.h) = Len(heap0)
        /\ OrderedExceptBelow(s.h, s.i) /\ Range(s.h) = Range(heap0)
        /\ s.i \in 1..Len(s.h)
      BY DEF Places
  <2>2. /\ k \in 2..Len(s.h) /\ k \div 2 = s.i /\ Less(s.h, k, s.i)
        /\ \A j \in 2..Len(s.h) : j \div 2 = s.i => s.h[k].expire <= s.h[j].expire
      BY <1>2, <2>1, SmallestProperties
  <2> HIDE DEF k
  <2>3. k \in 1..Len(s.h) /\ k \in 1..Len(heap0)
      BY <2>1, <2>2
  <2>4. OrderedExceptBelow(Swap(s.h, s.i, k), k)
      BY <2>1, <2>2, SinkingKeepsOrder
  <2>5. /\ Swap(s.h, s.i, k) \in Seq(Timers) /\ IsSwap(Swap(s.h, s.i, k), s.h, s.i, k)
        /\ Range(Swap(s.h, s.i, k)) = Range(s.h)
      BY <2>1, <2>3, SwapProperties
  <2>6. /\ Moved(s, k) \in Places(heap0) /\ Moved(s, k).i = k
        /\ Moved(s, k).h = Swap(s.h, s.i, k)
      BY <2>1, <2>3, MovedIsPlace
  <2>7. I(Moved(s, k))
      BY <2>1, <2>4, <2>5, <2>6 DEF IsSwap
  <2>8. Moved(s, k) \in J
      BY <2>6, <2>7
  <2> QED
      BY <2>8 DEF k
<1>3. J \in SUBSET Places(heap0)
    OBVIOUS
<1>4. PICK e \in J : PercolateDown(heap0, index) = e.h /\ Smallest(e) = e.i
  <2> HIDE DEF J
  <2> QED
      BY <1>1, <1>2, <1>3, DownReaches
<1>5. e.i \in 1..Len(e.h) /\ e.h \in Seq(Timers) /\ OrderedExceptBelow(e.h, e.i)
    BY DEF Places
<1>6. Ordered(e.h)
  <2>1. \A j \in 2..Len(e.h) : j \div 2 = e.i => e.h[e.i].expire <= e.h[j].expire
      BY <1>4, <1>5, SmallestProperties
  <2> QED
      BY <1>5, <2>1 DEF Ordered, OrderedExceptBelow
<1> QED
    BY <1>4, <1>6

\* The root of an ordered heap expires first.
LEMMA RootIsLeast ==
  ASSUME NEW h \in Seq(Timers), Ordered(h), NEW k \in 1..Len(h)
  PROVE  h[1].expire <= h[k].expire
<1> DEFINE e(x) == h[x].expire
           T == {x \in 1..Len(h) : ~(e(1) <= e(x))}
<1>1. \A x \in 1..Len(h) : e(x) \in Nat
  <2>1. \A x \in 1..Len(h) : h[x] \in Timers
      BY ElementOfSeq
  <2> QED
      BY <2>1 DEF Timers
<1>2. \A j \in 2..Len(h) : e(j \div 2) <= e(j)
    BY DEF Ordered
<1> HIDE DEF e
<1>3. SUFFICES ASSUME T # {} PROVE FALSE
    BY DEF e
<1>4. PICK x \in T : \A y \in T : x <= y
  <2>1. T \subseteq Nat
      OBVIOUS
  <2> HIDE DEF T
  <2> QED
      BY <1>3, <2>1, Least
<1>5. x \in 1..Len(h) /\ x # 1 /\ ~(e(1) <= e(x)) /\ 1 \in 1..Len(h)
    BY <1>1
<1>6. x \in 2..Len(h)
    BY <1>5
<1>7. x \div 2 \in 1..Len(h) /\ x \div 2 < x
    BY <1>6, ParentIsPlace
<1>8. x \div 2 \notin T
    BY <1>4, <1>5, <1>7
<1>9. e(1) <= e(x \div 2) /\ e(x \div 2) <= e(x)
    BY <1>2, <1>6, <1>7, <1>8
<1> QED
    BY <1>1, <1>5, <1>7, <1>9

\* The timer that is added is in the heap, with all others and in order
\* (TimerHeap.cpp:77-96).
LEMMA PushOrders ==
  ASSUME NEW h \in Seq(Timers), Ordered(h), NEW t \in Timers
  PROVE  LET g == PercolateUp(Append(h, t), Len(h) + 1) IN
         /\ g \in Seq(Timers) /\ Len(g) = Len(h) + 1
         /\ Range(g) = Range(h) \cup {t}
         /\ Ordered(g)
<1> DEFINE a == Append(h, t)
           n == Len(h) + 1
<1>1. /\ a \in Seq(Timers) /\ Len(a) = n /\ Len(h) \in Nat /\ n \in 1..n
      /\ \A k \in 1..Len(h) : a[k] = h[k]
      /\ a[n] = t
    OBVIOUS
<1>2. Range(a) = Range(h) \cup {t}
  <2>1. DOMAIN a = 1..n /\ DOMAIN h = 1..Len(h) /\ 1..n = (1..Len(h)) \cup {n}
      BY <1>1
  <2> HIDE DEF a, n
  <2> QED
      BY <1>1, <2>1 DEF Range
<1>3. OrderedExceptAbove(a, n)
  <2> HIDE DEF a
  <2>1. ASSUME NEW j \in 2..n
        PROVE  j \div 2 \in 1..n /\ j \div 2 < j /\ j \div 2 # n
      BY <1>1, ParentIsPlace
  <2>2. ASSUME NEW j \in 2..n, j # n PROVE a[j \div 2].expire <= a[j].expire
    <3>1. j \in 2..Len(h) /\ j \in 1..Len(h) /\ j \div 2 \in 1..Len(h)
      BY <1>1, <2>1, <2>2
    <3>2. a[j] = h[j] /\ a[j \div 2] = h[j \div 2]
      BY <1>1, <3>1
    <3> QED
      BY <3>1, <3>2 DEF Ordered
  <2> QED
      BY <1>1, <2>1, <2>2 DEF OrderedExceptAbove, Skips
<1> HIDE DEF a, n
<1>4. /\ PercolateUp(a, n) \in Seq(Timers) /\ Len(PercolateUp(a, n)) = Len(a)
      /\ Range(PercolateUp(a, n)) = Range(a) /\ Ordered(PercolateUp(a, n))
    BY <1>1, <1>3, UpOrders
<1> QED
    BY <1>1, <1>2, <1>4 DEF a, n

\* A timer that expires no earlier than the first one does not take its place.
LEMMA PushKeepsRoot ==
  ASSUME NEW h \in Seq(Timers), h # <<>>, NEW t \in Timers,
         h[1].expire <= t.expire
  PROVE  PercolateUp(Append(h, t), Len(h) + 1)[1] = h[1]
<1> DEFINE a == Append(h, t)
           n == Len(h) + 1
<1>1. /\ a \in Seq(Timers) /\ Len(a) = n /\ Len(h) \in Nat /\ n \in 1..n /\ n # 1
      /\ a[1] = h[1] /\ a[n] = t /\ 1 \in 1..n
      /\ h[1].expire \in Nat /\ t.expire \in Nat
  <2>1. Len(h) \in Nat /\ Len(h) # 0
      BY EmptySeq
  <2>2. h[1] \in Timers
      BY <2>1, ElementOfSeq
  <2> QED
      BY <2>1, <2>2, SMTT(30) DEF Timers
<1> HIDE DEF a, n
<1> DEFINE I(s) == s.h[1] = h[1] /\ s.h[s.i] = t /\ s.i # 1
           J == {s \in Places(a) : I(s)}
<1>2. [h |-> a, i |-> n] \in J
  <2>1. a \in [DOMAIN a -> Range(a)] /\ n \in DOMAIN a
      BY <1>1 DEF Range
  <2> QED
      BY <1>1, <2>1 DEF Places
<1>3. ASSUME NEW s \in J, Rises(s) PROVE Moved(s, s.i \div 2) \in J
  <2> DEFINE p == s.i \div 2
  <2>1. /\ s \in Places(a) /\ s.h \in [1..n -> Range(a)]
        /\ s.i \in 1..n /\ n \in Nat
        /\ s.h[1] = h[1] /\ s.h[s.i] = t /\ s.i # 1
      BY <1>1 DEF Places
  <2>2. s.h \in Seq(Range(a)) /\ Len(s.h) = n
      BY <2>1
  <2>3. p \in 1..n /\ s.i \in 2..n /\ p < s.i
      BY <2>1, ParentIsPlace
  <2>4. p # 1
      BY <1>1, <1>3, <2>1 DEF Rises, Less
  <2> HIDE DEF p
  <2>5. IsSwap(Swap(s.h, s.i, p), s.h, s.i, p)
      BY <2>1, <2>2, <2>3, SwapProperties
  <2>6. /\ Moved(s, p) \in Places(a) /\ Moved(s, p).i = p
        /\ Moved(s, p).h = Swap(s.h, s.i, p)
    <3>1. a \in Seq(Timers) /\ s \in Places(a) /\ p \in 1..Len(a)
      BY <1>1, <2>1, <2>3
    <3> HIDE DEF J
    <3> QED
      BY ONLY <3>1, MovedIsPlace
  <2>7. Moved(s, p) \in J
    <3>1. 1 \in 1..Len(s.h) /\ 1 # s.i /\ 1 # p
      BY <1>1, <2>1, <2>2, <2>4
    <3>2. Swap(s.h, s.i, p)[1] = s.h[1] /\ Swap(s.h, s.i, p)[p] = s.h[s.i]
      BY <2>5, <3>1 DEF IsSwap
    <3> QED
      BY <2>1, <2>4, <2>6, <3>2
  <2> QED
      BY <2>7 DEF p
<1>4. J \in SUBSET Places(a)
    OBVIOUS
<1>5. PICK e \in J : PercolateUp(a, n) = e.h /\ ~Rises(e)
  <2> HIDE DEF J
  <2> QED
      BY <1>1, <1>2, <1>3, <1>4, UpReaches
<1> QED
    BY <1>5 DEF a, n

\* pop() removes the root and keeps the others, in order (TimerHeap.cpp:57-75, 99-106).
LEMMA PopOrders ==
  ASSUME NEW h \in Seq(Timers), h # <<>>, Ordered(h)
  PROVE  /\ Pop(h) \in Seq(Timers) /\ Len(Pop(h)) = Len(h) - 1
         /\ Range(Pop(h)) \cup {h[1]} = Range(h)
         /\ Ordered(Pop(h))
<1> DEFINE n == Len(h)
           w == Swap(h, 1, n)
           g == Front(w)
<1>1. n \in Nat /\ n >= 1 /\ 1 \in 1..n /\ n \in 1..n /\ DOMAIN h = 1..n
  <2>1. Len(h) \in Nat /\ Len(h) # 0
      BY EmptySeq
  <2> QED
      BY <2>1
<1>2. w \in Seq(Timers) /\ IsSwap(w, h, 1, n)
    BY <1>1, SwapProperties
<1> HIDE DEF w
<1>3. /\ g \in Seq(Timers) /\ Len(g) = n - 1
      /\ \A k \in 1..(n - 1) : g[k] = w[k]
  <2>1. Len(w) = n /\ g = SubSeq(w, 1, n - 1)
      BY <1>2 DEF IsSwap, Front
  <2>2. \A k \in 1..(n - 1) : w[k] \in Timers
      BY <1>1, <1>2, <2>1, ElementOfSeq
  <2> DEFINE l == n - 1
  <2>3. l \in Int /\ 1 \in Int /\ l - 1 + 1 = l /\ (1 <= l \/ l = 0)
      BY <1>1
  <2> HIDE DEF l, n
  <2>4. /\ SubSeq(w, 1, l) \in Seq(Timers)
        /\ Len(SubSeq(w, 1, l)) = IF 1 <= l THEN l - 1 + 1 ELSE 0
        /\ \A k \in 1..(l - 1 + 1) : SubSeq(w, 1, l)[k] = w[1 + k - 1]
      BY <2>2, <2>3, SubSeqProperties DEF l
  <2>5. \A k \in 1..l : 1 + k - 1 = k
      BY <2>3
  <2> HIDE DEF g
  <2> QED
      BY <2>1, <2>3, <2>4, <2>5 DEF l
<1> HIDE DEF g, n
<1>4. /\ n > 1 => g[1] = h[n]
      /\ \A k \in 2..(n - 1) : g[k] = h[k]
  <2>1. ASSUME n > 1 PROVE g[1] = h[n]
    <3>1. 1 \in 1..(n - 1)
      BY <1>1, <2>1
    <3>2. w[1] = h[n]
      BY <1>2 DEF IsSwap
    <3> QED
      BY <1>3, <3>1, <3>2
  <2>2. ASSUME NEW k \in 2..(n - 1) PROVE g[k] = h[k]
    <3>1. k \in 1..n /\ k # 1 /\ k # n /\ k \in 1..(n - 1)
      BY <1>1
    <3> QED
      BY <1>2, <1>3, <3>1 DEF IsSwap, n
  <2> QED
      BY <2>1, <2>2
<1>5. Range(g) \cup {h[1]} = Range(h)
  <2>1. DOMAIN g = 1..(n - 1)
      BY <1>3
  <2>2. CASE n = 1
    <3>1. DOMAIN g = {} /\ DOMAIN h = {1}
      BY <1>1, <2>1, <2>2
    <3> QED
      BY <3>1 DEF Range
  <2>3. CASE n > 1
    <3>1. 1..(n - 1) = {1} \cup 2..(n - 1) /\ 1..n = {1, n} \cup 2..(n - 1)
      BY <1>1, <2>3
    <3> QED
      BY <1>1, <1>4, <2>1, <2>3, <3>1 DEF Range
  <2> QED
      BY <1>1, <2>2, <2>3
<1>6. Pop(h) = PercolateDown(g, 1)
    BY DEF Pop, g, w, n
<1>7. CASE n = 1
  <2>1. Len(g) = 0 /\ 1 > Len(g)
      BY <1>3, <1>7
  <2>2. Pop(h) = g
      BY <1>6, <2>1 DEF PercolateDown
  <2>3. Ordered(g)
      BY <2>1 DEF Ordered
  <2> QED
      BY <1>3, <1>5, <2>2, <2>3 DEF n
<1>8. CASE n > 1
  <2>1. 1 \in 1..Len(g)
      BY <1>1, <1>3, <1>8
  <2>2. OrderedExceptBelow(g, 1)
    <3>1. ASSUME NEW j \in 2..Len(g), j \div 2 # 1
          PROVE  g[j \div 2].expire <= g[j].expire
      <4>1. j \in 2..(n - 1) /\ j \in 2..n
        BY <1>1, <1>3
      <4>2. j \div 2 \in 1..(n - 1) /\ n - 1 \in Nat
        BY <1>1, <1>3, <4>1, ParentIsPlace
      <4>3. j \div 2 \in 2..(n - 1)
        BY <3>1, <4>2
      <4>4. g[j] = h[j] /\ g[j \div 2] = h[j \div 2]
        BY <1>4, <4>1, <4>3
      <4> QED
        BY <4>1, <4>4 DEF Ordered, n
    <3> QED
      BY <3>1 DEF OrderedExceptBelow, Skips
  <2>3. /\ PercolateDown(g, 1) \in Seq(Timers) /\ Len(PercolateDown(g, 1)) = Len(g)
        /\ Range(PercolateDown(g, 1)) = Range(g) /\ Ordered(PercolateDown(g, 1))
      BY <1>3, <2>1, <2>2, DownOrders
  <2> QED
      BY <1>3, <1>5, <1>6, <2>3 DEF n
<1> QED
    BY <1>1, <1>7, <1>8

(***************************************************************************)
(* The inductive invariant.  The timers that wait form an ordered heap; the *)
(* ones that ran were due at the time that handleTimeoutEvents() looked at, *)
(* and expire no later than any that still waits, because a timer that is   *)
(* added afterwards expires no earlier than the time that was looked at.    *)
(* The timer whose callback runs stays at the root for the same reason.     *)
(***************************************************************************)
Waiting == /\ heap \in Seq(Timers)
           /\ Ordered(heap)
           /\ \A t \in Range(heap) : /\ t.expire = Seconds(t.added) + t.delay
                                     /\ t.added <= clock

Running == pc = "callback" => /\ heap # <<>> /\ heap[1].expire <= now
                              /\ ran # <<>>

Past == /\ ran \in Seq(Timers)
        /\ \A r \in Range(ran) : /\ r.expire <= now
                                 /\ \A t \in Range(heap) : r.expire <= t.expire

Inv == TypeOK /\ Waiting /\ Running /\ Past /\ EachRunsOnce /\ RunInOrder

Ids(s) == {s[i].id : i \in DOMAIN s}

LEMMA IdsOfRange ==
  ASSUME NEW s PROVE Ids(s) = {t.id : t \in Range(s)}
    BY DEF Ids, Range

LEMMA RangeOfTimers ==
  ASSUME NEW s \in Seq(Timers), NEW t \in Range(s)
  PROVE  t \in Timers /\ t.expire \in Nat /\ t.added \in Nat /\ t.delay \in Nat
<1>1. t \in Timers
    BY ElementOfSeq DEF Range
<1> QED
    BY <1>1 DEF Timers

LEMMA SecondsGrow ==
  ASSUME NEW c \in Nat, NEW d \in Nat, c <= d
  PROVE  Seconds(c) \in Nat /\ Seconds(c) <= Seconds(d) /\ Seconds(d) \in Nat
    BY DEF Seconds

LEMMA InitInv == Init => Inv
<1> SUFFICES ASSUME Init PROVE Inv
    OBVIOUS
<1> USE DEF Init
<1>1. <<>> \in Seq(Timers) /\ DOMAIN <<>> = {} /\ Len(<<>>) = 0 /\ Range(<<>>) = {}
    BY DEF Range
<1>2. TypeOK
  <2>1. 1 \in 1..MaxClock /\ 0 \in 0..MaxClock /\ 0 \in 0..MaxTimers /\ Seconds(1) = 0
      BY TimerAssumption DEF Seconds
  <2>2. last.id = 0
      BY DEF NoTimer
  <2>3. now \in 0..Seconds(clock)
      BY <2>1
  <2>4. \A i \in DOMAIN heap : heap[i].id \in 1..MaxTimers
      BY <1>1
  <2> QED
      BY <2>1, <2>2, <2>3, <2>4 DEF TypeOK
<1>3. Waiting /\ Running /\ Past /\ RunInOrder
    BY <1>1 DEF Waiting, Running, Past, RunInOrder, Ordered
<1>4. EachRunsOnce
  <2>1. {<<>>[i].id : i \in DOMAIN <<>>} = {} /\ 1..0 = {} /\ last.id = 0
      BY <1>1 DEF NoTimer
  <2> QED
      BY <1>1, <2>1 DEF EachRunsOnce
<1> QED
    BY <1>2, <1>3, <1>4 DEF Inv

LEMMA AddTimerKeeps ==
  ASSUME Inv, NEW delay \in Delays, AddTimer(delay)
  PROVE  Inv'
<1> DEFINE t == Timer(last.id + 1, delay)
<1>1. /\ pc' = pc /\ now' = now /\ clock' = clock /\ ran' = ran /\ last' = t
      /\ heap' = PercolateUp(Append(heap, t), Len(heap) + 1)
      /\ armed' = (IF delay = 0 THEN 0 ELSE clock + 2 * delay) /\ fired' = FALSE
      /\ last.id < MaxTimers /\ clock + 2 * delay <= MaxClock
    BY DEF AddTimer, SetTimer
<1>2. /\ delay \in Nat /\ clock \in Nat /\ clock >= 1 /\ now \in Nat
      /\ now <= Seconds(clock) /\ Seconds(clock) \in Nat /\ last.id \in Nat
      /\ MaxTimers \in Nat /\ MaxClock \in Nat
  <2>1. delay \in Nat /\ MaxTimers \in Nat /\ MaxClock \in Nat
      BY TimerAssumption
  <2>2. clock \in Nat /\ clock >= 1 /\ last.id \in Nat
      BY <2>1 DEF Inv, TypeOK
  <2>3. Seconds(clock) \in Nat
      BY <2>2, SecondsGrow
  <2> QED
      BY <2>1, <2>2, <2>3 DEF Inv, TypeOK
<1>3. /\ t \in Timers /\ t.id = last.id + 1 /\ t.id \in 1..MaxTimers
      /\ t.expire = Seconds(clock) + delay /\ t.added = clock /\ t.delay = delay
      /\ t.expire \in Nat /\ now <= t.expire
    BY <1>1, <1>2 DEF Timer, Timers
<1> HIDE DEF t
<1>4. heap \in Seq(Timers) /\ Ordered(heap)
    BY DEF Inv, Waiting
<1>5. /\ heap' \in Seq(Timers) /\ Len(heap') = Len(heap) + 1
      /\ Range(heap') = Range(heap) \cup {t} /\ Ordered(heap')
    BY <1>1, <1>3, <1>4, PushOrders
<1>6. pc = "callback" => heap # <<>> /\ heap' # <<>> /\ heap'[1] = heap[1]
  <2>1. SUFFICES ASSUME pc = "callback"
                 PROVE  heap # <<>> /\ heap' # <<>> /\ heap'[1] = heap[1]
      OBVIOUS
  <2>2. heap # <<>> /\ heap[1].expire <= now
      BY <2>1 DEF Inv, Running
  <2>3. heap[1].expire \in Nat
    <3>1. heap[1] \in Timers
      BY <1>4, <2>2, EmptySeq, ElementOfSeq
    <3> QED
      BY <3>1 DEF Timers
  <2>4. heap[1].expire <= t.expire
      BY <1>2, <1>3, <2>2, <2>3
  <2>5. heap'[1] = heap[1]
      BY <1>1, <1>3, <1>4, <2>2, <2>4, PushKeepsRoot
  <2>6. heap' # <<>>
      BY <1>4, <1>5
  <2> QED
      BY <2>2, <2>5, <2>6
<1>7. TypeOK'
  <2>1. \A i \in DOMAIN heap' : heap'[i].id \in 1..MaxTimers
    <3>1. \A r \in Range(heap) : r.id \in 1..MaxTimers
      BY DEF Inv, TypeOK, Range
    <3>2. \A r \in Range(heap') : r.id \in 1..MaxTimers
      BY <1>3, <1>5, <3>1
    <3> QED
      BY <3>2 DEF Range
  <2>2. armed' \in 0..MaxClock /\ (armed' # 0 => armed' > clock')
      BY <1>1, <1>2
  <2>3. last'.id \in 0..MaxTimers
      BY <1>1, <1>3
  <2> QED
      BY <1>1, <2>1, <2>2, <2>3 DEF Inv, TypeOK
<1>8. Waiting'
    BY <1>1, <1>2, <1>3, <1>5 DEF Inv, Waiting
<1>9. Running'
    BY <1>1, <1>6 DEF Inv, Running
<1>10. Past'
  <2>1. /\ ran \in Seq(Timers)
        /\ \A r \in Range(ran) : /\ r.expire <= now
                                 /\ \A x \in Range(heap) : r.expire <= x.expire
      BY DEF Inv, Past
  <2>2. \A r \in Range(ran) : r.expire \in Nat
      BY <2>1, RangeOfTimers
  <2>3. \A r \in Range(ran) : r.expire <= t.expire
      BY <1>2, <1>3, <2>1, <2>2
  <2> QED
      BY <1>1, <1>5, <2>1, <2>3 DEF Past
<1>11. EachRunsOnce'
  <2>1. Ids(heap') = Ids(heap) \cup {last.id + 1}
      BY <1>3, <1>5, IdsOfRange
  <2>2. /\ Len(ran) + Len(heap) = last.id + (IF pc = "callback" THEN 1 ELSE 0)
        /\ Ids(ran) \cup Ids(heap) = 1..last.id
        /\ pc = "callback" => Last(ran) = heap[1]
      BY DEF Inv, EachRunsOnce, Ids
  <2>3. Len(ran) \in Nat /\ Len(heap) \in Nat
      BY <1>4 DEF Inv, Past
  <2>4. Len(ran') + Len(heap') = last'.id + (IF pc' = "callback" THEN 1 ELSE 0)
    <3>1. Len(ran') = Len(ran) /\ Len(heap') = Len(heap) + 1 /\ last'.id = last.id + 1
      BY <1>1, <1>3, <1>5
    <3>2. \A a, b, c, d \in Nat : a + b = c + d => a + (b + 1) = c + 1 + d
      OBVIOUS
    <3>3. Len(ran) + (Len(heap) + 1) = last.id + 1 + (IF pc = "callback" THEN 1 ELSE 0)
      BY <1>2, <2>2, <2>3, <3>2
    <3> QED
      BY <1>1, <3>1, <3>3
  <2>5. Ids(ran') \cup Ids(heap') = 1..last'.id
    <3>1. (1..last.id) \cup {last.id + 1} = 1..(last.id + 1)
      BY <1>2
    <3> QED
      BY <1>1, <1>3, <2>1, <2>2, <3>1
  <2>6. pc' = "callback" => Last(ran') = heap'[1]
      BY <1>1, <1>6, <2>2
  <2> QED
      BY <2>4, <2>5, <2>6 DEF EachRunsOnce, Ids
<1>12. RunInOrder'
    BY <1>1 DEF Inv, RunInOrder
<1> QED
    BY <1>7, <1>8, <1>9, <1>10, <1>11, <1>12 DEF Inv

LEMMA RunTimerKeeps ==
  ASSUME Inv, RunTimer
  PROVE  Inv'
<1> DEFINE t == heap[1]
<1>1. /\ pc = "expire" /\ pc' = "callback" /\ ran' = Append(ran, t)
      /\ heap' = heap /\ armed' = armed /\ fired' = fired /\ now' = now
      /\ clock' = clock /\ last' = last
      /\ heap # <<>> /\ t.expire <= now
    BY DEF RunTimer, Due
<1>2. /\ heap \in Seq(Timers) /\ Ordered(heap) /\ ran \in Seq(Timers)
      /\ Len(heap) \in Nat /\ Len(ran) \in Nat /\ 1 \in DOMAIN heap /\ t \in Timers
  <2>1. heap \in Seq(Timers) /\ Ordered(heap) /\ ran \in Seq(Timers)
      BY DEF Inv, Waiting, Past
  <2>2. Len(heap) \in Nat /\ Len(heap) # 0 /\ Len(ran) \in Nat
      BY <1>1, <2>1, EmptySeq
  <2>3. 1 \in 1..Len(heap) /\ DOMAIN heap = 1..Len(heap)
      BY <2>1, <2>2
  <2> QED
      BY <2>1, <2>2, <2>3, ElementOfSeq
<1>3. t \in Range(heap) /\ \A x \in Range(heap) : t.expire <= x.expire
    BY <1>2, RootIsLeast DEF Range
<1> HIDE DEF t
<1>4. /\ ran' \in Seq(Timers) /\ Len(ran') = Len(ran) + 1
      /\ \A i \in 1..Len(ran) : ran'[i] = ran[i]
      /\ ran'[Len(ran) + 1] = t
    BY <1>1, <1>2, AppendProperties
<1>5. Range(ran') = Range(ran) \cup {t}
  <2>1. DOMAIN ran' = 1..(Len(ran) + 1) /\ DOMAIN ran = 1..Len(ran)
        /\ 1..(Len(ran) + 1) = (1..Len(ran)) \cup {Len(ran) + 1}
      BY <1>2, <1>4
  <2> QED
      BY <1>4, <2>1 DEF Range
<1>6. TypeOK'
    BY <1>1 DEF Inv, TypeOK
<1>7. Waiting'
    BY <1>1 DEF Inv, Waiting
<1>8. Running'
  <2>1. ran' # <<>>
      BY <1>1, <1>2, AppendProperties
  <2> QED
      BY <1>1, <2>1 DEF Running, t
<1>9. Past'
    BY <1>1, <1>3, <1>4, <1>5 DEF Inv, Past
<1>10. EachRunsOnce'
  <2>1. /\ Len(ran) + Len(heap) = last.id + 0
        /\ Ids(ran) \cup Ids(heap) = 1..last.id
      BY <1>1 DEF Inv, EachRunsOnce, Ids
  <2>2. Len(ran') + Len(heap') = last'.id + 1
    <3>1. \A a, b \in Nat : \A c : a + b = c + 0 /\ c \in Nat => (a + 1) + b = c + 1
      OBVIOUS
    <3>2. last.id \in Nat
      BY TimerAssumption DEF Inv, TypeOK
    <3> QED
      BY <1>1, <1>2, <1>4, <2>1, <3>1, <3>2
  <2>3. Ids(ran') \cup Ids(heap') = 1..last'.id
    <3>1. Ids(ran') = Ids(ran) \cup {t.id} /\ t.id \in Ids(heap)
      BY <1>3, <1>5, IdsOfRange
    <3> QED
      BY <1>1, <2>1, <3>1
  <2>4. Last(ran') = heap'[1]
      BY <1>1, <1>4 DEF Last, t
  <2> QED
      BY <1>1, <2>2, <2>3, <2>4 DEF EachRunsOnce, Ids
<1>11. RunInOrder'
  <2>1. ASSUME NEW i \in 2..Len(ran') PROVE ran'[i - 1].expire <= ran'[i].expire
    <3>1. i \in 2..(Len(ran) + 1) /\ i - 1 \in 1..Len(ran)
      BY <1>2, <1>4
    <3>2. CASE i \in 2..Len(ran)
      <4>1. i \in 1..Len(ran)
        BY <1>2, <3>2
      <4> QED
        BY <1>4, <3>1, <3>2, <4>1 DEF Inv, RunInOrder
    <3>3. CASE i = Len(ran) + 1
      <4>1. ran'[i - 1] = ran[i - 1] /\ ran'[i] = t /\ ran[i - 1] \in Range(ran)
        BY <1>2, <1>4, <3>1, <3>3 DEF Range
      <4> QED
        BY <1>3, <4>1 DEF Inv, Past
    <3> QED
      BY <1>2, <3>1, <3>2, <3>3
  <2> QED
      BY <2>1 DEF RunInOrder
<1> QED
    BY <1>6, <1>7, <1>8, <1>9, <1>10, <1>11 DEF Inv

LEMMA PopTimerKeeps ==
  ASSUME Inv, PopTimer
  PROVE  Inv'
<1>1. /\ pc = "callback" /\ pc' = "expire" /\ heap' = Pop(heap)
      /\ armed' = armed /\ fired' = fired /\ now' = now /\ clock' = clock
      /\ last' = last /\ ran' = ran
    BY DEF PopTimer
<1>2. heap \in Seq(Timers) /\ Ordered(heap) /\ heap # <<>> /\ ran \in Seq(Timers)
    BY <1>1 DEF Inv, Waiting, Running, Past
<1>3. /\ heap' \in Seq(Timers) /\ Len(heap') = Len(heap) - 1
      /\ Range(heap') \cup {heap[1]} = Range(heap) /\ Ordered(heap')
    BY <1>1, <1>2, PopOrders
<1>4. TypeOK'
  <2>1. \A r \in Range(heap) : r.id \in 1..MaxTimers
      BY DEF Inv, TypeOK, Range
  <2>2. \A i \in DOMAIN heap' : heap'[i].id \in 1..MaxTimers
      BY <1>3, <2>1 DEF Range
  <2> QED
      BY <1>1, <2>2 DEF Inv, TypeOK
<1>5. Waiting'
    BY <1>1, <1>3 DEF Inv, Waiting
<1>6. Running'
    BY <1>1 DEF Running
<1>7. Past'
    BY <1>1, <1>3 DEF Inv, Past
<1>8. EachRunsOnce'
  <2>1. /\ Len(ran) + Len(heap) = last.id + 1
        /\ Ids(ran) \cup Ids(heap) = 1..last.id
        /\ Last(ran) = heap[1]
      BY <1>1 DEF Inv, EachRunsOnce, Ids
  <2>2. Len(heap) \in Nat /\ Len(ran) \in Nat /\ last.id \in Nat
    <3>1. last.id \in Nat
      BY TimerAssumption DEF Inv, TypeOK
    <3> QED
      BY <1>2, <3>1
  <2>3. Len(ran') + Len(heap') = last'.id + 0
    <3>1. \A a, b, c \in Nat : a + b = c + 1 => a + (b - 1) = c + 0
      OBVIOUS
    <3>2. Len(ran) + (Len(heap) - 1) = last.id + 0
      BY <2>1, <2>2, <3>1
    <3> QED
      BY <1>1, <1>3, <3>2
  <2>4. heap[1].id \in Ids(ran)
    <3>1. Len(ran) # 0
      BY <1>1, <1>2, EmptySeq DEF Inv, Running
    <3>2. Last(ran) = ran[Len(ran)] /\ Len(ran) \in DOMAIN ran
      BY <1>2, <2>2, <3>1 DEF Last
    <3> QED
      BY <2>1, <3>2 DEF Ids
  <2>5. Ids(ran') \cup Ids(heap') = 1..last'.id
    <3>1. Ids(heap) = Ids(heap') \cup {heap[1].id}
      BY <1>3, IdsOfRange
    <3> QED
      BY <1>1, <2>1, <2>4, <3>1
  <2> QED
      BY <1>1, <2>3, <2>5 DEF EachRunsOnce, Ids
<1>9. RunInOrder'
    BY <1>1 DEF Inv, RunInOrder
<1> QED
    BY <1>4, <1>5, <1>6, <1>7, <1>8, <1>9 DEF Inv

LEMMA HandleTimeoutEventsKeeps ==
  ASSUME Inv, HandleTimeoutEvents
  PROVE  Inv'
<1>1. /\ pc' = "expire" /\ now' = Seconds(clock) /\ heap' = heap /\ armed' = armed
      /\ fired' = fired /\ clock' = clock /\ last' = last /\ ran' = ran
      /\ pc = "queued"
    BY DEF HandleTimeoutEvents
<1>2. clock \in Nat /\ Seconds(clock) \in Nat /\ now \in Nat /\ now <= Seconds(clock)
  <2>1. clock \in Nat
      BY TimerAssumption DEF Inv, TypeOK
  <2>2. Seconds(clock) \in Nat
      BY <2>1, SecondsGrow
  <2> QED
      BY <2>1, <2>2 DEF Inv, TypeOK
<1>3. TypeOK'
    BY <1>1, <1>2 DEF Inv, TypeOK
<1>4. Past'
  <2>1. /\ ran \in Seq(Timers)
        /\ \A r \in Range(ran) : /\ r.expire <= now
                                 /\ \A x \in Range(heap) : r.expire <= x.expire
      BY DEF Inv, Past
  <2>2. \A r \in Range(ran) : r.expire \in Nat
      BY <2>1, RangeOfTimers
  <2>3. \A r \in Range(ran) : r.expire <= Seconds(clock)
      BY <1>2, <2>1, <2>2
  <2> QED
      BY <1>1, <2>1, <2>3 DEF Past
<1>5. Waiting' /\ Running' /\ EachRunsOnce' /\ RunInOrder'
    BY <1>1 DEF Inv, Waiting, Running, EachRunsOnce, RunInOrder
<1> QED
    BY <1>3, <1>4, <1>5 DEF Inv

LEMMA TickKeeps ==
  ASSUME Inv, Tick
  PROVE  Inv'
<1>1. /\ clock < MaxClock /\ clock' = clock + 1
      /\ fired' = (fired \/ armed = clock + 1)
      /\ armed' = (IF armed = clock + 1 THEN 0 ELSE armed)
      /\ pc' = pc /\ now' = now /\ heap' = heap /\ last' = last /\ ran' = ran
    BY DEF Tick
<1>2. /\ clock \in Nat /\ clock >= 1 /\ now \in Nat /\ MaxClock \in Nat
      /\ armed \in Nat /\ (armed # 0 => armed > clock) /\ armed <= MaxClock
      /\ fired \in BOOLEAN /\ (fired => armed = 0)
  <2>1. MaxClock \in Nat
      BY TimerAssumption
  <2>2. clock \in Nat /\ clock >= 1
      BY <2>1 DEF Inv, TypeOK
  <2>3. Seconds(clock) \in Nat
      BY <2>2, SecondsGrow
  <2> QED
      BY <2>1, <2>2, <2>3 DEF Inv, TypeOK
<1>3. /\ Seconds(clock) \in Nat /\ Seconds(clock') \in Nat
      /\ Seconds(clock) <= Seconds(clock')
    BY <1>1, <1>2, SecondsGrow
<1>4. TypeOK'
  <2>1. now' \in 0..Seconds(clock')
    <3>1. now <= Seconds(clock)
      BY DEF Inv, TypeOK
    <3> QED
      BY <1>1, <1>2, <1>3, <3>1
  <2>2. /\ fired' \in BOOLEAN /\ (fired' => armed' = 0)
        /\ armed' \in 0..MaxClock /\ (armed' # 0 => armed' > clock')
        /\ clock' \in 1..MaxClock
      BY <1>1, <1>2
  <2>3. /\ \A i \in DOMAIN heap' : heap'[i].id \in 1..MaxTimers
        /\ pc' \in {"loop", "polled", "queued", "expire", "callback"}
        /\ last'.id \in 0..MaxTimers
      BY <1>1 DEF Inv, TypeOK
  <2>4. now' \in 0..(Seconds(clock)')
      BY <2>1 DEF Seconds
  <2> QED
      BY <2>2, <2>3, <2>4 DEF TypeOK
<1>5. Waiting'
  <2>1. heap \in Seq(Timers) /\ Ordered(heap)
      BY DEF Inv, Waiting
  <2>2. \A t \in Range(heap) : t.added \in Nat
      BY <2>1, RangeOfTimers
  <2>3. \A t \in Range(heap) : t.expire = Seconds(t.added) + t.delay /\ t.added <= clock
      BY DEF Inv, Waiting
  <2>4. \A t \in Range(heap) : t.added <= clock + 1
      BY <1>2, <2>2, <2>3
  <2> QED
      BY <1>1, <2>1, <2>3, <2>4 DEF Waiting
<1>6. Running' /\ Past' /\ EachRunsOnce' /\ RunInOrder'
    BY <1>1 DEF Inv, Past, Running, EachRunsOnce, RunInOrder
<1> QED
    BY <1>4, <1>5, <1>6 DEF Inv

LEMMA NextKeeps == Inv /\ [Next]_vars => Inv'
<1> SUFFICES ASSUME Inv, [Next]_vars PROVE Inv'
    OBVIOUS
<1>1. ASSUME NEW delay \in Delays, AddTimer(delay) PROVE Inv'
    BY <1>1, AddTimerKeeps
<1>2. CASE HandleTimeoutEvents
    BY <1>2, HandleTimeoutEventsKeeps
<1>3. CASE RunTimer
    BY <1>3, RunTimerKeeps
<1>4. CASE PopTimer
    BY <1>4, PopTimerKeeps
<1>5. CASE Tick
    BY <1>5, TickKeeps
<1>6. ASSUME \/ pc = "loop" /\ pc' = "polled" /\ fired' = fired
             \/ pc = "polled" /\ pc' = "queued" /\ fired' = FALSE
             \/ pc = "expire" /\ pc' = "loop" /\ fired' = fired
             \/ pc' = pc /\ fired' = fired,
             UNCHANGED <<heap, armed, now, clock, last, ran>>
      PROVE  Inv'
  <2>1. TypeOK'
    <3>1. TypeOK
      BY DEF Inv
    <3>2. /\ fired' \in BOOLEAN /\ (fired' => armed' = 0)
          /\ pc' \in {"loop", "polled", "queued", "expire", "callback"}
      <4>1. pc' \in {"loop", "polled", "queued", "expire", "callback"}
        BY <1>6, <3>1 DEF TypeOK
      <4>2. armed' = armed /\ (fired' = fired \/ fired' = FALSE)
        BY <1>6
      <4>3. fired \in BOOLEAN /\ (fired => armed = 0)
        BY <3>1 DEF TypeOK
      <4>4. CASE fired' = fired
        BY <4>1, <4>2, <4>3, <4>4, Zenon
      <4>5. CASE fired' = FALSE
        BY <4>1, <4>5
      <4> QED
        BY <4>2, <4>4, <4>5
    <3>3. /\ \A i \in DOMAIN heap' : heap'[i].id \in 1..MaxTimers
          /\ armed' \in 0..MaxClock /\ (armed' # 0 => armed' > clock')
          /\ now' \in 0..Seconds(clock') /\ clock' \in 1..MaxClock
          /\ last'.id \in 0..MaxTimers
      BY <1>6, <3>1 DEF TypeOK
    <3>4. Seconds(clock') = Seconds(clock)'
      BY DEF Seconds
    <3> QED
      BY <3>2, <3>3, <3>4 DEF TypeOK
  <2>2. Waiting' /\ Running' /\ Past'
      BY <1>6 DEF Inv, Waiting, Running, Past
  <2>3. EachRunsOnce' /\ RunInOrder'
      BY <1>6 DEF Inv, EachRunsOnce, RunInOrder
  <2> QED
      BY <2>1, <2>2, <2>3 DEF Inv
<1>7. CASE Poll \/ HandleRead \/ Finish \/ UNCHANGED vars
    BY <1>6, <1>7 DEF Poll, HandleRead, Finish, vars
<1> QED
    BY <1>1, <1>2, <1>3, <1>4, <1>5, <1>7 DEF Next, LoopStep

LEMMA Invariance == Spec => []Inv
    BY InitInv, NextKeeps, PTL DEF Spec

\* Type correctness; in particular the timerfd never stays armed for a time
\* that has passed, nor armed after it has expired (TimerHeap.cpp:27-35, 93).
THEOREM TypeCorrect == Spec => []TypeOK
<1>1. Inv => TypeOK
    BY DEF Inv
<1> QED
    BY <1>1, Invariance, PTL

\* However the timers expire and whatever their callbacks add, each waits or has
\* run once, and pop() removes the one that ran (TimerHeap.cpp:114-124).
THEOREM TimersRunOnce == Spec => []EachRunsOnce
<1>1. Inv => EachRunsOnce
    BY DEF Inv
<1> QED
    BY <1>1, Invariance, PTL

\* The timers run in the order of their expiry (TimerHeap.cpp:57-106,
\* 114-124).
THEOREM TimersRunInOrder == Spec => []RunInOrder
<1>1. Inv => RunInOrder
    BY DEF Inv
<1> QED
    BY <1>1, Invariance, PTL

\* A timer that is run was added at least its delay ago, but for the part of a
\* second that ::time() cuts off (Timer.h:12, TimerHeap.cpp:116-120).
THEOREM TimersAreNotEarly == Spec => NeverASecondEarly
<1> DEFINE OnTime == ran' # ran => clock + 1 >= heap[1].added + 2 * heap[1].delay
<1>1. Inv /\ [Next]_vars => [OnTime]_vars
  <2> SUFFICES ASSUME Inv, Next, ran' # ran
               PROVE  clock + 1 >= heap[1].added + 2 * heap[1].delay
      BY DEF OnTime
  <2>1. RunTimer
      BY DEF Next, LoopStep, AddTimer, Poll, HandleRead, HandleTimeoutEvents,
             PopTimer, Finish, Tick
  <2>2. heap # <<>> /\ heap[1].expire <= now /\ heap \in Seq(Timers)
      BY <2>1 DEF RunTimer, Due, Inv, Waiting
  <2>3. heap[1] \in Range(heap)
    <3>1. Len(heap) \in Nat /\ Len(heap) # 0 /\ DOMAIN heap = 1..Len(heap)
      BY <2>2, EmptySeq
    <3> QED
      BY <3>1 DEF Range
  <2> DEFINE t == heap[1]
  <2>4. /\ t.expire \in Nat /\ t.added \in Nat /\ t.delay \in Nat
        /\ t.expire = Seconds(t.added) + t.delay
      BY <2>2, <2>3, RangeOfTimers DEF Inv, Waiting
  <2>5. clock \in Nat /\ now \in Nat /\ now <= Seconds(clock)
    <3>1. clock \in Nat
      BY TimerAssumption DEF Inv, TypeOK
    <3>2. Seconds(clock) \in Nat
      BY <3>1, SecondsGrow
    <3> QED
      BY <3>1, <3>2 DEF Inv, TypeOK
  <2>6. \A c, a, d, e, n \in Nat :
          e = a \div 2 + d /\ e <= n /\ n <= c \div 2 => c + 1 >= a + 2 * d
      OBVIOUS
  <2> HIDE DEF t
  <2>7. clock + 1 >= t.added + 2 * t.delay
    <3>1. t.expire <= now
      BY <2>2 DEF t
    <3> QED
      BY <2>4, <2>5, <2>6, <3>1 DEF Seconds
  <2> QED
      BY <2>7 DEF t
<1>2. Spec => [][OnTime]_vars
    BY <1>1, Invariance, PTL DEF Spec
<1> QED
    BY <1>2 DEF NeverASecondEarly
=============================================================================
