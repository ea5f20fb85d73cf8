-------------------------- MODULE EventStreamProofs --------------------------
(* What the methods of EventStream return, for every value of the           *)
(* constants: the lemmas the proofs about InputChannel cite.                *)
EXTENDS EventStream, SequenceTheorems, WellFoundedInduction, TLAPS

----------------------------------------------------------------------------
(* Least and greatest elements.                                             *)

LessThan == {ss \in Nat \X Nat : ss[1] < ss[2]}

\* The order of the natural numbers is well founded.
LEMMA LessThanWellFounded == IsWellFoundedOn(LessThan, Nat)
  BY NatLessThanWellFounded DEF OpToRel, LessThan

\* A non-empty set of natural numbers has a least element.
LEMMA Least ==
  ASSUME NEW T, T \subseteq Nat, T # {}
  PROVE  \E m \in T : \A n \in T : m <= n
<1>1. PICK m \in T : \A n \in T : ~ (<<n, m>> \in LessThan)
  BY LessThanWellFounded, WFMin
<1>2. \A n \in T : ~ (n < m)
  BY <1>1 DEF LessThan
<1> QED BY <1>2

\* Max returns the greatest element of a bounded set of natural numbers.
LEMMA MaxOfBounded ==
  ASSUME NEW T, T \subseteq Nat, T # {}, NEW b \in Nat, \A x \in T : x <= b
  PROVE  Max(T) \in T /\ \A x \in T : x <= Max(T)
<1> DEFINE Below == {b - x : x \in T}
<1>0. Below \subseteq Nat /\ Below # {}
  <2>1. \A x \in T : b - x \in Nat
    OBVIOUS
  <2> QED BY <2>1
<1>1. PICK m \in Below : \A n \in Below : m <= n
  <2> HIDE DEF Below
  <2> QED BY <1>0, Least
<1>2. PICK x \in T : m = b - x
  OBVIOUS
<1>3. \A y \in T : x >= y
  BY <1>1, <1>2
<1> QED BY <1>2, <1>3 DEF Max

\* The greatest element of a set of indices up to one of them.
LEMMA TopOfRange ==
  ASSUME NEW m \in Nat, NEW s, s \subseteq 1..m, m \in s
  PROVE  Max(s) = m
<1>1. s \subseteq Nat /\ s # {} /\ \A x \in s : x <= m
  OBVIOUS
<1>2. Max(s) \in s /\ \A x \in s : x <= Max(s)
  BY <1>1, MaxOfBounded
<1> DEFINE top == Max(s)
<1>3. top \in Nat /\ top <= m /\ m <= top
  BY <1>1, <1>2
<1> HIDE DEF top
<1>4. top = m
  BY <1>3
<1> QED BY <1>4 DEF top

\* Induction up to a bound, with the indices for which a claim holds as a set.
LEMMA CountingUp ==
  ASSUME NEW n \in Nat, NEW Good, 0 \in Good, \A k \in 1..n : k - 1 \in Good => k \in Good
  PROVE  \A k \in 0..n : k \in Good
<1> DEFINE Bad == {k \in 0..n : k \notin Good}
<1> SUFFICES ASSUME Bad # {} PROVE FALSE
  OBVIOUS
<1>1. PICK k \in Bad : \A i \in Bad : k <= i
  <2>1. Bad \subseteq Nat
    OBVIOUS
  <2> HIDE DEF Bad
  <2> QED BY <2>1, Least
<1>2. k \in 0..n /\ k \notin Good
  OBVIOUS
<1>3. k # 0
  BY <1>2
<1>4. k \in 1..n /\ k - 1 \in 0..n /\ ~(k <= k - 1)
  BY <1>2, <1>3
<1>5. k - 1 \in Good
  BY <1>1, <1>4
<1> QED BY <1>2, <1>4, <1>5

\* start and step say what a function of the numbers up to n is at 0 and what it
\* becomes at each next one, all within V.
StepsWithin(n, V, start, step) ==
  n \in Nat /\ start \in V /\ \A k \in 1..n, x \in V : step[k][x] \in V

FollowsSteps(n, V, start, step, g) ==
  g \in [0..n -> V] /\ g[0] = start /\ \A k \in 1..n : g[k] = step[k][g[k - 1]]

\* There is such a function: what a recursive definition stands for exists.
LEMMA Recursion ==
  ASSUME NEW n, NEW V, NEW start, NEW step, StepsWithin(n, V, start, step)
  PROVE  \E g : FollowsSteps(n, V, start, step, g)
<1>0. n \in Nat /\ start \in V /\ \A k \in 1..n, x \in V : step[k][x] \in V
  BY DEF StepsWithin
<1> DEFINE Defines(g, m) == /\ g \in [0..m -> V] /\ g[0] = start
                            /\ \A k \in 1..m : g[k] = step[k][g[k - 1]]
           Good == {m \in 0..n : \E g : Defines(g, m)}
<1>1. 0 \in Good
  <2> DEFINE g == [k \in 0..0 |-> start]
  <2>1. Defines(g, 0) /\ 0 \in 0..n
    BY <1>0
  <2> HIDE DEF g
  <2> QED BY <2>1, Zenon
<1>2. ASSUME NEW m \in 1..n, m - 1 \in Good
      PROVE  m \in Good
  <2>1. PICK g : Defines(g, m - 1)
    BY <1>2, Zenon
  <2>2. m \in Nat \ {0} /\ m - 1 \in Nat /\ m - 1 \in 0..m - 1 /\ m \in 0..n
    BY <1>0
  <2> DEFINE h == [k \in 0..m |-> IF k = m THEN step[m][g[m - 1]] ELSE g[k]]
  <2>3. \A k \in 0..m : k = m \/ k \in 0..m - 1
    BY <2>2
  <2>4. step[m][g[m - 1]] \in V
    BY <1>0, <2>1, <2>2
  <2>5. h \in [0..m -> V]
    BY <2>1, <2>3, <2>4
  <2>6. \A k \in 0..m - 1 : k \in 0..m /\ k # m
    BY <2>2
  <2>7. \A k \in 0..m - 1 : h[k] = g[k]
    BY <2>6
  <2>8. h[m] = step[m][g[m - 1]]
    BY <2>2
  <2>9. \A k \in 1..m : (k = m \/ k \in 1..m - 1) /\ k - 1 \in 0..m - 1
    BY <2>2
  <2>10. \A k \in 1..m - 1 : k \in 0..m - 1
    BY <2>2
  <2>11. 0 \in 0..m - 1
    BY <2>2
  <2> HIDE DEF h
  <2>12. Defines(h, m)
    BY <2>1, <2>5, <2>7, <2>8, <2>9, <2>10, <2>11
  <2> QED BY <2>2, <2>12, Zenon
<1>3. n \in Good
  <2>1. n \in 0..n
    BY <1>0
  <2> HIDE DEF Good
  <2> QED BY <1>0, <1>1, <1>2, <2>1, CountingUp
<1>4. PICK g : Defines(g, n)
  BY <1>3, Zenon
<1>5. FollowsSteps(n, V, start, step, g)
  BY <1>4 DEF FollowsSteps
<1> QED BY <1>5

\* The two parts of a concatenation.
LEMMA ConcatParts ==
  ASSUME NEW S, NEW t \in Seq(S), NEW u \in Seq(S)
  PROVE  /\ t \o u \in Seq(S) /\ Len(t \o u) = Len(t) + Len(u)
         /\ \A k \in 1..Len(t) : (t \o u)[k] = t[k]
         /\ \A k \in 1..Len(u) : (t \o u)[Len(t) + k] = u[k]
<1> DEFINE c == t \o u
<1>1. Len(t) \in Nat /\ Len(u) \in Nat
  BY LenProperties
<1>2. /\ c \in Seq(S) /\ Len(c) = Len(t) + Len(u)
      /\ \A i \in 1..Len(t) + Len(u) :
           c[i] = IF i <= Len(t) THEN t[i] ELSE u[i - Len(t)]
  BY ConcatProperties
<1> HIDE DEF c
<1>3. \A k \in 1..Len(t) : c[k] = t[k]
  BY <1>1, <1>2
<1>4. ASSUME NEW k \in 1..Len(u) PROVE c[Len(t) + k] = u[k]
  <2> DEFINE i == Len(t) + k
  <2>1. i \in 1..Len(t) + Len(u) /\ ~(i <= Len(t)) /\ i - Len(t) = k
    BY <1>1
  <2> HIDE DEF i
  <2>2. c[i] = u[k]
    BY <1>2, <2>1
  <2> QED BY <2>2 DEF i
<1> QED BY <1>2, <1>3, <1>4 DEF c

\* A sequence without its first entries.
LEMMA RestOfSeq ==
  ASSUME NEW S, NEW t \in Seq(S), NEW gone \in 0..Len(t)
  PROVE  LET rest == SubSeq(t, gone + 1, Len(t)) IN
         /\ rest \in Seq(S) /\ Len(rest) = Len(t) - gone
         /\ \A k \in 1..Len(rest) : rest[k] = t[gone + k]
<1> DEFINE rest == SubSeq(t, gone + 1, Len(t))
<1>1. Len(t) \in Nat /\ \A k \in 1..Len(t) : t[k] \in S
  BY LenProperties, ElementOfSeq
<1>2. gone + 1 \in Int /\ \A i \in gone + 1..Len(t) : t[i] \in S
  BY <1>1
<1>3. /\ rest \in Seq(S)
      /\ Len(rest) = IF gone + 1 <= Len(t) THEN Len(t) - (gone + 1) + 1 ELSE 0
      /\ \A i \in 1..Len(t) - (gone + 1) + 1 : rest[i] = t[gone + 1 + i - 1]
  BY <1>1, <1>2, SubSeqProperties
<1> HIDE DEF rest
<1>4. Len(rest) = Len(t) - gone
  BY <1>1, <1>3
<1>5. ASSUME NEW k \in 1..Len(rest) PROVE rest[k] = t[gone + k]
  <2>1. k \in 1..Len(t) - (gone + 1) + 1 /\ gone + 1 + k - 1 = gone + k
    BY <1>1, <1>4
  <2> QED BY <1>3, <2>1
<1> QED BY <1>3, <1>4, <1>5 DEF rest

----------------------------------------------------------------------------
(* Bytes.                                                                   *)

\* EncodedLength counts the bytes of one event after the other.
LEMMA EncodedSums ==
  ASSUME NEW events \in Seq(Event)
  PROVE  /\ EncodedLength(events)[0] = 0
         /\ \A k \in 0..Len(events) : EncodedLength(events)[k] \in Nat
         /\ \A k \in 1..Len(events) :
              EncodedLength(events)[k] = EncodedLength(events)[k - 1] + Size[events[k]]
<1> DEFINE n == Len(events)
           Sums(g) == g = [k \in 0..n |-> IF k = 0 THEN 0 ELSE g[k - 1] + Size[events[k]]]
           total == EncodedLength(events)
<1>1. n \in Nat /\ \A k \in 1..n : events[k] \in Event /\ Size[events[k]] \in Nat
  BY EventAssumption, LenProperties, ElementOfSeq
<1>2. \E g : Sums(g)
  <2> DEFINE step == [k \in 1..n |-> [x \in Nat |-> x + Size[events[k]]]]
  <2>2. \A k \in 1..n, x \in Nat : step[k][x] = x + Size[events[k]]
    OBVIOUS
  <2> HIDE DEF step, n
  <2>1. StepsWithin(n, Nat, 0, step)
    <3>1. ASSUME NEW k \in 1..n, NEW x \in Nat PROVE step[k][x] \in Nat
      <4>1. step[k][x] = x + Size[events[k]] /\ Size[events[k]] \in Nat
        BY <1>1, <2>2
      <4> QED BY <4>1
    <3> QED BY <1>1, <3>1 DEF StepsWithin
  <2>3. PICK g : FollowsSteps(n, Nat, 0, step, g)
    BY <2>1, Recursion
  <2>4. /\ g \in [0..n -> Nat] /\ g[0] = 0
        /\ \A k \in 1..n : g[k] = step[k][g[k - 1]]
    BY <2>3 DEF FollowsSteps
  <2>7. \A k \in 0..n : k # 0 => k \in 1..n /\ k - 1 \in 0..n
    BY <1>1
  <2>8. \A k \in 0..n : g[k] = IF k = 0 THEN 0 ELSE g[k - 1] + Size[events[k]]
    BY <2>2, <2>4, <2>7
  <2>9. g = [k \in 0..n |-> g[k]]
    BY <2>4
  <2>10. Sums(g)
    BY <2>8, <2>9, Zenon
  <2> QED BY <2>10, Zenon
<1>3. Sums(total)
  <2>1. total = CHOOSE g : Sums(g)
    BY Zenon DEF EncodedLength
  <2> HIDE DEF total, Sums
  <2> QED BY <1>2, <2>1, Zenon
<1> HIDE DEF total, n
<1>4. total[0] = 0
  BY <1>1, <1>3
<1>5. \A k \in 1..n : k \in 0..n /\ k # 0
  BY <1>1
<1>6. \A k \in 1..n : total[k] = total[k - 1] + Size[events[k]]
  BY <1>3, <1>5
<1>7. \A k \in 0..n : total[k] \in Nat
  <2> DEFINE Good == {k \in 0..n : total[k] \in Nat}
  <2>1. 0 \in Good
    BY <1>1, <1>4
  <2>2. \A k \in 1..n : k - 1 \in Good => k \in Good
    BY <1>1, <1>5, <1>6
  <2>3. \A k \in 0..n : k \in Good
    <3> HIDE DEF Good
    <3> QED BY <1>1, <2>1, <2>2, CountingUp
  <2> QED BY <2>3
<1> QED BY <1>4, <1>6, <1>7 DEF total, n

\* Equal pieces of two sequences take the same number of bytes.
LEMMA EqualPieces ==
  ASSUME NEW x \in Seq(Event), NEW y \in Seq(Event), NEW n \in 0..Len(x), NEW off \in Nat,
         off + n <= Len(y), \A k \in 1..n : x[k] = y[off + k]
  PROVE  \A k \in 0..n :
           EncodedLength(x)[k] = EncodedLength(y)[off + k] - EncodedLength(y)[off]
<1> DEFINE ex == EncodedLength(x)
           ey == EncodedLength(y)
           Good == {k \in 0..n : ex[k] = ey[off + k] - ey[off]}
<1>1. Len(x) \in Nat /\ Len(y) \in Nat /\ n \in Nat /\ n <= Len(x)
      /\ \A k \in 1..Len(x) : x[k] \in Event /\ Size[x[k]] \in Nat
  BY EventAssumption, LenProperties, ElementOfSeq
<1>2. /\ ex[0] = 0 /\ \A k \in 1..Len(x) : ex[k] = ex[k - 1] + Size[x[k]]
      /\ \A k \in 0..Len(x) : ex[k] \in Nat
  BY EncodedSums
<1>3. /\ \A k \in 1..Len(y) : ey[k] = ey[k - 1] + Size[y[k]]
      /\ \A k \in 0..Len(y) : ey[k] \in Nat
  BY EncodedSums
<1> HIDE DEF ex, ey
<1>4. 0 \in Good
  <2>1. off \in 0..Len(y) /\ off + 0 = off
    BY <1>1
  <2> QED BY <1>1, <1>2, <1>3, <2>1
<1>5. ASSUME NEW k \in 1..n, k - 1 \in Good PROVE k \in Good
  <2> DEFINE j == off + k
  <2>1. /\ k \in 1..Len(x) /\ j \in 1..Len(y) /\ off \in 0..Len(y)
        /\ j - 1 \in 0..Len(y) /\ k - 1 \in 0..Len(x) /\ off + (k - 1) = j - 1
    BY <1>1
  <2>2. ex[k - 1] = ey[j - 1] - ey[off]
    BY <1>5, <2>1
  <2>3. x[k] = y[j]
    OBVIOUS
  <2> HIDE DEF j
  <2>4. ex[k] = ex[k - 1] + Size[x[k]] /\ ey[j] = ey[j - 1] + Size[x[k]]
    BY <1>2, <1>3, <2>1, <2>3
  <2>5. ex[k - 1] \in Nat /\ ey[j - 1] \in Nat /\ ey[off] \in Nat /\ Size[x[k]] \in Nat
    BY <1>1, <1>2, <1>3, <2>1
  <2>6. ex[k] = ey[j] - ey[off]
    <3> DEFINE a == ex[k - 1]
               b == ey[j - 1]
               c == ey[off]
               d == Size[x[k]]
    <3>1. ex[k] = a + d /\ ey[j] = b + d /\ a = b - c
      BY <2>2, <2>4
    <3>2. a \in Nat /\ b \in Nat /\ c \in Nat /\ d \in Nat
      BY <2>5
    <3> HIDE DEF a, b, c, d
    <3>3. a + d = (b + d) - c
      BY <3>1, <3>2
    <3> QED BY <3>1, <3>3 DEF c
  <2>7. k \in 0..n
    BY <1>1
  <2> QED BY <2>6, <2>7 DEF j
<1>6. \A k \in 0..n : k \in Good
  <2> HIDE DEF Good
  <2> QED BY <1>1, <1>4, <1>5, CountingUp
<1> QED BY <1>6 DEF ex, ey

\* Sequences that agree up to a length take the same number of bytes so far.
LEMMA SameBytes ==
  ASSUME NEW x \in Seq(Event), NEW y \in Seq(Event), NEW n \in Nat,
         n <= Len(x), n <= Len(y), \A k \in 1..n : x[k] = y[k]
  PROVE  EncodedLength(x)[n] = EncodedLength(y)[n]
<1>1. Len(x) \in Nat /\ Len(y) \in Nat
  BY LenProperties
<1> DEFINE off == 0
<1>2. n \in 0..Len(x) /\ off \in Nat /\ off + n <= Len(y) /\ \A k \in 1..n : x[k] = y[off + k]
  BY <1>1
<1>3. off + n = n /\ n \in 0..n
  BY <1>1
<1>4. EncodedLength(y)[off] = 0 /\ EncodedLength(y)[n] \in Nat
  BY <1>1, EncodedSums
<1> HIDE DEF off
<1>5. EncodedLength(x)[n] = EncodedLength(y)[off + n] - EncodedLength(y)[off]
  BY <1>2, <1>3, EqualPieces
<1> QED BY <1>3, <1>4, <1>5

----------------------------------------------------------------------------
(* The sender.                                                              *)

\* push_clipboard() queues no more pieces than it was given, and each fits.
LEMMA FittingType ==
  ASSUME NEW s, NEW events \in Seq(Event)
  PROVE  /\ Fitting(s, events) \in 0..Len(events)
         /\ \A k \in 1..Fitting(s, events) : Fits(s, events, k)
<1> DEFINE Stops == {n \in 0..Len(events) :
                       n < Len(events) => ~Fits(s, events, n + 1)}
<1>0. Len(events) \in Nat
  BY LenProperties
<1>1. PICK n \in Stops : \A m \in Stops : n <= m
  <2>1. Len(events) \in Stops /\ Stops \subseteq Nat
    BY <1>0
  <2> HIDE DEF Stops
  <2> QED BY <2>1, Least
<1>2. ASSUME NEW k \in 1..n PROVE Fits(s, events, k)
  <2> SUFFICES ASSUME ~Fits(s, events, k) PROVE FALSE
    OBVIOUS
  <2>1. k - 1 \in 0..Len(events) /\ (k - 1) + 1 = k
    BY <1>0
  <2>2. k - 1 \in Stops
    BY <2>1
  <2>3. n <= k - 1
    BY <1>1, <2>2
  <2> QED BY <1>0, <2>3
<1> QED BY <1>1, <1>2 DEF Fitting

\* The entries an acknowledgement lets go of: the queue being numbered without
\* gaps from `front`, those up to n.
LEMMA AcknowledgedCount ==
  ASSUME NEW queue \in Seq(Entry), NEW n \in Nat, NEW front \in Nat \ {0},
         \A k \in 1..Len(queue) : queue[k].seq = front + k - 1
  PROVE  /\ Acknowledged(queue, n) \in 0..Len(queue)
         /\ \A k \in 1..Acknowledged(queue, n) : front + k - 1 <= n
         /\ Acknowledged(queue, n) < Len(queue) =>
              front + Acknowledged(queue, n) > n
<1> DEFINE Counts(k) == /\ \A i \in 1..k : queue[i].seq <= n
                        /\ k < Len(queue) => queue[k + 1].seq > n
<1>1. Len(queue) \in Nat
  BY LenProperties
<1>2. \E k \in 0..Len(queue) : Counts(k)
  <2>1. CASE n < front
    <3>1. Counts(0)
      BY <1>1, <2>1
    <3> QED BY <1>1, <3>1
  <2>2. CASE n >= front + Len(queue)
    <3>1. Counts(Len(queue))
      BY <1>1, <2>2
    <3> QED BY <1>1, <3>1
  <2>3. CASE front <= n /\ n < front + Len(queue)
    <3> DEFINE c == n - front + 1
    <3>1. c \in 1..Len(queue) /\ front + c - 1 = n
      BY <1>1, <2>3
    <3> HIDE DEF c
    <3>2. \A i \in 1..c : queue[i].seq <= n
      BY <1>1, <3>1
    <3>3. c < Len(queue) => queue[c + 1].seq > n
      BY <1>1, <3>1
    <3> QED BY <3>1, <3>2, <3>3
  <2> QED BY <1>1, <2>1, <2>2, <2>3
<1>3. /\ Acknowledged(queue, n) \in 0..Len(queue)
      /\ Counts(Acknowledged(queue, n))
  BY <1>2 DEF Acknowledged
<1> QED BY <1>1, <1>3

\* What push() adds to the queue.
LEMMA NumberedEntries ==
  ASSUME NEW first \in Nat \ {0}, NEW events \in Seq(Event)
  PROVE  /\ Numbered(first, events) \in Seq(Entry)
         /\ Len(Numbered(first, events)) = Len(events)
         /\ \A k \in 1..Len(events) :
              Numbered(first, events)[k] = [seq |-> first + k - 1, event |-> events[k]]
<1>1. Len(events) \in Nat /\ \A k \in 1..Len(events) : events[k] \in Event
  BY LenProperties, ElementOfSeq
<1>2. \A k \in 1..Len(events) : [seq |-> first + k - 1, event |-> events[k]] \in Entry
  BY <1>1 DEF Entry
<1> QED BY <1>1, <1>2 DEF Numbered

\* Every packet of a window carries consecutive entries of the queue, and the
\* sequence of its first entry as its base.
LEMMA WindowPacket ==
  ASSUME NEW queue \in Seq(Entry), NEW from, NEW p \in WindowPackets(queue, from)
  PROVE  \E a, b \in 1..Len(queue) :
           /\ a <= b
           /\ p.base = queue[1].seq /\ p.first = queue[a].seq
           /\ p \in Packet /\ Len(p.events) = b - a + 1
           /\ \A k \in 1..b - a + 1 : p.events[k] = queue[a + k - 1].event
<1>1. Len(queue) \in Nat /\ \A k \in 1..Len(queue) : queue[k] \in Entry
  BY LenProperties, ElementOfSeq
<1>2. PICK ab \in Runs(queue, from) : p = PacketOf(queue, ab[1], ab[2])
  BY DEF WindowPackets
<1> DEFINE a == ab[1]
           b == ab[2]
           part == SubSeq(queue, a, b)
<1>3. a \in 1..Len(queue) /\ b \in 1..Len(queue) /\ a <= b
  BY DEF Runs, Sendable, Window
<1> HIDE DEF a, b
<1>4. \A i \in a..b : queue[i] \in Entry
  BY <1>1, <1>3
<1>5. /\ part \in Seq(Entry) /\ Len(part) = b - a + 1
      /\ \A i \in 1..b - a + 1 : part[i] = queue[a + i - 1]
  BY <1>1, <1>3, <1>4, SubSeqProperties
<1>6. p = [base |-> queue[1].seq, first |-> queue[a].seq,
           events |-> QueuedEvents(part)]
  BY <1>2 DEF PacketOf, a, b
<1> HIDE DEF part
<1>7. /\ QueuedEvents(part) \in Seq(Event)
      /\ Len(QueuedEvents(part)) = b - a + 1
      /\ \A k \in 1..b - a + 1 : QueuedEvents(part)[k] = queue[a + k - 1].event
  <2>0. \A k \in 1..Len(part) : part[k] \in Entry
    BY <1>5, ElementOfSeq
  <2>1. \A k \in 1..Len(part) : part[k].event \in Event
    BY <2>0 DEF Entry
  <2>2. b - a + 1 \in Nat
    BY <1>3
  <2> QED BY <1>5, <2>1, <2>2 DEF QueuedEvents
<1>8. queue[1].seq \in Nat \ {0} /\ queue[a].seq \in Nat \ {0}
  BY <1>1, <1>3 DEF Entry
<1>9. p \in Packet
  BY <1>6, <1>7, <1>8 DEF Packet
<1> QED BY <1>3, <1>6, <1>7, <1>9

\* sent_through stays below the next sequence.
LEMMA SentThroughBound ==
  ASSUME NEW s, s.queue \in Seq(Entry), NEW from, s.next \in Nat \ {0},
         s.sentThrough \in 0..s.next - 1,
         \A k \in 1..Len(s.queue) : s.queue[k].seq \in 0..s.next - 1
  PROVE  Sent(s, from).sentThrough \in 0..s.next - 1
<1> DEFINE sent == {s.sentThrough} \cup {s.queue[k].seq : k \in Sendable(s.queue, from)}
<1>1. sent \subseteq 0..s.next - 1
  BY DEF Sendable, Window
<1>2. sent \subseteq Nat /\ sent # {} /\ s.next - 1 \in Nat /\ \A x \in sent : x <= s.next - 1
  BY <1>1
<1>3. Sent(s, from).sentThrough = Max(sent)
  BY DEF Sent
<1> HIDE DEF sent
<1>4. Max(sent) \in sent
  BY <1>2, MaxOfBounded
<1> QED BY <1>1, <1>3, <1>4

\* Opener: an entry joins the packet that is open, or opens one.
LEMMA OpenerSteps ==
  ASSUME NEW queue \in Seq(Entry), NEW from
  PROVE  \A k \in 1..Len(queue) :
           LET last == Opener(queue, from)[k - 1]
               bytes == QueueLength(queue)
           IN  Opener(queue, from)[k] =
                 IF last \in Sendable(queue, from) /\ bytes[k] - bytes[last - 1] <= MaxPayload
                 THEN last ELSE k
<1> DEFINE n == Len(queue)
           bytes == QueueLength(queue)
           Joins(last, k) == last \in Sendable(queue, from)
                             /\ bytes[k] - bytes[last - 1] <= MaxPayload
           Opens(g) == g = [k \in 0..n |-> IF k = 0 THEN 0
                                           ELSE IF Joins(g[k - 1], k) THEN g[k - 1] ELSE k]
           opener == Opener(queue, from)
<1>1. n \in Nat
  BY LenProperties
<1>2. opener = CHOOSE g : Opens(g)
  BY Zenon DEF Opener
<1> HIDE DEF bytes, opener, Joins
<1>3. \E g : Opens(g)
  <2> DEFINE step == [k \in 1..n |-> [x \in 0..n |-> IF Joins(x, k) THEN x ELSE k]]
             V == 0..n
             zero == 0
  <2>1. \A k \in 1..n, x \in V : step[k][x] = IF Joins(x, k) THEN x ELSE k
    OBVIOUS
  <2>2. n \in Nat /\ zero \in V /\ \A k \in 1..n : k \in V
    BY <1>1
  <2>3. zero = 0
    OBVIOUS
  <2>4. \A k \in 0..n : k \in V /\ (k # 0 => k \in 1..n /\ k - 1 \in V)
    BY <1>1
  <2> HIDE DEF step, n, V, zero
  <2>5. StepsWithin(n, V, zero, step)
    BY <2>1, <2>2 DEF StepsWithin
  <2>6. PICK g : FollowsSteps(n, V, zero, step, g)
    BY <2>5, Recursion
  <2>7. /\ g \in [0..n -> V] /\ g[0] = 0
        /\ \A k \in 1..n : g[k] = step[k][g[k - 1]]
    BY <2>3, <2>6 DEF FollowsSteps
  <2>8. ASSUME NEW k \in 0..n
        PROVE  g[k] = IF k = 0 THEN 0 ELSE IF Joins(g[k - 1], k) THEN g[k - 1] ELSE k
    <3>1. CASE k = 0
      BY <2>7, <3>1
    <3>2. CASE k # 0
      <4>1. k \in 1..n /\ k - 1 \in 0..n
        BY <2>4, <3>2 DEF V
      <4>2. g[k] = step[k][g[k - 1]] /\ g[k - 1] \in V
        BY <2>7, <4>1
      <4> QED BY <2>1, <3>2, <4>1, <4>2
    <3> QED BY <3>1, <3>2
  <2>9. g = [k \in 0..n |-> g[k]]
    BY <2>7
  <2>10. Opens(g)
    BY <2>8, <2>9, Zenon
  <2> QED BY <2>10, Zenon
<1>4. Opens(opener)
  <2> HIDE DEF Opens
  <2> QED BY <1>2, <1>3, Zenon
<1>5. \A k \in 1..n : k \in 0..n /\ k # 0
  BY <1>1
<1>6. \A k \in 1..n : opener[k] = IF Joins(opener[k - 1], k) THEN opener[k - 1] ELSE k
  BY <1>4, <1>5, Zenon
<1> QED BY <1>6, Zenon DEF Joins, opener, n, bytes

\* The events of a queue.
LEMMA QueuedType ==
  ASSUME NEW queue \in Seq(Entry)
  PROVE  /\ QueuedEvents(queue) \in Seq(Event) /\ Len(QueuedEvents(queue)) = Len(queue)
         /\ \A k \in 1..Len(queue) : QueuedEvents(queue)[k] = queue[k].event
<1>1. Len(queue) \in Nat /\ \A k \in 1..Len(queue) : queue[k] \in Entry
  BY LenProperties, ElementOfSeq
<1>2. \A k \in 1..Len(queue) : queue[k].event \in Event
  BY <1>1 DEF Entry
<1> QED BY <1>1, <1>2 DEF QueuedEvents

\* A packet fits, and unless it begins at the front of the queue so does the
\* part of the queue up to its end in the window.
LEMMA PacketSize ==
  ASSUME NEW queue \in Seq(Entry), NEW from, NEW p \in WindowPackets(queue, from)
  PROVE  \E a, b \in 1..Len(queue) :
           /\ a <= b
           /\ p.base = queue[1].seq /\ p.first = queue[a].seq
           /\ p.events \in Seq(Event) /\ Len(p.events) = b - a + 1
           /\ EncodedLength(p.events)[Len(p.events)] <= MaxPayload
           /\ a # 1 => QueueLength(queue)[b] <= WindowBytes
<1>1. PICK ab \in Runs(queue, from) : p = PacketOf(queue, ab[1], ab[2])
  BY DEF WindowPackets
<1> DEFINE n == Len(queue)
           a == ab[1]
           b == ab[2]
           part == SubSeq(queue, a, b)
           bytes == QueueLength(queue)
           opener == Opener(queue, from)
<1>2. /\ a \in 1..n /\ b \in 1..n /\ a <= b
      /\ b # 1 => bytes[b] <= WindowBytes
      /\ opener[b] = a /\ n \in Nat
  BY LenProperties DEF Runs, Sendable, Window
<1>3. /\ p.base = queue[1].seq /\ p.first = queue[a].seq /\ p.events = QueuedEvents(part)
  BY <1>1 DEF PacketOf
<1>4. bytes = EncodedLength(QueuedEvents(queue))
  BY DEF QueueLength
<1>5. \A k \in 1..n : opener[k] = k \/ (opener[k] = opener[k - 1]
        /\ bytes[k] - bytes[opener[k - 1] - 1] <= MaxPayload)
  BY OpenerSteps, Zenon
<1> HIDE DEF a, b, n, bytes, opener
<1>6. b # a => bytes[b] - bytes[a - 1] <= MaxPayload
  BY <1>2, <1>5
<1>7. /\ part \in Seq(Entry) /\ Len(part) = b - a + 1
      /\ \A i \in 1..b - a + 1 : part[i] = queue[a + i - 1]
  <2>1. \A i \in a..b : queue[i] \in Entry
    BY <1>2, ElementOfSeq DEF n
  <2>2. a \in Int /\ b \in Int
    BY <1>2
  <2> QED BY <1>2, <2>1, <2>2, SubSeqProperties
<1> HIDE DEF part
<1> DEFINE x == QueuedEvents(part)
           y == QueuedEvents(queue)
           off == a - 1
           c == b - a + 1
<1>8. /\ x \in Seq(Event) /\ Len(x) = c /\ \A k \in 1..c : x[k] = part[k].event
      /\ y \in Seq(Event) /\ Len(y) = n /\ \A k \in 1..n : y[k] = queue[k].event
  BY <1>7, QueuedType DEF n
<1>9. /\ c \in Nat \ {0} /\ off \in Nat /\ off + c = b /\ off + c <= n
      /\ \A k \in 1..c : off + k \in 1..n /\ a + k - 1 = off + k
  BY <1>2
<1>10. \A k \in 1..c : x[k] = y[off + k]
  BY <1>7, <1>8, <1>9
<1>11. bytes = EncodedLength(y) /\ c \in 0..c /\ c \in 1..c
  BY <1>4, <1>9
<1> HIDE DEF x, y, c, off
<1>12. EncodedLength(x)[c] = bytes[b] - bytes[off]
  <2>1. \A k \in 0..c : EncodedLength(x)[k] = EncodedLength(y)[off + k] - EncodedLength(y)[off]
    BY <1>8, <1>9, <1>10, <1>11, EqualPieces
  <2> QED BY <1>9, <1>11, <2>1
<1>13. EncodedLength(x)[c] <= MaxPayload
  <2>1. CASE b # a
    BY <1>6, <1>12, <2>1 DEF off
  <2>2. CASE b = a
    <3>1. c = 1
      BY <1>2, <2>2 DEF c
    <3>2. EncodedLength(x)[0] = 0 /\ EncodedLength(x)[1] = EncodedLength(x)[1 - 1] + Size[x[1]]
      BY <1>8, <1>11, <3>1, EncodedSums
    <3>3. x[1] \in Event
      BY <1>8, <1>11, <3>1, ElementOfSeq
    <3>4. Size[x[1]] \in Nat /\ Size[x[1]] <= MaxPayload
      BY <3>3, EventAssumption, BoundAssumption
    <3> QED BY <3>1, <3>2, <3>4
  <2> QED BY <2>1, <2>2
<1>14. a # 1 => bytes[b] <= WindowBytes
  BY <1>2
<1>15. p.events = x /\ Len(x) = b - a + 1
  BY <1>3, <1>8 DEF x, c
<1> QED BY <1>2, <1>3, <1>8, <1>13, <1>14, <1>15 DEF n, bytes

----------------------------------------------------------------------------
(* The receiver.                                                            *)

\* receive() applies the events of the packet between the point it skips to
\* and the point it acknowledges, which come without a gap.
LEMMA ReceivedEvents ==
  ASSUME NEW applied \in Nat, NEW p \in Packet, Len(p.events) > 0
  PROVE  LET more == AppliedEvents(applied, p)
             base == Base(applied, p)
         IN  /\ base \in Nat /\ base >= applied /\ base >= p.base - 1
             /\ base = applied \/ base = p.base - 1
             /\ Received(applied, p) \in Nat
             /\ more \in Seq(Event) /\ Len(more) = Received(applied, p) - base
             /\ Received(applied, p) > base =>
                  Received(applied, p) = PacketEnd(p) /\ p.first <= base + 1
             /\ \A k \in 1..Len(more) : more[k] = p.events[base + k - p.first + 1]
<1> DEFINE base == Base(applied, p)
           from == base - p.first + 2
           to == Received(applied, p) - p.first + 1
<1>1. /\ p.base \in Nat \ {0} /\ p.first \in Nat \ {0} /\ p.events \in Seq(Event)
      /\ Len(p.events) \in Nat \ {0}
      /\ \A k \in 1..Len(p.events) : p.events[k] \in Event
  BY LenProperties, ElementOfSeq DEF Packet
<1>2. /\ base \in Nat /\ base >= applied /\ base >= p.base - 1
      /\ base = applied \/ base = p.base - 1
  BY <1>1 DEF Base
<1> HIDE DEF base
<1>3. /\ Received(applied, p) \in Nat /\ Received(applied, p) >= base
      /\ Received(applied, p) > base =>
           Received(applied, p) = PacketEnd(p) /\ p.first <= base + 1
  BY <1>1, <1>2 DEF Received, PacketEnd, base
<1>4. from \in Int /\ to \in Int /\ \A i \in from..to : p.events[i] \in Event
  <2>1. from \in Int /\ to \in Int
    BY <1>1, <1>2, <1>3
  <2>2. CASE Received(applied, p) = base
    <3>1. to < from
      BY <1>1, <1>2, <2>2
    <3> QED BY <2>1, <3>1
  <2>3. CASE Received(applied, p) > base
    <3>1. from >= 1 /\ to = Len(p.events)
      BY <1>1, <1>2, <1>3, <2>3 DEF PacketEnd
    <3> HIDE DEF from, to
    <3> QED BY <1>1, <2>1, <3>1
  <2> QED BY <1>2, <1>3, <2>2, <2>3
<1>5. AppliedEvents(applied, p) = SubSeq(p.events, from, to)
  BY DEF AppliedEvents, base
<1>6. to - from + 1 = Received(applied, p) - base
  BY <1>1, <1>2, <1>3
<1> HIDE DEF from, to
<1>7. /\ SubSeq(p.events, from, to) \in Seq(Event)
      /\ Len(SubSeq(p.events, from, to)) = IF from <= to THEN to - from + 1 ELSE 0
      /\ \A i \in 1..to - from + 1 : SubSeq(p.events, from, to)[i] = p.events[from + i - 1]
  BY <1>4, SubSeqProperties
<1>8. Len(SubSeq(p.events, from, to)) = Received(applied, p) - base
  BY <1>2, <1>3, <1>4, <1>6, <1>7
<1>9. \A k \in 1..Received(applied, p) - base :
        SubSeq(p.events, from, to)[k] = p.events[base + k - p.first + 1]
  <2> SUFFICES ASSUME NEW k \in 1..Received(applied, p) - base
      PROVE  SubSeq(p.events, from, to)[k] = p.events[base + k - p.first + 1]
    OBVIOUS
  <2>1. k \in 1..to - from + 1
    BY <1>6
  <2>2. SubSeq(p.events, from, to)[k] = p.events[from + k - 1]
    BY <1>7, <2>1
  <2>3. from + k - 1 = base + k - p.first + 1
    BY <1>1, <1>2, <1>3 DEF from
  <2> QED BY <2>2, <2>3
<1> QED BY <1>2, <1>3, <1>5, <1>7, <1>8, <1>9 DEF base

============================================================================
