---------------------------- MODULE MediaProofs ----------------------------
(***************************************************************************)
(* Proofs about the media: VideoPath, from the fragments on the network to *)
(* what the decoder is fed, AudioPath, from the capture callback to what   *)
(* is played and with it the packets of WireProtocol, and MacVideo, the    *)
(* pipeline on macOS, each for every value of its constants. VideoPath's   *)
(* part rests on PathInv, whose conjuncts follow a frame: the fragments    *)
(* and the reassembler (Carrying), the frames held back (Ordering), the    *)
(* decode queue (Queueing) and the decoder (Feeding); what the recursion   *)
(* in Finished and the XOR of the chunks compute is shown first.           *)
(* AudioPath's rests on AudioInv; what the bytes of a packet are read as   *)
(* is shown first.                                                         *)
(***************************************************************************)
EXTENDS VideoPath, MacVideo, AudioPath, FiniteSetTheorems, SequenceTheorems,
        WellFoundedInduction, TLAPS

----------------------------------------------------------------------------
(* Counting.                                                               *)

LessThan == {ss \in Nat \X Nat : ss[1] < ss[2]}

\* The order of the natural numbers is well founded.
LEMMA LessThanWellFounded == IsWellFoundedOn(LessThan, Nat)
  BY NatLessThanWellFounded DEF OpToRel, LessThan

\* A non-empty set of natural numbers has a least element.
LEMMA Least ==
  ASSUME NEW T, T \subseteq Nat, T # {}
  PROVE  \E m \in T : \A n \in T : m <= n
<1>1. PICK m \in T : \A n \in T : ~ (<<n, m>> \in LessThan)
  BY LessThanWellFounded, WFMin
<1>2. \A n \in T : ~ (n < m)
  BY <1>1 DEF LessThan
<1> QED BY <1>2

\* Induction up to a bound, with the indices for which a claim holds as a set.
LEMMA CountingUp ==
  ASSUME NEW n \in Nat, NEW Good, 0 \in Good, \A k \in 1..n : k - 1 \in Good => k \in Good
  PROVE  \A k \in 0..n : k \in Good
<1> DEFINE Bad == {k \in 0..n : k \notin Good}
<1> SUFFICES ASSUME Bad # {} PROVE FALSE
  OBVIOUS
<1>1. PICK k \in Bad : \A i \in Bad : k <= i
  <2>1. Bad \subseteq Nat
    OBVIOUS
  <2> HIDE DEF Bad
  <2> QED BY <2>1, Least
<1>2. k \in 0..n /\ k \notin Good
  OBVIOUS
<1>3. k # 0
  BY <1>2
<1>4. k \in 1..n /\ k - 1 \in 0..n /\ ~(k <= k - 1)
  BY <1>2, <1>3
<1>5. k - 1 \in Good
  BY <1>1, <1>4
<1> QED BY <1>2, <1>4, <1>5

\* The quotient of the division.
LEMMA DivFacts ==
  ASSUME NEW a \in Nat, NEW c \in Nat \ {0}
  PROVE  /\ a \div c \in Nat
         /\ (a \div c) * c <= a /\ a < (a \div c) * c + c
  OBVIOUS

\* Total rounds the length up to whole chunks.
LEMMA TotalFacts ==
  ASSUME NEW P \in Seq({0, 1}) \ {<<>>}
  PROVE  /\ Total(P) \in Nat \ {0} /\ Len(P) \in Nat \ {0}
         /\ (Total(P) - 1) * ChunkSize < Len(P) /\ Len(P) <= Total(P) * ChunkSize
<1>1. ChunkSize \in Nat \ {0}
  BY ReassemblyAssumption
<1>2. Len(P) \in Nat \ {0}
  OBVIOUS
<1> DEFINE n == Len(P)
           c == ChunkSize
           q == (n + c - 1) \div c
<1>3. n + c - 1 \in Nat
  BY <1>1, <1>2
<1>4. q \in Nat /\ q * c <= n + c - 1 /\ n + c - 1 < q * c + c
  BY <1>1, <1>3, DivFacts
<1>5. Total(P) = q
  BY DEF Total
<1> HIDE DEF n, c, q
<1>6. q # 0
  BY <1>1, <1>2, <1>4 DEF n, c
<1>7. (q - 1) * c = q * c - c
  BY <1>1, <1>4 DEF c
<1>8. q * c \in Nat /\ n \in Nat /\ c \in Nat
  BY <1>1, <1>2, <1>4 DEF n, c
<1>9. (q - 1) * c < n /\ n <= q * c
  BY <1>4, <1>7, <1>8
<1>10. QED
  BY <1>2, <1>4, <1>5, <1>6, <1>9 DEF n, c

\* Where chunk i ends, that is where the next one begins.
End(P, i) == ShorterOf(i * ChunkSize, Len(P))

\* The ends of the chunks: all but the last are one chunk size apart.
LEMMA Ends ==
  ASSUME NEW P \in Seq({0, 1}) \ {<<>>}
  PROVE  /\ End(P, 0) = 0 /\ End(P, Total(P)) = Len(P)
         /\ \A i \in 0..(Total(P) - 1) :
              /\ i * ChunkSize = End(P, i) /\ End(P, i) \in Nat /\ End(P, i + 1) \in Nat
              /\ End(P, i) < End(P, i + 1) /\ End(P, i + 1) <= Len(P)
              /\ i + 1 # Total(P) => End(P, i + 1) = End(P, i) + ChunkSize
<1> DEFINE n == Total(P)
           c == ChunkSize
           l == Len(P)
<1>1. /\ n \in Nat \ {0} /\ l \in Nat \ {0} /\ c \in Nat \ {0}
      /\ (n - 1) * c < l /\ l <= n * c
  BY TotalFacts, ReassemblyAssumption
<1> HIDE DEF n, c, l
<1>2. ASSUME NEW i \in 0..(n - 1)
      PROVE  /\ i * c \in Nat /\ i * c < l /\ (i + 1) * c = i * c + c
             /\ i + 1 # n => (i + 1) * c < l
  <2>1. i \in Nat /\ n - 1 - i \in Nat
    BY <1>1
  <2>2. (n - 1) * c = i * c + (n - 1 - i) * c
    BY <1>1, <2>1
  <2>3. i * c \in Nat /\ (n - 1 - i) * c \in Nat /\ (i + 1) * c = i * c + c
    BY <1>1, <2>1
  <2>4. i * c < l
    BY <1>1, <2>2, <2>3
  <2>5. ASSUME i + 1 # n
        PROVE  (i + 1) * c < l
    <3>1. n - 2 - i \in Nat
      BY <1>1, <2>1, <2>5
    <3>2. (n - 1) * c = (i + 1) * c + (n - 2 - i) * c /\ (n - 2 - i) * c \in Nat
          /\ (i + 1) * c \in Nat
      BY <1>1, <2>1, <3>1
    <3>3. QED
      BY <1>1, <3>2
  <2>6. QED
    BY <2>3, <2>4, <2>5
<1>3. End(P, 0) = 0
  BY <1>1 DEF End, ShorterOf, c, l
<1>4. End(P, n) = l
  <2>1. n * c \in Nat
    BY <1>1
  <2>2. QED
    BY <1>1, <2>1 DEF End, ShorterOf, c, l
<1>5. ASSUME NEW i \in 0..(n - 1)
      PROVE  /\ i * c = End(P, i) /\ End(P, i) \in Nat /\ End(P, i + 1) \in Nat
             /\ End(P, i) < End(P, i + 1) /\ End(P, i + 1) <= l
             /\ i + 1 # n => End(P, i + 1) = End(P, i) + c
  <2> DEFINE a == i * c
             b == (i + 1) * c
  <2>1. a \in Nat /\ a < l /\ b = a + c /\ (i + 1 # n => b < l)
    BY <1>2
  <2>2. End(P, i) = ShorterOf(a, l) /\ End(P, i + 1) = ShorterOf(b, l)
    BY DEF End, c, l
  <2> HIDE DEF a, b
  <2>3. QED
    BY <1>1, <2>1, <2>2 DEF ShorterOf, a
<1>6. QED
  BY <1>3, <1>4, <1>5 DEF n, c, l

\* Chunk i is what lies between two ends.
LEMMA ChunkFacts ==
  ASSUME NEW P \in Seq({0, 1}) \ {<<>>}, NEW i \in 0..(Total(P) - 1)
  PROVE  /\ Chunk(P, i) = SubSeq(P, End(P, i) + 1, End(P, i + 1))
         /\ Chunk(P, i) \in Seq({0, 1})
         /\ Len(Chunk(P, i)) = End(P, i + 1) - End(P, i)
         /\ \A j \in 1..Len(Chunk(P, i)) : Chunk(P, i)[j] \in {0, 1}
<1> DEFINE a == End(P, i)
           b == End(P, i + 1)
<1>1. a \in Nat /\ b \in Nat /\ a < b /\ b <= Len(P) /\ i * ChunkSize = a
  BY Ends
<1>2. Chunk(P, i) = SubSeq(P, a + 1, b)
  BY <1>1 DEF Chunk, End
<1> HIDE DEF a, b
<1>3. P \in Seq({0, 1})
  OBVIOUS
<1>4. SubSeq(P, a + 1, b) \in Seq({0, 1}) /\ Len(SubSeq(P, a + 1, b)) = b - a
  BY <1>1, <1>3
<1> DEFINE s == SubSeq(P, a + 1, b)
<1> HIDE DEF s
<1>5. s \in Seq({0, 1}) => \A j \in 1..Len(s) : s[j] \in {0, 1}
  OBVIOUS
<1>6. s \in Seq({0, 1}) /\ Len(s) = b - a /\ Chunk(P, i) = s
  BY <1>2, <1>4 DEF s
<1>7. Chunk(P, i) = SubSeq(P, a + 1, b)
  BY <1>2
<1>8. QED
  BY <1>5, <1>6, <1>7 DEF a, b

\* A prefix and what follows it.
LEMMA JoinOne ==
  ASSUME NEW P \in Seq({0, 1}), NEW a \in Nat, NEW b \in Nat, a <= b, b <= Len(P)
  PROVE  SubSeq(P, 1, a) \o SubSeq(P, a + 1, b) = SubSeq(P, 1, b)
  OBVIOUS

\* What the definition of joined in Finished stands for.
JoinedUp(p, g) ==
  g = [i \in 0..p.total |-> IF i = 0 THEN <<>> ELSE g[i - 1] \o ChunkOf(p, i - 1)]

\* The chunks of a payload, one after the other, are the payload.
LEMMA ChunksJoin ==
  ASSUME NEW P \in Seq({0, 1}) \ {<<>>}, NEW p, p.total = Total(P),
         \A i \in 0..(Total(P) - 1) : ChunkOf(p, i) = Chunk(P, i)
  PROVE  (CHOOSE g : JoinedUp(p, g))[p.total] = P
<1> DEFINE n == Total(P)
           h == [i \in 0..n |-> SubSeq(P, 1, End(P, i))]
           G == CHOOSE g : JoinedUp(p, g)
<1>1. n \in Nat \ {0} /\ P \in Seq({0, 1})
  BY TotalFacts
<1>2. \A i \in 1..n : i - 1 \in 0..(n - 1) /\ i \in 0..n /\ i - 1 \in 0..n /\ (i - 1) + 1 = i /\ i # 0
  BY <1>1
<1>3. ASSUME NEW i \in 1..n
      PROVE  h[i - 1] \o ChunkOf(p, i - 1) = h[i]
  <2> DEFINE a == End(P, i - 1)
             b == End(P, i)
  <2>0. i - 1 \in 0..(n - 1) /\ i \in 0..n /\ i - 1 \in 0..n /\ (i - 1) + 1 = i
    BY <1>2
  <2>1. a \in Nat /\ b \in Nat /\ a <= b /\ b <= Len(P)
    BY <2>0, Ends
  <2>2. ChunkOf(p, i - 1) = SubSeq(P, a + 1, b)
    BY <2>0, ChunkFacts
  <2>3. h[i - 1] = SubSeq(P, 1, a) /\ h[i] = SubSeq(P, 1, b)
    BY <2>0
  <2> HIDE DEF a, b, h
  <2>4. SubSeq(P, 1, a) \o SubSeq(P, a + 1, b) = SubSeq(P, 1, b)
    BY <1>1, <2>1, JoinOne
  <2>5. QED
    BY <2>2, <2>3, <2>4
<1>4. h[0] = <<>> /\ 0 \in 0..n
  BY <1>1, Ends
<1>5. h[n] = P /\ n \in 0..n
  <2>1. n \in 0..n /\ End(P, n) = Len(P)
    BY <1>1, Ends
  <2>2. SubSeq(P, 1, Len(P)) = P
    BY <1>1
  <2>3. QED
    BY <2>1, <2>2
<1>6. h = [i \in 0..n |-> h[i]]
  OBVIOUS
<1> HIDE DEF h
<1>7. \A i \in 0..n : h[i] = IF i = 0 THEN <<>> ELSE h[i - 1] \o ChunkOf(p, i - 1)
  <2>1. \A i \in 0..n : i = 0 \/ i \in 1..n
    BY <1>1
  <2>2. QED
    BY <1>3, <1>4, <2>1
<1>8. JoinedUp(p, h)
  <2>1. h = [i \in 0..n |-> IF i = 0 THEN <<>> ELSE h[i - 1] \o ChunkOf(p, i - 1)]
    BY <1>6, <1>7
  <2>2. QED
    BY <2>1 DEF JoinedUp
<1>9. JoinedUp(p, G)
  BY <1>8, Zenon
<1> HIDE DEF G
<1>10. \A i \in 0..n : G[i] = IF i = 0 THEN <<>> ELSE G[i - 1] \o ChunkOf(p, i - 1)
  BY <1>9 DEF JoinedUp
<1> DEFINE Good == {k \in 0..n : G[k] = h[k]}
<1>11. 0 \in Good
  BY <1>4, <1>10
<1>12. ASSUME NEW k \in 1..n, k - 1 \in Good
       PROVE  k \in Good
  <2>1. k \in 0..n /\ k # 0
    BY <1>2
  <2>2. G[k] = G[k - 1] \o ChunkOf(p, k - 1) /\ G[k - 1] = h[k - 1]
    BY <1>10, <1>12, <2>1
  <2>3. QED
    BY <1>3, <2>1, <2>2
<1>13. \A k \in 0..n : k \in Good
  <2> HIDE DEF Good, n
  <2>1. n \in Nat
    BY <1>1
  <2>2. QED
    BY <1>11, <1>12, <2>1, CountingUp
<1>14. QED
  BY <1>5, <1>13 DEF G

----------------------------------------------------------------------------
(* The fragments of a frame.                                                *)

ChunksOf(P) == [i \in 0..(Total(P) - 1) |-> Chunk(P, i)]

FragmentSet ==
  [id : Nat, key : BOOLEAN, total : Nat, index : Nat, recovery : BOOLEAN, size : Nat,
   payload : Seq({0, 1})]

\* What a fragment of payload P says of it.
Tells(f, P) ==
  /\ f.total = Total(P)
  /\ ~f.recovery => f.index \in 0..(Total(P) - 1) /\ f.payload = Chunk(P, f.index)
  /\ f.recovery =>
       /\ Total(P) > 1 /\ f.index = Total(P) /\ f.size = Len(P)
       /\ f.payload = [j \in 1..ChunkSize |-> Parity(ChunksOf(P), j)]

\* A fragment of the host's frame id.
FragmentOf(f, id) == f \in FragmentSet /\ f.id = id /\ Tells(f, Payload[id])

\* The payload of a frame of the host.
LEMMA PayloadFacts ==
  ASSUME NEW id \in Id
  PROVE  id \in Nat /\ Payload[id] \in Seq({0, 1}) \ {<<>>}
  BY PathAssumption

\* XOR yields bits.
LEMMA ParityType ==
  ASSUME NEW chunks, IsFiniteSet(DOMAIN chunks), NEW j
  PROVE  Parity(chunks, j) \in {0, 1}
<1> DEFINE ones == {i \in DOMAIN chunks : j <= Len(chunks[i]) /\ chunks[i][j] = 1}
           count == Cardinality(ones)
<1>1. ones \in SUBSET DOMAIN chunks
  OBVIOUS
<1>2. IsFiniteSet(ones)
  <2> HIDE DEF ones
  <2>1. QED
    BY <1>1, FS_Subset
<1>3. count \in Nat
  BY <1>2, FS_CardinalityType
<1>4. Parity(chunks, j) = count % 2
  BY DEF Parity
<1> HIDE DEF count
<1>5. QED
  BY <1>3, <1>4

\* What fragment_video_frame makes of a frame tells its payload.
LEMMA FragmentsTell ==
  ASSUME NEW id \in Id, NEW key \in BOOLEAN, NEW f \in Fragments(id, key, Payload[id])
  PROVE  FragmentOf(f, id)
<1> DEFINE P == Payload[id]
           n == Total(P)
<1>1. id \in Nat /\ P \in Seq({0, 1}) \ {<<>>}
  BY PayloadFacts
<1>2. n \in Nat \ {0} /\ Len(P) \in Nat
  BY <1>1, TotalFacts
<1>3. CASE \E i \in 0..(n - 1) : f = Fragment(id, key, P, i)
  <2>1. PICK i \in 0..(n - 1) : f = Fragment(id, key, P, i)
    BY <1>3
  <2>2. Chunk(P, i) \in Seq({0, 1}) /\ i \in Nat
    BY <1>1, <1>2, ChunkFacts
  <2> HIDE DEF P, n
  <2>3. /\ f.id = id /\ f.key = key /\ f.total = Total(P) /\ f.index = i /\ f.recovery = FALSE
        /\ f.payload = Chunk(P, i)
    BY <2>1 DEF Fragment
  <2>4. f \in FragmentSet
    BY <1>1, <1>2, <2>1, <2>2 DEF Fragment, FragmentSet, n
  <2>5. QED
    BY <2>3, <2>4 DEF FragmentOf, Tells, P, n
<1>4. CASE n > 1 /\ f = Recovery(id, key, P)
  <2> DEFINE bytes == [j \in 1..ChunkSize |-> Parity(ChunksOf(P), j)]
  <2>1. /\ f.id = id /\ f.key = key /\ f.total = n /\ f.index = n /\ f.recovery = TRUE
        /\ f.size = Len(P) /\ f.payload = bytes
        /\ f = [id |-> id, key |-> key, total |-> n, index |-> n, recovery |-> TRUE,
                size |-> Len(P), payload |-> bytes]
    BY <1>4 DEF Recovery, ChunksOf
  <2>2. DOMAIN ChunksOf(P) = 0..(n - 1)
    BY DEF ChunksOf
  <2>3. IsFiniteSet(DOMAIN ChunksOf(P))
    <3>1. n - 1 \in Int /\ 0 \in Int
      BY <1>2
    <3>2. QED
      BY <2>2, <3>1, FS_Interval
  <2>4. \A j \in 1..ChunkSize : Parity(ChunksOf(P), j) \in {0, 1}
    BY <2>3, ParityType
  <2>5. bytes \in Seq({0, 1})
    <3>1. ChunkSize \in Nat
      BY ReassemblyAssumption
    <3>2. bytes \in [1..ChunkSize -> {0, 1}]
      BY <2>4
    <3>3. QED
      BY <3>1, <3>2
  <2> HIDE DEF bytes, P, n
  <2>6. f \in FragmentSet
    BY <1>1, <1>2, <2>1, <2>5 DEF FragmentSet
  <2>7. QED
    BY <1>4, <2>1, <2>6 DEF FragmentOf, Tells, P, n, bytes
<1>5. QED
  BY <1>3, <1>4 DEF Fragments

----------------------------------------------------------------------------
(* An incomplete frame, and what recovers the fragment that is missing.     *)

PendingSet == [id : Id, key : BOOLEAN, total : Nat, got : SUBSET FragmentSet]

\* What the reassembler holds of a frame is of that frame, and once each.
Sound(p) ==
  /\ p.total = Total(Payload[p.id])
  /\ \A g \in p.got : FragmentOf(g, p.id)
  /\ \A g, h \in p.got : g.index = h.index => g = h

SoundSet == {p \in PendingSet : Sound(p)}

\* The fragments with data are counted by their index.
LEMMA DataCounted ==
  ASSUME NEW p \in SoundSet, NEW T \in SUBSET (0..(p.total - 1)), \A g \in Data(p) : g.index \in T
  PROVE  /\ IsFiniteSet(Data(p)) /\ IsFiniteSet(T) /\ Cardinality(Data(p)) <= Cardinality(T)
         /\ Cardinality(Data(p)) = Cardinality(T) <=> \A i \in T : Received(p, i)
<1> DEFINE place == [g \in Data(p) |-> g.index]
<1>1. place \in Injection(Data(p), T)
  <2>1. \A g, h \in Data(p) : g.index = h.index => g = h
    BY DEF SoundSet, Sound, Data
  <2>2. QED
    BY <2>1 DEF Injection, IsInjective
<1>2. IsFiniteSet(T)
  <2>1. p.total \in Nat
    BY DEF SoundSet, PendingSet
  <2>2. 0 \in Int /\ p.total - 1 \in Int
    BY <2>1
  <2>3. IsFiniteSet(0..(p.total - 1))
    BY <2>2, FS_Interval
  <2>4. QED
    BY <2>3, FS_Subset
<1>3. place \in Surjection(Data(p), T) <=> \A i \in T : \E g \in Data(p) : g.index = i
  <2>1. place \in [Data(p) -> T]
    BY <1>1 DEF Injection
  <2>2. place \in Surjection(Data(p), T) <=> \A i \in T : \E g \in Data(p) : place[g] = i
    BY <2>1, Zenon DEF Surjection
  <2>3. \A g \in Data(p) : place[g] = g.index
    OBVIOUS
  <2>4. QED
    BY <2>2, <2>3
<1> HIDE DEF place
<1>4. /\ IsFiniteSet(Data(p)) /\ Cardinality(Data(p)) <= Cardinality(T)
      /\ Cardinality(Data(p)) = Cardinality(T) <=> place \in Surjection(Data(p), T)
  BY <1>1, <1>2, FS_Injection
<1>5. QED
  BY <1>2, <1>3, <1>4 DEF Received

\* A chunk that was received is the chunk of the payload.
LEMMA ChunkReceived ==
  ASSUME NEW p \in SoundSet, NEW i, Received(p, i)
  PROVE  /\ i \in 0..(Total(Payload[p.id]) - 1) /\ ChunkOf(p, i) = Chunk(Payload[p.id], i)
<1>1. PICK g \in Data(p) : g.index = i
  BY DEF Received
<1> DEFINE c == CHOOSE h \in Data(p) : h.index = i
<1>2. c \in Data(p) /\ c.index = i
  BY <1>1
<1> HIDE DEF c
<1>3. FragmentOf(c, p.id) /\ ~c.recovery
  BY <1>2 DEF SoundSet, Sound, Data
<1>4. ChunkOf(p, i) = c.payload
  BY DEF ChunkOf, c
<1>5. QED
  BY <1>2, <1>3, <1>4 DEF FragmentOf, Tells

\* The XOR of all chunks and of all but one is that one.
LEMMA ParityOfMissing ==
  ASSUME NEW P \in Seq({0, 1}) \ {<<>>}, NEW m \in 0..(Total(P) - 1), NEW others,
         DOMAIN others = (0..(Total(P) - 1)) \ {m},
         \A i \in DOMAIN others : others[i] = Chunk(P, i),
         NEW j \in 1..Len(Chunk(P, m))
  PROVE  (Parity(ChunksOf(P), j) + Parity(others, j)) % 2 = Chunk(P, m)[j]
<1> DEFINE n == Total(P)
           One(i) == j <= Len(Chunk(P, i)) /\ Chunk(P, i)[j] = 1
           all == {i \in 0..(n - 1) : One(i)}
           rest == {i \in (0..(n - 1)) \ {m} : One(i)}
           a == Cardinality(all)
           b == Cardinality(rest)
<1>1. n \in Nat \ {0}
  BY TotalFacts
<1>2. Parity(ChunksOf(P), j) = a % 2
  <2>1. DOMAIN ChunksOf(P) = 0..(n - 1) /\ \A i \in 0..(n - 1) : ChunksOf(P)[i] = Chunk(P, i)
    BY DEF ChunksOf
  <2>2. {i \in DOMAIN ChunksOf(P) : j <= Len(ChunksOf(P)[i]) /\ ChunksOf(P)[i][j] = 1} = all
    BY <2>1
  <2>3. QED
    BY <2>2 DEF Parity
<1>3. Parity(others, j) = b % 2
  <2>1. {i \in DOMAIN others : j <= Len(others[i]) /\ others[i][j] = 1} = rest
    OBVIOUS
  <2>2. QED
    BY <2>1 DEF Parity
<1>4. IsFiniteSet(all)
  <2>1. 0 \in Int /\ n - 1 \in Int
    BY <1>1
  <2>2. IsFiniteSet(0..(n - 1))
    BY <2>1, FS_Interval
  <2>3. all \in SUBSET (0..(n - 1))
    OBVIOUS
  <2> HIDE DEF all
  <2>4. QED
    BY <2>2, <2>3, FS_Subset
<1>5. rest = all \ {m}
  OBVIOUS
<1>6. m \in all <=> Chunk(P, m)[j] = 1
  <2>1. Len(Chunk(P, m)) \in Nat
    BY ChunkFacts
  <2>2. j <= Len(Chunk(P, m))
    BY <2>1
  <2>3. QED
    BY <2>2
<1>7. Chunk(P, m)[j] \in {0, 1}
  BY ChunkFacts
<1> HIDE DEF all, rest
<1>8. a \in Nat /\ b = IF m \in all THEN a - 1 ELSE a
  BY <1>4, <1>5, FS_CardinalityType, FS_RemoveElement
<1>9. b \in Nat
  <2>1. IsFiniteSet(rest)
    BY <1>4, <1>5, FS_RemoveElement
  <2>2. QED
    BY <2>1, FS_CardinalityType
<1> DEFINE bit == Chunk(P, m)[j]
           x == Parity(ChunksOf(P), j)
           y == Parity(others, j)
<1>10. x = a % 2 /\ y = b % 2 /\ (m \in all <=> bit = 1) /\ bit \in {0, 1}
  BY <1>2, <1>3, <1>6, <1>7
<1> HIDE DEF a, b, bit, x, y
<1>11. CASE m \in all
  <2>1. a = b + 1
    BY <1>8, <1>9, <1>11
  <2>2. ((a % 2) + (b % 2)) % 2 = 1
    BY <1>9, <2>1
  <2>3. (x + y) % 2 = bit
    <3>1. x + y = (a % 2) + (b % 2) /\ bit = 1
      BY <1>10, <1>11
    <3>2. QED
      BY <2>2, <3>1, Zenon
  <2>4. QED
    BY <2>3, Zenon DEF bit, x, y
<1>12. CASE m \notin all
  <2>1. a = b /\ bit = 0
    BY <1>8, <1>10, <1>12
  <2>2. ((a % 2) + (b % 2)) % 2 = 0
    BY <1>9, <2>1
  <2>3. (x + y) % 2 = bit
    BY <1>10, <2>1, <2>2
  <2>4. QED
    BY <2>3, Zenon DEF bit, x, y
<1>13. QED
  BY <1>11, <1>12

\* With one chunk missing and the XOR of all there, recover_missing_fragment
\* completes the frame.
LEMMA RecoveredSound ==
  ASSUME NEW p \in SoundSet, Data(p) # p.got, Cardinality(Data(p)) + 1 = p.total
  PROVE  /\ Recovered(p) \in SoundSet
         /\ Recovered(p).id = p.id /\ Recovered(p).key = p.key
         /\ \A i \in 0..(p.total - 1) : Received(Recovered(p), i)
<1> DEFINE P == Payload[p.id]
           n == Total(P)
           recovery == CHOOSE g \in p.got : g.recovery
           missing == CHOOSE i \in 0..(p.total - 1) : ~Received(p, i)
           chunk == Len(recovery.payload)
           others == [i \in {g.index : g \in Data(p)} |-> ChunkOf(p, i)]
           length == IF missing + 1 = p.total THEN recovery.size - chunk * (p.total - 1)
                     ELSE chunk
           bytes == [j \in 1..length |-> (recovery.payload[j] + Parity(others, j)) % 2]
           last == [id |-> p.id, key |-> p.key, total |-> p.total, index |-> missing,
                    recovery |-> FALSE, size |-> 0, payload |-> bytes]
<1>1. /\ p \in PendingSet /\ p.id \in Id /\ p.key \in BOOLEAN /\ p.total = n
      /\ \A g \in p.got : FragmentOf(g, p.id)
      /\ \A g, h \in p.got : g.index = h.index => g = h
  BY DEF SoundSet, Sound, PendingSet
<1>2. Recovered(p) = [p EXCEPT !.got = Data(p) \cup {last}]
  BY DEF Recovered
<1>3. P \in Seq({0, 1}) \ {<<>>} /\ p.id \in Nat
  BY <1>1, PayloadFacts
<1>4. n \in Nat \ {0} /\ Len(P) \in Nat \ {0} /\ ChunkSize \in Nat \ {0}
  BY <1>3, TotalFacts, ReassemblyAssumption
<1>5. Data(p) \subseteq p.got /\ \A g \in Data(p) : ~g.recovery /\ g.index \in 0..(n - 1)
  BY <1>1 DEF Data, FragmentOf, Tells
<1>6. recovery \in p.got /\ recovery.recovery
  <2>1. \E g \in p.got : g.recovery
    BY DEF Data
  <2>2. QED
    BY <2>1
<1> HIDE DEF recovery
<1>7. /\ recovery.size = Len(P)
      /\ recovery.payload = [j \in 1..ChunkSize |-> Parity(ChunksOf(P), j)]
      /\ recovery.payload \in Seq({0, 1})
  BY <1>1, <1>6 DEF FragmentOf, Tells, FragmentSet
<1>8. chunk = ChunkSize
  <2> DEFINE s == recovery.payload
  <2>1. s \in Seq({0, 1}) /\ DOMAIN s = 1..ChunkSize
    BY <1>7
  <2> HIDE DEF s
  <2>2. Len(s) = ChunkSize
    BY <1>4, <2>1
  <2>3. QED
    BY <2>2 DEF s
<1>9. missing \in 0..(p.total - 1) /\ ~Received(p, missing)
  <2>1. \E i \in 0..(p.total - 1) : ~Received(p, i)
    <3> SUFFICES ASSUME \A i \in 0..(p.total - 1) : Received(p, i)
                 PROVE  FALSE
      OBVIOUS
    <3> DEFINE T == 0..(p.total - 1)
    <3>1. T \in SUBSET (0..(p.total - 1)) /\ \A g \in Data(p) : g.index \in T
      BY <1>1, <1>5
    <3>2. Cardinality(Data(p)) = Cardinality(T)
      <4> HIDE DEF T
      <4>1. \A i \in T : Received(p, i)
        BY DEF T
      <4>2. QED
        BY <3>1, <4>1, DataCounted
    <3>3. Cardinality(T) = n
      <4>1. 0 \in Int /\ n - 1 \in Int /\ ~(0 > n - 1) /\ n - 1 - 0 + 1 = n
        BY <1>4
      <4>2. QED
        BY <1>1, <4>1, FS_Interval
    <3>4. QED
      BY <1>1, <1>4, <3>2, <3>3
  <2>2. QED
    BY <2>1
<1> HIDE DEF missing
<1> DEFINE T == (0..(n - 1)) \ {missing}
<1>10. \A g \in Data(p) : g.index \in T
  BY <1>5, <1>9 DEF Received
<1>11. \A i \in T : Received(p, i)
  <2>1. T \in SUBSET (0..(p.total - 1))
    BY <1>1
  <2>2. Cardinality(T) = n - 1
    <3>1. 0 \in Int /\ n - 1 \in Int /\ ~(0 > n - 1) /\ n - 1 - 0 + 1 = n
      BY <1>4
    <3>2. IsFiniteSet(0..(n - 1)) /\ Cardinality(0..(n - 1)) = n
      BY <3>1, FS_Interval
    <3>3. missing \in 0..(n - 1)
      BY <1>1, <1>9
    <3>4. QED
      BY <3>2, <3>3, FS_RemoveElement
  <2> HIDE DEF T
  <2>3. /\ IsFiniteSet(Data(p))
        /\ Cardinality(Data(p)) = Cardinality(T) <=> \A i \in T : Received(p, i)
    BY <1>10, <2>1, DataCounted
  <2>4. Cardinality(Data(p)) \in Nat
    BY <2>3, FS_CardinalityType
  <2>5. Cardinality(Data(p)) = n - 1
    BY <1>1, <1>4, <2>4
  <2>6. QED
    BY <2>2, <2>3, <2>5
<1>12. {g.index : g \in Data(p)} = T
  BY <1>10, <1>11 DEF Received
<1>13. DOMAIN others = T /\ \A i \in DOMAIN others : others[i] = Chunk(P, i)
  <2>1. DOMAIN others = T
    BY <1>12
  <2>2. \A i \in T : ChunkOf(p, i) = Chunk(P, i)
    BY <1>11, ChunkReceived
  <2>3. QED
    BY <1>12, <2>1, <2>2
<1> HIDE DEF others
<1>14. missing \in 0..(n - 1)
  BY <1>1, <1>9
<1>15. length = Len(Chunk(P, missing)) /\ length \in Nat /\ length <= ChunkSize
  <2>1. /\ missing * ChunkSize = End(P, missing) /\ End(P, missing) \in Nat
        /\ End(P, missing + 1) \in Nat /\ End(P, missing) < End(P, missing + 1)
        /\ missing + 1 # n => End(P, missing + 1) = End(P, missing) + ChunkSize
        /\ End(P, n) = Len(P)
    BY <1>3, <1>14, Ends
  <2>2. Len(Chunk(P, missing)) = End(P, missing + 1) - End(P, missing)
    BY <1>3, <1>14, ChunkFacts
  <2>3. CASE missing + 1 # n
    <3>1. length = ChunkSize
      BY <1>1, <1>8, <2>3
    <3>2. QED
      BY <1>4, <2>1, <2>2, <2>3, <3>1
  <2>4. CASE missing + 1 = n
    <3>1. missing = n - 1
      BY <1>4, <1>14, <2>4
    <3>2. length = Len(P) - ChunkSize * (n - 1)
      BY <1>1, <1>7, <1>8, <2>4
    <3>3. ChunkSize * (n - 1) = (n - 1) * ChunkSize
      BY <1>4
    <3>4. Len(P) <= (n - 1) * ChunkSize + ChunkSize
      <4>1. Len(P) <= n * ChunkSize
        BY <1>3, TotalFacts
      <4>2. n * ChunkSize = (n - 1) * ChunkSize + ChunkSize
        BY <1>4
      <4>3. QED
        BY <4>1, <4>2
    <3>5. End(P, missing) = (n - 1) * ChunkSize /\ End(P, missing + 1) = Len(P)
      BY <2>1, <2>4, <3>1
    <3> DEFINE before == (n - 1) * ChunkSize
    <3>6. before \in Nat
      BY <2>1, <3>5
    <3> HIDE DEF before, length, n
    <3>7. length = Len(P) - before /\ Len(P) <= before + ChunkSize /\ before < Len(P)
      BY <2>1, <3>2, <3>3, <3>4, <3>5 DEF before
    <3>8. Len(Chunk(P, missing)) = Len(P) - before
      BY <2>2, <3>5 DEF before
    <3>9. QED
      BY <1>4, <3>6, <3>7, <3>8
  <2>5. QED
    BY <2>3, <2>4
<1> HIDE DEF length
<1>16. bytes = Chunk(P, missing)
  <2> DEFINE s == Chunk(P, missing)
  <2>1. s \in Seq({0, 1}) /\ Len(s) = length
    BY <1>3, <1>14, <1>15, ChunkFacts
  <2>2. ASSUME NEW j \in 1..length
        PROVE  (recovery.payload[j] + Parity(others, j)) % 2 = s[j]
    <3>1. j \in 1..ChunkSize
      BY <1>4, <1>15
    <3>2. recovery.payload[j] = Parity(ChunksOf(P), j)
      BY <1>7, <3>1
    <3>3. j \in 1..Len(Chunk(P, missing))
      BY <1>15
    <3>4. (Parity(ChunksOf(P), j) + Parity(others, j)) % 2 = Chunk(P, missing)[j]
      <4>1. /\ DOMAIN others = (0..(Total(P) - 1)) \ {missing}
            /\ \A i \in DOMAIN others : others[i] = Chunk(P, i)
        BY <1>13
      <4>2. missing \in 0..(Total(P) - 1) /\ P \in Seq({0, 1}) \ {<<>>}
        BY <1>3, <1>14
      <4> HIDE DEF P, missing
      <4>3. QED
        BY <3>3, <4>1, <4>2, ParityOfMissing, Zenon
    <3>5. (recovery.payload[j] + Parity(others, j)) % 2 = Chunk(P, missing)[j]
      BY <3>2, <3>4, Zenon
    <3>6. QED
      BY <3>5
  <2> HIDE DEF s
  <2>3. bytes = [j \in 1..length |-> s[j]]
    BY <2>2
  <2>4. s = [j \in 1..length |-> s[j]]
    BY <2>1
  <2>5. QED
    BY <2>3, <2>4 DEF s
<1> HIDE DEF bytes
<1>17. last \in FragmentSet
  <2>1. bytes \in Seq({0, 1})
    BY <1>3, <1>14, <1>16, ChunkFacts
  <2>2. missing \in Nat /\ p.total \in Nat
    BY <1>1, <1>4, <1>14
  <2>3. QED
    BY <1>1, <1>3, <2>1, <2>2 DEF FragmentSet
<1>18. FragmentOf(last, p.id)
  BY <1>1, <1>14, <1>16, <1>17 DEF FragmentOf, Tells
<1>19. last.index = missing /\ ~last.recovery
  OBVIOUS
<1> HIDE DEF last, P, n
<1> DEFINE q == Recovered(p)
<1>20. q = [p EXCEPT !.got = Data(p) \cup {last}]
  BY <1>2
<1>21. /\ q \in PendingSet /\ q.id = p.id /\ q.key = p.key /\ q.total = p.total
       /\ q.got = Data(p) \cup {last}
  <2>1. Data(p) \cup {last} \in SUBSET FragmentSet
    BY <1>1, <1>5, <1>17 DEF FragmentOf
  <2>2. QED
    BY <1>1, <1>20, <2>1 DEF PendingSet
<1> HIDE DEF q
<1>22. Sound(q)
  <2>1. \A g \in q.got : FragmentOf(g, q.id)
    BY <1>1, <1>5, <1>18, <1>21
  <2>2. \A g \in Data(p) : g.index # last.index
    BY <1>9, <1>19 DEF Received
  <2>3. \A g, h \in q.got : g.index = h.index => g = h
    BY <1>1, <1>5, <1>21, <2>2
  <2>4. QED
    BY <1>1, <1>21, <2>1, <2>3 DEF Sound, P, n
<1>23. ASSUME NEW i \in 0..(p.total - 1)
       PROVE  Received(q, i)
  <2>1. Data(p) \subseteq Data(q) /\ last \in Data(q)
    BY <1>5, <1>19, <1>21 DEF Data
  <2>2. CASE i = missing
    BY <1>19, <2>1, <2>2 DEF Received
  <2>3. CASE i # missing
    <3>1. i \in T
      BY <1>1, <2>3
    <3>2. Received(p, i)
      BY <1>11, <3>1
    <3>3. QED
      BY <2>1, <3>2 DEF Received
  <2>4. QED
    BY <2>2, <2>3
<1>24. QED
  BY <1>21, <1>22, <1>23 DEF SoundSet, q

\* A frame that is complete is finished as the payload it was cut from.
LEMMA FinishedWhole ==
  ASSUME NEW p \in SoundSet, IsComplete(p)
  PROVE  Finished(p) = [id |-> p.id, key |-> p.key, payload |-> Payload[p.id]]
<1> DEFINE P == Payload[p.id]
           T == 0..(p.total - 1)
           whole == IF Cardinality(Data(p)) < p.total THEN Recovered(p) ELSE p
<1>1. /\ p.id \in Id /\ p.total = Total(P)
      /\ \A g \in Data(p) : FragmentOf(g, p.id) /\ ~g.recovery
  BY DEF SoundSet, Sound, PendingSet, Data
<1>2. P \in Seq({0, 1}) \ {<<>>} /\ p.total \in Nat \ {0}
  BY <1>1, PayloadFacts, TotalFacts
<1>3. Finished(p) = [id |-> p.id, key |-> p.key,
                     payload |-> (CHOOSE g : JoinedUp(whole, g))[whole.total]]
  BY Zenon DEF Finished, JoinedUp
<1>4. /\ IsFiniteSet(Data(p)) /\ Cardinality(Data(p)) <= Cardinality(T)
      /\ Cardinality(Data(p)) = Cardinality(T) => \A i \in T : Received(p, i)
  <2>1. T \in SUBSET (0..(p.total - 1)) /\ \A g \in Data(p) : g.index \in T
    BY <1>1 DEF FragmentOf, Tells
  <2> HIDE DEF T
  <2>2. QED
    BY <2>1, DataCounted
<1>5. Cardinality(T) = p.total
  <2>1. 0 \in Int /\ p.total - 1 \in Int /\ ~(0 > p.total - 1) /\ p.total - 1 - 0 + 1 = p.total
    BY <1>2
  <2>2. QED
    BY <2>1, FS_Interval
<1>6. Cardinality(Data(p)) \in Nat
  BY <1>4, FS_CardinalityType
<1>7. /\ whole \in SoundSet /\ whole.id = p.id /\ whole.total = p.total
      /\ \A i \in T : Received(whole, i)
  <2>1. CASE Cardinality(Data(p)) < p.total
    <3>1. Data(p) # p.got /\ Cardinality(Data(p)) + 1 = p.total
      BY <1>2, <1>6, <2>1 DEF IsComplete
    <3>2. /\ Recovered(p) \in SoundSet /\ Recovered(p).id = p.id
          /\ \A i \in 0..(p.total - 1) : Received(Recovered(p), i)
      BY <3>1, RecoveredSound
    <3>3. Recovered(p).total = p.total
      BY <1>1, <3>2 DEF SoundSet, Sound
    <3>4. QED
      BY <2>1, <3>2, <3>3
  <2>2. CASE ~(Cardinality(Data(p)) < p.total)
    <3>1. Cardinality(Data(p)) = Cardinality(T)
      BY <1>2, <1>4, <1>5, <1>6, <2>2
    <3>2. QED
      BY <1>4, <2>2, <3>1
  <2>3. QED
    BY <2>1, <2>2
<1> HIDE DEF whole
<1>8. whole.total = Total(P)
  BY <1>1, <1>7
<1>9. \A i \in 0..(Total(P) - 1) : ChunkOf(whole, i) = Chunk(P, i)
  BY <1>1, <1>7, ChunkReceived
<1> HIDE DEF P
<1>10. (CHOOSE g : JoinedUp(whole, g))[whole.total] = P
  BY <1>2, <1>8, <1>9, ChunksJoin
<1>11. QED
  BY <1>3, <1>10 DEF P

----------------------------------------------------------------------------
(* The reassembler: what it keeps stays sound, and within its limit.        *)

\* The fragments under way are fragments of the host's frames.
Pieces == {f \in FragmentSet : f.id \in Id /\ Tells(f, Payload[f.id])}

\* The frame as a fragment leaves it.
LEMMA UpdatedSound ==
  ASSUME NEW frames \in Seq(SoundSet), NEW f \in Pieces
  PROVE  Updated(frames, f) \in SoundSet /\ Updated(frames, f).id = f.id
<1> DEFINE p == IF Has(frames, f.id) THEN Of(frames, f.id) ELSE NewPending(f)
<1>1. f \in FragmentSet /\ f.id \in Id /\ f.key \in BOOLEAN /\ f.total \in Nat
      /\ f.total = Total(Payload[f.id]) /\ FragmentOf(f, f.id)
  BY DEF Pieces, FragmentOf, Tells, FragmentSet
<1>2. p \in SoundSet /\ p.id = f.id
  <2>1. CASE Has(frames, f.id)
    <3>1. Place(frames, f.id) \in DOMAIN frames /\ frames[Place(frames, f.id)].id = f.id
      BY <2>1, Zenon DEF Has, Place
    <3>2. \A i \in DOMAIN frames : frames[i] \in SoundSet
      OBVIOUS
    <3>3. QED
      BY <2>1, <3>1, <3>2 DEF Of
  <2>2. CASE ~Has(frames, f.id)
    <3>1. p = [id |-> f.id, key |-> f.key, total |-> f.total, got |-> {}]
      BY <2>2 DEF NewPending
    <3> HIDE DEF p
    <3>2. p \in PendingSet /\ p.id = f.id /\ p.total = f.total /\ p.got = {}
      BY <1>1, <3>1 DEF PendingSet
    <3>3. QED
      BY <1>1, <3>2 DEF SoundSet, Sound
  <2>3. QED
    BY <2>1, <2>2
<1>3. Updated(frames, f) = WithFragment(p, f)
  BY DEF Updated
<1> HIDE DEF p
<1>4. /\ p \in PendingSet /\ p.total = Total(Payload[p.id]) /\ p.got \subseteq FragmentSet
      /\ \A g \in p.got : FragmentOf(g, p.id)
      /\ \A g, h \in p.got : g.index = h.index => g = h
  BY <1>2 DEF SoundSet, Sound, PendingSet
<1>5. CASE \E g \in p.got : g.index = f.index
  BY <1>2, <1>3, <1>5 DEF WithFragment
<1>6. CASE ~\E g \in p.got : g.index = f.index
  <2> DEFINE q == [p EXCEPT !.got = @ \cup {f}]
  <2>1. WithFragment(p, f) = q
    BY <1>6 DEF WithFragment
  <2>2. q \in PendingSet /\ q.id = p.id /\ q.total = p.total /\ q.got = p.got \cup {f}
    BY <1>1, <1>4 DEF PendingSet
  <2> HIDE DEF q
  <2>3. \A g \in q.got : FragmentOf(g, q.id)
    BY <1>1, <1>2, <1>4, <2>2
  <2>4. \A g, h \in q.got : g.index = h.index => g = h
    BY <1>4, <1>6, <2>2
  <2>5. QED
    BY <1>2, <1>3, <1>4, <2>1, <2>2, <2>3, <2>4 DEF SoundSet, Sound
<1>7. QED
  BY <1>5, <1>6

\* Dropping the oldest, and a frame by its id.
LEMMA WithoutSound ==
  ASSUME NEW frames \in Seq(SoundSet), NEW id
  PROVE  /\ Without(frames, id) \in Seq(SoundSet)
         /\ Has(frames, id) => Len(Without(frames, id)) = Len(frames) - 1
         /\ ~Has(frames, id) => Without(frames, id) = frames
<1>1. CASE Has(frames, id)
  <2> DEFINE i == Place(frames, id)
  <2>1. i \in DOMAIN frames
    BY <1>1, Zenon DEF Has, Place
  <2> HIDE DEF i
  <2>2. i \in 1..Len(frames) /\ Len(frames) \in Nat
    BY <2>1
  <2>3. Without(frames, id) = SubSeq(frames, 1, i - 1) \o SubSeq(frames, i + 1, Len(frames))
    BY <1>1 DEF Without, RemoveAt, i
  <2> DEFINE s == SubSeq(frames, 1, i - 1)
             t == SubSeq(frames, i + 1, Len(frames))
  <2>4. s \in Seq(SoundSet) /\ Len(s) = i - 1
    BY <2>2
  <2>5. t \in Seq(SoundSet) /\ Len(t) = Len(frames) - i
    BY <2>2
  <2> HIDE DEF s, t
  <2>6. s \o t \in Seq(SoundSet) /\ Len(s \o t) = Len(s) + Len(t)
    BY <2>4, <2>5
  <2>7. Len(s) + Len(t) = Len(frames) - 1
    BY <2>2, <2>4, <2>5
  <2>8. QED
    BY <1>1, <2>3, <2>6, <2>7 DEF s, t
<1>2. CASE ~Has(frames, id)
  BY <1>2 DEF Without
<1>3. QED
  BY <1>1, <1>2

\* drop_oldest leaves room for a frame that is new.
LEMMA RoomSound ==
  ASSUME NEW frames \in Seq(SoundSet), Len(frames) <= PendingLimit, NEW id
  PROVE  /\ Room(frames, id) \in Seq(SoundSet)
         /\ Has(frames, id) => Room(frames, id) = frames
         /\ ~Has(frames, id) => /\ Len(Room(frames, id)) < PendingLimit
                                /\ ~Has(Room(frames, id), id)
<1>1. Len(frames) \in Nat /\ PendingLimit \in Nat \ {0}
  BY ReassemblyAssumption
<1>2. CASE Has(frames, id)
  BY <1>2 DEF Room
<1>3. CASE ~Has(frames, id) /\ Len(frames) < PendingLimit
  BY <1>1, <1>3 DEF Room
<1>4. CASE ~Has(frames, id) /\ ~(Len(frames) < PendingLimit)
  <2> DEFINE t == Tail(frames)
  <2>1. Room(frames, id) = t
    BY <1>1, <1>4 DEF Room
  <2>2. frames # <<>>
    BY <1>1, <1>4
  <2>3. t \in Seq(SoundSet) /\ Len(t) = Len(frames) - 1
        /\ \A i \in 1..Len(t) : t[i] = frames[i + 1] /\ i + 1 \in DOMAIN frames
    BY <2>2
  <2> HIDE DEF t
  <2>4. DOMAIN t = 1..Len(t)
    BY <2>3
  <2>5. ~Has(t, id)
    BY <1>4, <2>3, <2>4 DEF Has
  <2>6. QED
    BY <1>1, <1>4, <2>1, <2>3, <2>5
<1>5. QED
  BY <1>2, <1>3, <1>4

\* What a fragment does to the frames that are incomplete.
LEMMA FramesAfterSound ==
  ASSUME NEW frames \in Seq(SoundSet), Len(frames) <= PendingLimit, NEW f \in Pieces, NEW known
  PROVE  /\ FramesAfter(frames, known, f) \in Seq(SoundSet)
         /\ Len(FramesAfter(frames, known, f)) <= PendingLimit
<1> DEFINE room == Room(frames, f.id)
           others == Without(room, f.id)
           p == Updated(frames, f)
<1>1. room \in Seq(SoundSet)
      /\ (Has(frames, f.id) => room = frames)
      /\ (~Has(frames, f.id) => Len(room) < PendingLimit /\ ~Has(room, f.id))
  BY RoomSound
<1>2. Len(frames) \in Nat /\ PendingLimit \in Nat
  BY ReassemblyAssumption
<1> HIDE DEF room
<1>3. others \in Seq(SoundSet)
      /\ (Has(room, f.id) => Len(others) = Len(room) - 1)
      /\ (~Has(room, f.id) => others = room)
  BY <1>1, WithoutSound
<1>4. p \in SoundSet
  BY UpdatedSound
<1>5. FramesAfter(frames, known, f) =
        IF Known(known, f.id) THEN frames
        ELSE IF IsComplete(p) THEN others ELSE Append(others, p)
  BY DEF FramesAfter, room
<1> HIDE DEF others, p
<1>6. Len(others) \in Nat /\ Len(others) + 1 <= PendingLimit
  <2>1. Len(others) \in Nat /\ Len(room) \in Nat
    BY <1>1, <1>3
  <2>2. QED
    BY <1>1, <1>2, <1>3, <2>1
<1>7. Append(others, p) \in Seq(SoundSet) /\ Len(Append(others, p)) = Len(others) + 1
  BY <1>3, <1>4
<1>8. CASE Known(known, f.id)
  BY <1>5, <1>8
<1>9. CASE ~Known(known, f.id) /\ IsComplete(p)
  <2>1. FramesAfter(frames, known, f) = others
    BY <1>5, <1>9
  <2>2. QED
    BY <1>2, <1>3, <1>6, <2>1
<1>10. CASE ~Known(known, f.id) /\ ~IsComplete(p)
  <2>1. FramesAfter(frames, known, f) = Append(others, p)
    BY <1>5, <1>10
  <2>2. QED
    BY <1>6, <1>7, <2>1
<1>11. QED
  BY <1>8, <1>9, <1>10

----------------------------------------------------------------------------
(* The host, the network and the reassembler.                               *)

\* The fragments under way and those the reassembler holds are the host's; it
\* holds no more frames, and remembers no more ids, than it may.
Carrying ==
  /\ sent \in Nat /\ flight \subseteq Pieces
  /\ accepted \in BOOLEAN /\ silences \in 0..MaxSilence
  /\ pending \in Seq(SoundSet) /\ Len(pending) <= PendingLimit
  /\ done \in Seq(Nat) /\ Len(done) <= CompletedMemory

\* No more completed ids are remembered than fit.
LEMMA DoneBounded ==
  ASSUME NEW known \in Seq(Nat), Len(known) <= CompletedMemory, NEW id \in Nat
  PROVE  DoneAfter(known, id) \in Seq(Nat) /\ Len(DoneAfter(known, id)) <= CompletedMemory
<1> DEFINE longer == Append(known, id)
<1>1. longer \in Seq(Nat) /\ Len(longer) = Len(known) + 1 /\ longer # <<>>
      /\ Len(known) \in Nat /\ CompletedMemory \in Nat
  BY ReassemblyAssumption
<1>2. DoneAfter(known, id) = IF Len(longer) > CompletedMemory THEN Tail(longer) ELSE longer
  BY DEF DoneAfter
<1> HIDE DEF longer
<1>3. Tail(longer) \in Seq(Nat) /\ Len(Tail(longer)) = Len(longer) - 1
  BY <1>1
<1>4. CASE Len(longer) > CompletedMemory
  BY <1>1, <1>2, <1>3, <1>4
<1>5. CASE ~(Len(longer) > CompletedMemory)
  BY <1>1, <1>2, <1>5
<1>6. QED
  BY <1>4, <1>5

\* Nothing is under way at first.
LEMMA CarryingInit == Init => Carrying
<1>1. <<>> \in Seq(SoundSet) /\ <<>> \in Seq(Nat) /\ Len(<<>>) = 0 /\ 0 \in Nat
      /\ 0 <= PendingLimit /\ 0 <= CompletedMemory /\ 0 \in 0..MaxSilence
  BY ReassemblyAssumption, PathAssumption
<1>2. QED
  BY <1>1 DEF Init, Carrying

\* Every step carries fragments of the host's frames on, within the limits.
LEMMA CarryingStep ==
  ASSUME Carrying, [Next]_vars
  PROVE  Carrying'
<1> USE DEF Carrying
<1>1. CASE SendFrame
  <2>1. PICK key \in {sent = 0, TRUE} :
          \E arriving \in SUBSET Fragments(sent, key, Payload[sent]) : flight' = flight \cup arriving
    BY <1>1 DEF SendFrame
  <2>2. sent \in Id /\ sent' = sent + 1 /\ UNCHANGED <<accepted, silences, pending, done>>
    BY <1>1 DEF SendFrame, session, reassembler
  <2>3. key \in BOOLEAN
    OBVIOUS
  <2>4. Fragments(sent, key, Payload[sent]) \subseteq Pieces
    BY <2>2, <2>3, FragmentsTell DEF Pieces, FragmentOf
  <2>5. flight' \subseteq Pieces
    BY <2>1, <2>4
  <2>6. sent' \in Nat
    BY <2>2
  <2>7. QED
    BY <2>2, <2>5, <2>6
<1>2. CASE Top
  <2>1. PICK expired \in 0..Len(pending) : pending' = SubSeq(pending, expired + 1, Len(pending))
    BY <1>2 DEF Top
  <2>2. UNCHANGED <<sent, flight, accepted, silences, done>>
    BY <1>2 DEF Top, host, session
  <2>3. Len(pending) \in Nat /\ expired \in Nat /\ expired <= Len(pending) /\ PendingLimit \in Nat
    BY ReassemblyAssumption
  <2>4. pending' \in Seq(SoundSet) /\ Len(pending') = Len(pending) - expired
    BY <2>1, <2>3
  <2>5. Len(pending') <= PendingLimit
    BY <2>3, <2>4
  <2>6. QED
    BY <2>2, <2>4, <2>5
<1>3. CASE ReceiveConfig
  BY <1>3 DEF ReceiveConfig, host, reassembler
<1>4. CASE Suspend
  <2>1. UNCHANGED <<sent, flight>> /\ accepted' \in BOOLEAN /\ pending' = <<>> /\ done' = <<>>
        /\ silences' = silences + 1 /\ silences < MaxSilence
    BY <1>4 DEF Suspend, host
  <2>2. silences' \in 0..MaxSilence
    BY <2>1, PathAssumption
  <2>3. <<>> \in Seq(SoundSet) /\ <<>> \in Seq(Nat) /\ Len(<<>>) = 0 /\ 0 <= PendingLimit
        /\ 0 <= CompletedMemory
    BY ReassemblyAssumption
  <2>4. QED
    BY <2>1, <2>2, <2>3
<1>5. CASE ReceiveInvalid
  <2>1. UNCHANGED <<sent, flight, accepted, done>>
        /\ silences' = silences + 1 /\ silences < MaxSilence
        /\ (UNCHANGED pending \/ \E i \in DOMAIN pending : pending' = Without(pending, pending[i].id))
    BY <1>5 DEF ReceiveInvalid, host
  <2>2. silences' \in 0..MaxSilence
    BY <2>1, PathAssumption
  <2>3. ASSUME NEW i \in DOMAIN pending, pending' = Without(pending, pending[i].id)
        PROVE  pending' \in Seq(SoundSet) /\ Len(pending') <= PendingLimit
    <3>1. Has(pending, pending[i].id)
      BY DEF Has
    <3>2. pending' \in Seq(SoundSet) /\ Len(pending') = Len(pending) - 1
      BY <2>3, <3>1, WithoutSound
    <3>3. Len(pending) \in Nat /\ PendingLimit \in Nat
      BY ReassemblyAssumption
    <3>4. QED
      BY <3>2, <3>3
  <2>4. QED
    BY <2>1, <2>2, <2>3
<1>6. CASE ReceiveFragment
  <2>1. PICK f \in flight :
          /\ flight' = flight \ {f}
          /\ pending' = IF accepted THEN FramesAfter(pending, done, f) ELSE pending
    BY <1>6 DEF ReceiveFragment
  <2>2. UNCHANGED <<sent, accepted, silences, done>>
    BY <1>6 DEF ReceiveFragment, session
  <2>3. /\ FramesAfter(pending, done, f) \in Seq(SoundSet)
        /\ Len(FramesAfter(pending, done, f)) <= PendingLimit
    BY FramesAfterSound
  <2>4. QED
    BY <2>1, <2>2, <2>3
<1>7. CASE ReceiveLastFragment
  <2>1. PICK f \in flight :
          /\ flight' = flight \ {f}
          /\ pending' = FramesAfter(pending, done, f) /\ done' = DoneAfter(done, f.id)
    BY <1>7 DEF ReceiveLastFragment
  <2>2. UNCHANGED <<sent, accepted, silences>>
    BY <1>7 DEF ReceiveLastFragment, session
  <2>3. /\ FramesAfter(pending, done, f) \in Seq(SoundSet)
        /\ Len(FramesAfter(pending, done, f)) <= PendingLimit
    BY FramesAfterSound
  <2>4. f.id \in Nat
    BY PayloadFacts DEF Pieces
  <2>5. done' \in Seq(Nat) /\ Len(done') <= CompletedMemory
    BY <2>1, <2>4, DoneBounded
  <2>6. QED
    BY <2>1, <2>2, <2>3, <2>5
<1>8. CASE UNCHANGED <<host, session, reassembler>>
  BY <1>8 DEF host, session, reassembler
<1>9. CASE ReceiveNothing \/ DrainFrame \/ DrainRefused \/ DrainEnd
  BY <1>8, <1>9 DEF ReceiveNothing, DrainFrame, DrainRefused, DrainEnd
<1>10. CASE DecoderPop \/ DecoderDecodes \/ DecoderFails \/ DecoderFallsBack
  BY <1>8, <1>10 DEF DecoderPop, DecoderDecodes, DecoderFails, DecoderFallsBack
<1>11. CASE UNCHANGED vars
  BY <1>8, <1>11 DEF vars
<1>12. QED
  BY <1>1, <1>2, <1>3, <1>4, <1>5, <1>6, <1>7, <1>9, <1>10, <1>11 DEF Next

\* A frame that arrives whole.
WholeSet == {frame \in Frame : frame.payload = Payload[frame.id]}

\* The reassembler hands on the payload that the host encoded.
LEMMA CompletedWhole ==
  ASSUME Carrying, NEW f \in flight, Completes(pending, done, f)
  PROVE  Finished(Updated(pending, f)) \in WholeSet
<1> DEFINE p == Updated(pending, f)
<1>1. p \in SoundSet
  BY UpdatedSound DEF Carrying
<1>2. IsComplete(p)
  BY DEF Completes
<1> HIDE DEF p
<1>3. Finished(p) = [id |-> p.id, key |-> p.key, payload |-> Payload[p.id]]
  BY <1>1, <1>2, FinishedWhole
<1>4. p.id \in Id /\ p.key \in BOOLEAN
  BY <1>1 DEF SoundSet, PendingSet
<1>5. Payload[p.id] \in Seq({0, 1})
  BY <1>4, PayloadFacts
<1>6. Finished(p) \in WholeSet
  BY <1>3, <1>4, <1>5 DEF WholeSet, Frame
<1>7. QED
  BY <1>6 DEF p

----------------------------------------------------------------------------
(* The frames held back.                                                    *)

\* HeldAreAhead of the frames held back, with what it takes inside the drain loop.
Ordering ==
  /\ network \in {"top", "recv", "drain"} /\ waiting \in BOOLEAN
  /\ held \subseteq WholeSet /\ IsFiniteSet(held)
  /\ \A f, g \in held : f.id = g.id => f = g
  /\ waiting => next = None /\ held = {}
  /\ ~waiting => next \in Nat /\ \A frame \in held : frame.id >= next
  /\ ~waiting /\ network # "drain" =>
       Cardinality(held) < ReorderWindow /\ \A frame \in held : frame.id > next
  /\ ~waiting /\ network = "drain" =>
       /\ Cardinality(held) <= ReorderWindow
       /\ next \notin Ids(held) => Cardinality(held) < ReorderWindow

\* The fields of a frame that is whole.
LEMMA WholeFacts ==
  ASSUME NEW frame \in WholeSet
  PROVE  /\ frame.id \in Id /\ frame.id \in Nat /\ frame.key \in BOOLEAN
         /\ frame.payload = Payload[frame.id] /\ frame \in Frame
<1>1. frame \in Frame /\ frame.payload = Payload[frame.id]
  BY DEF WholeSet
<1>2. frame.id \in Id /\ frame.key \in BOOLEAN
  BY <1>1 DEF Frame
<1>3. QED
  BY <1>1, <1>2, PayloadFacts

\* Waiting for a keyframe, the viewer holds nothing back.
LEMMA OrderingWaits ==
  ASSUME WaitForKeyframe, network' \in {"top", "recv", "drain"}
  PROVE  Ordering'
  BY FS_EmptySet DEF WaitForKeyframe, Ordering

\* What Order does with a frame that is complete.
OrderedAnew(frame) ==
  /\ network' = "drain" /\ next' = frame.id /\ waiting' = FALSE /\ held' = {frame}
  /\ RequireKeyframe(1)
OrderedLate(frame) == network' = "top" /\ UNCHANGED <<order, decodeQueue>>
OrderedLost(frame) == network' = "drain" /\ WaitForKeyframe /\ RequireKeyframe(1)
OrderedNext(frame) ==
  /\ network' = "drain" /\ UNCHANGED <<next, waiting>> /\ ~waiting /\ frame.id >= next
  /\ held' = IF frame.id \in Ids(held) THEN held ELSE held \cup {frame}
  /\ next \in Ids(held') \/ ~(Cardinality(held') >= ReorderWindow)
  /\ UNCHANGED decodeQueue

\* Order does one of the four; a restart is never lost.
LEMMA OrderCases ==
  ASSUME Ordering, NEW frame \in WholeSet, ~(waiting /\ ~frame.key), Order(frame)
  PROVE  OrderedAnew(frame) \/ OrderedLate(frame) \/ OrderedLost(frame) \/ OrderedNext(frame)
<1> DEFINE restart == frame.key /\ next # frame.id
           due == IF restart THEN frame.id ELSE next
           kept == IF restart THEN {} ELSE held
           all == IF frame.id \in Ids(kept) THEN kept ELSE kept \cup {frame}
           lost == due \notin Ids(all) /\ Cardinality(all) >= ReorderWindow
<1>1. IF frame.id < due
      THEN /\ network' = "top"
           /\ UNCHANGED <<order, decodeQueue>>
      ELSE /\ network' = "drain"
           /\ IF lost THEN WaitForKeyframe
              ELSE next' = due /\ waiting' = FALSE /\ held' = all
           /\ IF restart \/ lost THEN RequireKeyframe(1) ELSE UNCHANGED decodeQueue
  BY DEF Order
<1>2. frame.id \in Nat /\ frame.key \in BOOLEAN /\ None \notin Int
  BY WholeFacts, PathAssumption
<1>3. CASE restart
  <2>1. due = frame.id /\ all = {frame} /\ frame.id \in Ids(all)
    BY <1>3 DEF Ids
  <2>2. ~lost /\ ~(frame.id < due)
    BY <1>2, <2>1
  <2> HIDE DEF due, all, lost, restart
  <2>3. OrderedAnew(frame)
    BY <1>1, <1>3, <2>1, <2>2 DEF OrderedAnew
  <2>4. QED
    BY <2>3
<1>4. CASE ~restart
  <2>1. ~waiting /\ next \in Nat
    BY <1>2, <1>4 DEF Ordering
  <2>2. due = next /\ all = IF frame.id \in Ids(held) THEN held ELSE held \cup {frame}
    BY <1>4
  <2>3. CASE frame.id < due
    BY <1>1, <2>3 DEF OrderedLate
  <2>4. CASE ~(frame.id < due) /\ lost
    <3> HIDE DEF due, all, lost, restart
    <3>1. QED
      BY <1>1, <2>4 DEF OrderedLost
  <2>5. CASE ~(frame.id < due) /\ ~lost
    <3>1. next \in Ids(all) \/ ~(Cardinality(all) >= ReorderWindow)
      BY <2>2, <2>5
    <3>2. frame.id >= next
      BY <1>2, <2>1, <2>2, <2>5
    <3> HIDE DEF due, all, lost, restart
    <3>3. /\ network' = "drain" /\ next' = due /\ waiting' = FALSE /\ held' = all
          /\ UNCHANGED decodeQueue
      BY <1>1, <1>4, <2>5
    <3>4. waiting = FALSE
      BY <2>1 DEF Ordering
    <3>5. OrderedNext(frame)
      BY <2>1, <2>2, <3>1, <3>2, <3>3, <3>4 DEF OrderedNext
    <3>6. QED
      BY <3>5
  <2>6. QED
    BY <2>3, <2>4, <2>5
<1>5. QED
  BY <1>3, <1>4

\* What is held back does not depend on where in its loop the thread is.
LEMMA OrderingStays ==
  ASSUME Ordering, UNCHANGED order,
         network' = network \/ (network # "drain" /\ network' \in {"top", "recv"})
  PROVE  Ordering'
  BY DEF Ordering, order, Ids

\* Every step keeps the frames held back ahead of the expected one, and few.
LEMMA OrderingStep ==
  ASSUME Carrying, Ordering, [Next]_vars
  PROVE  Ordering'
<1>1. CASE Top
  <2>1. network = "top" /\ network' = "recv" /\ (UNCHANGED order \/ WaitForKeyframe)
    BY <1>1 DEF Top
  <2>2. QED
    BY <2>1, OrderingStays, OrderingWaits
<1>2. CASE Suspend \/ ReceiveInvalid
  BY <1>2, OrderingWaits DEF Suspend, ReceiveInvalid
<1>3. CASE ReceiveNothing \/ ReceiveConfig \/ ReceiveFragment
  <2>1. network = "recv" /\ network' = "top" /\ UNCHANGED order
    BY <1>3 DEF ReceiveNothing, ReceiveConfig, ReceiveFragment
  <2>2. QED
    BY <2>1, OrderingStays
<1>4. CASE ReceiveLastFragment
  <2>1. PICK f \in flight :
          /\ Completes(pending, done, f)
          /\ LET frame == Finished(Updated(pending, f))
             IN IF waiting /\ ~frame.key
                THEN /\ network' = "top"
                     /\ UNCHANGED <<order, decodeQueue>>
                ELSE Order(frame)
    BY <1>4 DEF ReceiveLastFragment
  <2>2. network = "recv"
    BY <1>4 DEF ReceiveLastFragment
  <2> DEFINE frame == Finished(Updated(pending, f))
  <2>3. frame \in WholeSet
    BY <2>1, CompletedWhole
  <2>4. (network' = "top" /\ UNCHANGED <<order, decodeQueue>>)
        \/ (~(waiting /\ ~frame.key) /\ Order(frame))
    BY <2>1
  <2> HIDE DEF frame
  <2>5. frame.id \in Nat
    BY <2>3, WholeFacts
  <2>6. CASE network' = "top" /\ UNCHANGED <<order, decodeQueue>>
    BY <2>2, <2>6, OrderingStays
  <2>7. CASE OrderedLate(frame)
    BY <2>2, <2>7, OrderingStays DEF OrderedLate
  <2>8. CASE OrderedLost(frame)
    BY <2>8, OrderingWaits DEF OrderedLost
  <2>9. CASE OrderedAnew(frame)
    <3>1. /\ network' = "drain" /\ next' = frame.id /\ waiting' = FALSE /\ held' = {frame}
      BY <2>9 DEF OrderedAnew
    <3>2. IsFiniteSet(held') /\ Cardinality(held') = 1 /\ 1 <= ReorderWindow
      <4>1. 1 <= ReorderWindow
        BY PathAssumption
      <4>2. IsFiniteSet({frame}) /\ Cardinality({frame}) = 1
        BY FS_Singleton
      <4>3. QED
        BY <3>1, <4>1, <4>2
    <3>3. frame.id >= next' /\ next' \in Ids(held')
      BY <2>5, <3>1 DEF Ids
    <3>4. QED
      BY <2>3, <2>5, <3>1, <3>2, <3>3 DEF Ordering
  <2>10. CASE OrderedNext(frame)
    <3>1. /\ network' = "drain" /\ UNCHANGED <<next, waiting>> /\ ~waiting /\ frame.id >= next
          /\ held' = IF frame.id \in Ids(held) THEN held ELSE held \cup {frame}
          /\ next \in Ids(held') \/ ~(Cardinality(held') >= ReorderWindow)
      BY <2>10 DEF OrderedNext
    <3>2. /\ held \subseteq WholeSet /\ IsFiniteSet(held) /\ next \in Nat
          /\ \A g, h \in held : g.id = h.id => g = h
          /\ \A g \in held : g.id > next
          /\ Cardinality(held) < ReorderWindow /\ Cardinality(held) \in Nat
      BY <2>2, <3>1, FS_CardinalityType DEF Ordering
    <3>3. ReorderWindow \in Nat
      BY PathAssumption
    <3>4. frame.id \notin Ids(held) => frame \notin held
      BY DEF Ids
    <3>5. /\ IsFiniteSet(held') /\ Cardinality(held') \in Nat
          /\ Cardinality(held') <= ReorderWindow
      <4>1. CASE frame.id \in Ids(held)
        BY <3>1, <3>2, <3>3, <4>1
      <4>2. CASE frame.id \notin Ids(held)
        <5>1. held' = held \cup {frame} /\ frame \notin held
          BY <3>1, <3>4, <4>2
        <5>2. IsFiniteSet(held') /\ Cardinality(held') = Cardinality(held) + 1
          BY <3>2, <5>1, FS_AddElement
        <5>3. QED
          BY <3>2, <3>3, <5>2
      <4>3. QED
        BY <4>1, <4>2
    <3>6. held' \subseteq WholeSet /\ \A g \in held' : g.id >= next
      <4>1. \A g \in held : g.id \in Nat
        BY <3>2, WholeFacts
      <4>2. QED
        BY <2>3, <3>1, <3>2, <4>1
    <3>7. \A g, h \in held' : g.id = h.id => g = h
      BY <3>1, <3>2 DEF Ids
    <3>8. next' \notin Ids(held') => Cardinality(held') < ReorderWindow
      <4>1. next' = next
        BY <3>1
      <4>2. (~(Cardinality(held') >= ReorderWindow)) => Cardinality(held') < ReorderWindow
        BY <3>3, <3>5
      <4>3. QED
        BY <3>1, <4>1, <4>2
    <3>9. waiting' = FALSE /\ next' = next
      BY <3>1 DEF Ordering
    <3>10. network' = "drain" /\ network' \in {"top", "recv", "drain"}
      BY <3>1
    <3>11. ~waiting' /\ waiting' \in BOOLEAN
      BY <3>9
    <3>12. next' \in Nat /\ \A g \in held' : g.id >= next'
      BY <3>2, <3>6, <3>9
    <3>13. held' \subseteq WholeSet /\ IsFiniteSet(held') /\ Cardinality(held') <= ReorderWindow
      BY <3>5, <3>6
    <3>14. QED
      BY <3>7, <3>8, <3>10, <3>11, <3>12, <3>13, Zenon DEF Ordering
  <2>11. QED
    BY <2>3, <2>4, <2>6, <2>7, <2>8, <2>9, <2>10, OrderCases
<1>5. CASE DrainFrame
  <2>1. PICK frame \in held :
          frame.id = next /\ next' = next + 1 /\ held' = held \ {frame}
    BY <1>5 DEF DrainFrame
  <2>2. network = "drain" /\ network' = network /\ waiting' = waiting
    BY <1>5 DEF DrainFrame
  <2>3. /\ waiting = FALSE /\ held \subseteq WholeSet /\ IsFiniteSet(held) /\ next \in Nat
        /\ \A g, h \in held : g.id = h.id => g = h
        /\ \A g \in held : g.id >= next
        /\ Cardinality(held) <= ReorderWindow
    BY <2>1, <2>2 DEF Ordering
  <2>4. Cardinality(held) \in Nat /\ ReorderWindow \in Nat
    BY <2>3, FS_CardinalityType, PathAssumption
  <2>5. IsFiniteSet(held') /\ Cardinality(held') = Cardinality(held) - 1
    BY <2>1, <2>3, FS_RemoveElement
  <2>6. Cardinality(held') < ReorderWindow /\ Cardinality(held') <= ReorderWindow
    BY <2>3, <2>4, <2>5
  <2>7. \A g \in held' : g.id >= next'
    <3>1. \A g \in held : g.id \in Nat
      BY <2>3, WholeFacts
    <3>2. \A g \in held' : g \in held /\ g.id # next
      BY <2>1, <2>3
    <3>3. QED
      BY <2>1, <2>3, <3>1, <3>2
  <2>8. next' \in Nat /\ held' \subseteq WholeSet /\ \A g, h \in held' : g.id = h.id => g = h
    BY <2>1, <2>3
  <2>9. network' = "drain" /\ waiting' = FALSE
    BY <2>2, <2>3
  <2>10. QED
    BY <2>5, <2>6, <2>7, <2>8, <2>9 DEF Ordering
<1>6. CASE DrainRefused
  <2>1. network' = network /\ WaitForKeyframe
    BY <1>6 DEF DrainRefused
  <2>2. QED
    BY <2>1, OrderingWaits DEF Ordering
<1>7. CASE DrainEnd
  <2>1. network = "drain" /\ network' = "top" /\ next \notin Ids(held) /\ UNCHANGED <<next, waiting, held>>
    BY <1>7 DEF DrainEnd, order
  <2>2. ~waiting => \A frame \in held : frame.id > next
    <3>1. \A frame \in held : frame.id \in Nat
      BY WholeFacts DEF Ordering
    <3>2. \A frame \in held : frame.id # next
      BY <2>1 DEF Ids
    <3>3. QED
      BY <3>1, <3>2 DEF Ordering
  <2>3. QED
    BY <2>1, <2>2 DEF Ordering
<1>8. CASE SendFrame
  BY <1>8, OrderingStays DEF SendFrame
<1>9. CASE DecoderPop \/ DecoderDecodes \/ DecoderFails \/ DecoderFallsBack
  BY <1>9, OrderingStays DEF DecoderPop, DecoderDecodes, DecoderFails, DecoderFallsBack
<1>10. CASE UNCHANGED vars
  BY <1>10, OrderingStays DEF vars
<1>11. QED
  BY <1>1, <1>2, <1>3, <1>4, <1>5, <1>6, <1>7, <1>8, <1>9, <1>10 DEF Next

----------------------------------------------------------------------------
(* The decode queue.                                                        *)

\* The frame may be decoded after the one popped before.
Follows(frame, before, gen) ==
  frame.key \/ (before.gen = gen /\ frame.id = before.frame.id + 1)

\* The queue is a chain, from the frame popped last to the one expected next.
Queueing ==
  /\ queue \in Seq(WholeSet) /\ Len(queue) <= QueueCapacity
  /\ queueWaiting \in BOOLEAN /\ generation \in Nat
  /\ \A i \in 2..Len(queue) : queue[i].key \/ queue[i].id = queue[i - 1].id + 1
  /\ queue # <<>> => Follows(queue[1], popped, generation)
  /\ ~waiting /\ queue # <<>> => next = queue[Len(queue)].id + 1
  /\ ~waiting /\ queue = <<>> /\ ~queueWaiting =>
       popped.gen = generation /\ next = popped.frame.id + 1

\* An empty queue that waits for a keyframe is a chain.
LEMMA QueueingReset ==
  ASSUME Queueing, queue' = <<>>, queueWaiting' = TRUE, generation' \in Nat
  PROVE  Queueing'
<1>1. <<>> \in Seq(WholeSet) /\ Len(<<>>) = 0 /\ 0 <= QueueCapacity
  BY PathAssumption
<1>2. Len(queue') = 0 /\ \A i \in 2..0 : FALSE
  BY <1>1
<1>3. QED
  BY <1>1, <1>2 DEF Queueing

\* DecodeQueue::require_keyframe.
LEMMA QueueingRequired ==
  ASSUME Queueing, NEW times \in Nat, RequireKeyframe(times)
  PROVE  Queueing'
<1>1. queue' = <<>> /\ queueWaiting' = TRUE /\ generation' = generation + times
  BY DEF RequireKeyframe
<1>2. generation' \in Nat
  BY <1>1 DEF Queueing
<1>3. QED
  BY <1>1, <1>2, QueueingReset

\* The queue and the frame expected next, or none expected, stay.
LEMMA QueueingStays ==
  ASSUME Queueing, UNCHANGED <<decodeQueue, popped>>,
         waiting' = TRUE \/ UNCHANGED <<next, waiting>>
  PROVE  Queueing'
<1>1. UNCHANGED <<queue, queueWaiting, generation, popped>>
  BY DEF decodeQueue
<1>2. QED
  BY <1>1 DEF Queueing, Follows

\* DecodeQueue::push: the expected frame goes on with the chain, or starts it.
LEMMA QueueingFrame ==
  ASSUME Ordering, Queueing, DrainFrame
  PROVE  Queueing'
<1>1. PICK frame \in held :
        /\ frame.id = next /\ ~Refused(frame)
        /\ queue' = Append(IF Full THEN <<>> ELSE queue, frame)
        /\ queueWaiting' = (queueWaiting /\ ~frame.key) /\ next' = next + 1
  BY DEF DrainFrame
<1>2. UNCHANGED <<generation, waiting, popped>>
  BY DEF DrainFrame, decoding
<1>3. /\ frame \in WholeSet /\ frame.id \in Nat /\ frame.key \in BOOLEAN
      /\ waiting = FALSE /\ next \in Nat
  BY <1>1, WholeFacts DEF Ordering
<1>4. /\ queue \in Seq(WholeSet) /\ Len(queue) \in Nat /\ Len(queue) <= QueueCapacity
      /\ QueueCapacity \in Nat \ {0}
  BY PathAssumption DEF Queueing
<1>5. queueWaiting' \in BOOLEAN /\ generation' \in Nat
  BY <1>1, <1>2 DEF Queueing
<1>6. CASE Full
  <2>1. queue' = <<frame>> /\ frame.key
    BY <1>1, <1>3, <1>6 DEF Refused
  <2>2. queue' \in Seq(WholeSet) /\ Len(queue') = 1 /\ queue'[1] = frame /\ queue' # <<>>
    BY <1>3, <2>1
  <2>3. 1 <= QueueCapacity
    BY <1>4
  <2>4. QED
    BY <1>1, <1>2, <1>5, <2>1, <2>2, <2>3 DEF Queueing, Follows
<1>7. CASE ~Full
  <2> DEFINE n == Len(queue)
  <2>1. queue' = Append(queue, frame)
    BY <1>1, <1>7
  <2>2. /\ queue' \in Seq(WholeSet) /\ Len(queue') = n + 1 /\ queue' # <<>>
        /\ queue'[n + 1] = frame /\ \A i \in 1..n : queue'[i] = queue[i]
    BY <1>3, <1>4, <2>1
  <2>3. n \in Nat /\ n + 1 <= QueueCapacity
    BY <1>4, <1>7 DEF Full
  <2>4. queue'[1].key \/ (popped.gen = generation /\ queue'[1].id = popped.frame.id + 1)
    <3>1. CASE n = 0
      <4>1. queue = <<>> /\ queue'[1] = frame
        BY <1>4, <2>2, <3>1
      <4>2. frame.key \/ ~queueWaiting
        BY <1>1, <1>7 DEF Refused
      <4>3. QED
        BY <1>1, <1>3, <4>1, <4>2 DEF Queueing
    <3>2. CASE n # 0
      <4>1. queue # <<>> /\ queue'[1] = queue[1]
        BY <1>4, <2>2, <3>2
      <4>2. QED
        BY <4>1 DEF Queueing, Follows
    <3>3. QED
      BY <3>1, <3>2
  <2>5. ASSUME NEW i \in 2..Len(queue')
        PROVE  queue'[i].key \/ queue'[i].id = queue'[i - 1].id + 1
    <3>1. CASE i = n + 1
      <4>1. n # 0 /\ i - 1 = n /\ n \in 1..n
        BY <2>3, <3>1
      <4>2. next = queue[n].id + 1
        BY <1>3, <1>4, <4>1 DEF Queueing
      <4>3. QED
        BY <1>1, <2>2, <3>1, <4>1, <4>2
    <3>2. CASE i # n + 1
      <4>1. i \in 2..n /\ i \in 1..n /\ i - 1 \in 1..n
        BY <2>2, <2>3, <3>2
      <4>2. QED
        BY <2>2, <4>1 DEF Queueing
    <3>3. QED
      BY <3>1, <3>2
  <2>6. next' = queue'[Len(queue')].id + 1
    BY <1>1, <2>2
  <2>7. Len(queue') <= QueueCapacity
    BY <2>2, <2>3
  <2>8. Follows(queue'[1], popped', generation')
    BY <1>2, <2>4 DEF Follows
  <2>9. QED
    BY <1>5, <2>2, <2>5, <2>6, <2>7, <2>8 DEF Queueing
<1>8. QED
  BY <1>6, <1>7

\* pop_timeout: the rest of the chain follows the frame that was popped.
LEMMA QueueingPop ==
  ASSUME Ordering, Queueing, DecoderPop
  PROVE  Queueing'
<1>1. /\ queue # <<>> /\ queue' = Tail(queue)
      /\ popped' = [frame |-> queue[1], gen |-> generation]
      /\ UNCHANGED <<next, waiting, queueWaiting, generation>>
  BY DEF DecoderPop, order
<1> DEFINE n == Len(queue)
<1>2. queue \in Seq(WholeSet) /\ n \in Nat \ {0} /\ n <= QueueCapacity /\ QueueCapacity \in Nat
  BY <1>1, PathAssumption DEF Queueing
<1>3. /\ queue' \in Seq(WholeSet) /\ Len(queue') = n - 1
      /\ \A i \in 1..(n - 1) : queue'[i] = queue[i + 1]
  BY <1>1, <1>2
<1>4. Len(queue') <= QueueCapacity
  BY <1>2, <1>3
<1>5. popped'.gen = generation /\ popped'.frame = queue[1]
  BY <1>1
<1>6. ASSUME NEW i \in 2..Len(queue')
      PROVE  queue'[i].key \/ queue'[i].id = queue'[i - 1].id + 1
  <2>1. i + 1 \in 2..n /\ i \in 1..(n - 1) /\ i - 1 \in 1..(n - 1) /\ (i + 1) - 1 = i
        /\ (i - 1) + 1 = i
    BY <1>2, <1>3
  <2>2. queue'[i] = queue[i + 1] /\ queue'[i - 1] = queue[i]
    BY <1>3, <2>1
  <2>3. queue[i + 1].key \/ queue[i + 1].id = queue[i].id + 1
    BY <2>1 DEF Queueing
  <2>4. QED
    BY <2>2, <2>3
<1>7. ASSUME queue' # <<>>
      PROVE  /\ Follows(queue'[1], popped', generation')
             /\ ~waiting' => next' = queue'[Len(queue')].id + 1
  <2>1. n # 1
    BY <1>2, <1>3, <1>7
  <2> HIDE DEF n
  <2>2. 2 \in 2..n /\ 2 - 1 = 1 /\ 1 \in 1..(n - 1) /\ n - 1 \in 1..(n - 1) /\ (n - 1) + 1 = n
    BY <1>2, <2>1
  <2>3. queue'[1] = queue[2] /\ queue'[n - 1] = queue[n]
    BY <1>3, <2>2
  <2>4. queue[2].key \/ queue[2].id = queue[1].id + 1
    BY <2>2 DEF Queueing, n
  <2>5. Follows(queue'[1], popped', generation')
    BY <1>1, <1>5, <2>3, <2>4 DEF Follows
  <2>6. ~waiting => next = queue[n].id + 1
    BY <1>1 DEF Queueing, n
  <2>7. QED
    BY <1>1, <1>3, <2>3, <2>5, <2>6 DEF n
<1>8. ASSUME queue' = <<>>, ~waiting'
      PROVE  popped'.gen = generation' /\ next' = popped'.frame.id + 1
  <2>1. n = 1
    BY <1>2, <1>3, <1>8
  <2>2. next = queue[n].id + 1
    BY <1>1, <1>8 DEF Queueing
  <2>3. QED
    BY <1>1, <1>5, <2>1, <2>2
<1>9. QED
  BY <1>1, <1>3, <1>4, <1>6, <1>7, <1>8 DEF Queueing

\* Every step keeps the chain.
LEMMA QueueingStep ==
  ASSUME Carrying, Ordering, Queueing, [Next]_vars
  PROVE  Queueing'
<1>1. CASE Top
  <2>1. PICK expired \in 0..Len(pending) :
          LET resets == (IF expired > 0 THEN 1 ELSE 0) + (IF needs THEN 1 ELSE 0)
          IN IF resets > 0
             THEN RequireKeyframe(resets) /\ WaitForKeyframe
             ELSE UNCHANGED <<decodeQueue, order>>
    BY <1>1 DEF Top
  <2> DEFINE resets == (IF expired > 0 THEN 1 ELSE 0) + (IF needs THEN 1 ELSE 0)
  <2>2. resets \in Nat
    OBVIOUS
  <2>3. RequireKeyframe(resets) \/ UNCHANGED <<decodeQueue, order>>
    BY <2>1
  <2> HIDE DEF resets
  <2>4. UNCHANGED popped
    BY <1>1 DEF Top
  <2>5. CASE RequireKeyframe(resets)
    BY <2>2, <2>5, QueueingRequired
  <2>6. CASE UNCHANGED <<decodeQueue, order>>
    BY <2>4, <2>6, QueueingStays DEF order
  <2>7. QED
    BY <2>3, <2>5, <2>6
<1>2. CASE Suspend \/ ReceiveInvalid
  <2>1. RequireKeyframe(1) /\ 1 \in Nat
    BY <1>2 DEF Suspend, ReceiveInvalid
  <2>2. QED
    BY <2>1, QueueingRequired
<1>3. CASE ReceiveLastFragment
  <2>1. PICK f \in flight :
          /\ Completes(pending, done, f)
          /\ LET frame == Finished(Updated(pending, f))
             IN IF waiting /\ ~frame.key
                THEN /\ network' = "top"
                     /\ UNCHANGED <<order, decodeQueue>>
                ELSE Order(frame)
    BY <1>3 DEF ReceiveLastFragment
  <2>2. UNCHANGED popped
    BY <1>3 DEF ReceiveLastFragment, decoding
  <2> DEFINE frame == Finished(Updated(pending, f))
  <2>3. frame \in WholeSet
    BY <2>1, CompletedWhole
  <2>4. UNCHANGED <<order, decodeQueue>> \/ (~(waiting /\ ~frame.key) /\ Order(frame))
    BY <2>1
  <2> HIDE DEF frame
  <2>5. CASE UNCHANGED <<order, decodeQueue>>
    BY <2>2, <2>5, QueueingStays DEF order
  <2>6. CASE OrderedLate(frame)
    BY <2>2, <2>6, QueueingStays DEF order, OrderedLate
  <2>7. CASE OrderedLost(frame) \/ OrderedAnew(frame)
    <3>1. RequireKeyframe(1) /\ 1 \in Nat
      BY <2>7 DEF OrderedLost, OrderedAnew
    <3>2. QED
      BY <3>1, QueueingRequired
  <2>8. CASE OrderedNext(frame)
    BY <2>2, <2>8, QueueingStays DEF OrderedNext
  <2>9. QED
    BY <2>3, <2>4, <2>5, <2>6, <2>7, <2>8, OrderCases
<1>4. CASE DrainFrame
  BY <1>4, QueueingFrame
<1>5. CASE DrainRefused
  <2>1. waiting' = TRUE /\ UNCHANGED popped
        /\ (UNCHANGED decodeQueue \/ (queue' = <<>> /\ queueWaiting' = TRUE /\ UNCHANGED generation))
    BY <1>5 DEF DrainRefused, WaitForKeyframe, decoding
  <2>2. CASE UNCHANGED decodeQueue
    BY <2>1, <2>2, QueueingStays
  <2>3. CASE queue' = <<>> /\ queueWaiting' = TRUE /\ UNCHANGED generation
    BY <2>3, QueueingReset DEF Queueing
  <2>4. QED
    BY <2>1, <2>2, <2>3
<1>6. CASE DecoderPop
  BY <1>6, QueueingPop
<1>7. CASE UNCHANGED <<decodeQueue, popped, next, waiting>>
  BY <1>7, QueueingStays
<1>8. CASE SendFrame \/ ReceiveNothing \/ ReceiveConfig \/ ReceiveFragment \/ DrainEnd
  BY <1>7, <1>8 DEF SendFrame, ReceiveNothing, ReceiveConfig, ReceiveFragment, DrainEnd, order, decoding
<1>9. CASE DecoderDecodes \/ DecoderFails \/ DecoderFallsBack
  BY <1>7, <1>9 DEF DecoderDecodes, DecoderFails, DecoderFallsBack, order
<1>10. CASE UNCHANGED vars
  BY <1>7, <1>10 DEF vars, order, decoding
<1>11. QED
  BY <1>1, <1>2, <1>3, <1>4, <1>5, <1>6, <1>8, <1>9, <1>10 DEF Next

----------------------------------------------------------------------------
(* The decoder thread, and the theorems.                                    *)

\* The states of the decoder thread.
DecoderSet ==
  [pc : {"idle", "decoding"}, hardware : BOOLEAN, gen : Nat, refs : Id \cup {None},
   frame : WholeSet \cup {NoFrame}]

\* A frame is being decoded only if it came from the queue.
Feeding ==
  /\ needs \in BOOLEAN /\ decoder \in DecoderSet
  /\ decoder.pc = "decoding" => decoder.frame \in WholeSet

\* Every step keeps the decoder's state.
LEMMA FeedingStep ==
  ASSUME Queueing, Feeding, [Next]_vars
  PROVE  Feeding'
<1> USE DEF Feeding
<1>1. CASE Top
  <2>1. needs' = FALSE /\ UNCHANGED decoder
    BY <1>1 DEF Top
  <2>2. QED
    BY <2>1
<1>2. CASE DecoderPop
  <2>1. queue \in Seq(WholeSet) /\ queue # <<>> /\ generation \in Nat
    BY <1>2 DEF DecoderPop, Queueing
  <2>2. queue[1] \in WholeSet
    BY <2>1
  <2> DEFINE fresh == [decoder EXCEPT !.gen = generation,
                                      !.refs = IF generation = decoder.gen THEN @ ELSE None]
  <2>3. \/ decoder' = fresh /\ needs' = TRUE
        \/ decoder' = [fresh EXCEPT !.pc = "decoding", !.frame = queue[1]] /\ UNCHANGED needs
    BY <1>2 DEF DecoderPop
  <2>4. fresh \in DecoderSet /\ fresh.pc = "idle"
    BY <1>2, <2>1 DEF DecoderSet, DecoderPop
  <2> HIDE DEF fresh
  <2>5. CASE decoder' = fresh /\ needs' = TRUE
    BY <2>4, <2>5
  <2>6. CASE decoder' = [fresh EXCEPT !.pc = "decoding", !.frame = queue[1]] /\ UNCHANGED needs
    BY <2>2, <2>4, <2>6 DEF DecoderSet
  <2>7. QED
    BY <2>3, <2>5, <2>6
<1>3. CASE DecoderDecodes
  <2>1. /\ decoder.frame \in WholeSet /\ UNCHANGED needs
        /\ decoder' = [decoder EXCEPT !.pc = "idle", !.frame = NoFrame, !.refs = decoder.frame.id]
    BY <1>3 DEF DecoderDecodes
  <2>2. decoder.frame.id \in Id
    BY <2>1, WholeFacts
  <2>3. QED
    BY <2>1, <2>2 DEF DecoderSet
<1>4. CASE DecoderFails
  <2>1. PICK refs \in {None, decoder.refs} :
          decoder' = [decoder EXCEPT !.pc = "idle", !.frame = NoFrame, !.refs = refs]
    BY <1>4 DEF DecoderFails
  <2>2. needs' = TRUE
    BY <1>4 DEF DecoderFails
  <2>3. refs \in Id \cup {None}
    BY DEF DecoderSet
  <2>4. QED
    BY <2>1, <2>2, <2>3 DEF DecoderSet
<1>5. CASE DecoderFallsBack
  <2>1. needs' = TRUE /\ decoder' = [pc |-> "idle", hardware |-> FALSE, gen |-> generation,
                                     refs |-> None, frame |-> NoFrame]
    BY <1>5 DEF DecoderFallsBack
  <2>2. QED
    BY <2>1 DEF DecoderSet, Queueing
<1>6. CASE UNCHANGED <<needs, decoder>>
  BY <1>6
<1>7. CASE UNCHANGED decoding
  BY <1>6, <1>7 DEF decoding
<1>8. CASE SendFrame \/ ReceiveNothing \/ ReceiveConfig \/ Suspend \/ ReceiveInvalid
  BY <1>7, <1>8 DEF SendFrame, ReceiveNothing, ReceiveConfig, Suspend, ReceiveInvalid
<1>9. CASE ReceiveFragment \/ ReceiveLastFragment \/ DrainFrame \/ DrainRefused \/ DrainEnd
  BY <1>7, <1>9 DEF ReceiveFragment, ReceiveLastFragment, DrainFrame, DrainRefused, DrainEnd
<1>10. CASE UNCHANGED vars
  BY <1>7, <1>10 DEF vars
<1>11. QED
  BY <1>1, <1>2, <1>3, <1>4, <1>5, <1>8, <1>9, <1>10 DEF Next

\* The inductive invariant of VideoPath.
PathInv == Carrying /\ Ordering /\ Queueing /\ Feeding

\* The invariant holds at first,
LEMMA PathInvInit == Init => PathInv
<1> SUFFICES ASSUME Init PROVE PathInv
  OBVIOUS
<1>1. Carrying
  BY CarryingInit
<1>2. Ordering
  BY FS_EmptySet DEF Init, Ordering
<1>3. Queueing
  <2>1. <<>> \in Seq(WholeSet) /\ Len(<<>>) = 0 /\ 0 <= QueueCapacity /\ \A i \in 2..0 : FALSE
    BY PathAssumption
  <2>2. QED
    BY <2>1 DEF Init, Queueing
<1>4. Feeding
  BY DEF Init, Feeding, DecoderSet
<1>5. QED
  BY <1>1, <1>2, <1>3, <1>4 DEF PathInv

\* and every step keeps it.
LEMMA PathInvStep == PathInv /\ [Next]_vars => PathInv'
  BY CarryingStep, OrderingStep, QueueingStep, FeedingStep DEF PathInv

\* Fragments, reassembler, frames held back, decode queue and decoder keep
\* their types, and the bounds of VideoReassembler and of DecodeQueue.
THEOREM PathTypes == Spec => []TypeOK
<1>1. PathInv => TypeOK
  <2> SUFFICES ASSUME PathInv PROVE TypeOK
    OBVIOUS
  <2>1. WholeSet \subseteq Frame
    BY DEF WholeSet
  <2>2. queue \in Seq(Frame) /\ held \subseteq Frame
    BY <2>1 DEF PathInv, Queueing, Ordering
  <2>3. next \in Nat \cup {None}
    BY DEF PathInv, Ordering
  <2>4. decoder.pc \in {"idle", "decoding"} /\ decoder.refs \in Id \cup {None}
    BY DEF PathInv, Feeding, DecoderSet
  <2>5. QED
    BY <2>2, <2>3, <2>4 DEF PathInv, Carrying, Ordering, Queueing, Feeding, TypeOK
<1>2. QED
  BY <1>1, PathInvInit, PathInvStep, PTL DEF Spec

\* Whatever fragments are lost, late, evicted or expired, and with the last one
\* received or recovered by XOR: a frame that VideoReassembler hands on is the
\* frame the host encoded.
THEOREM FramesAreWhole == Spec => []WholeFrames
<1>1. PathInv => WholeFrames
  <2> SUFFICES ASSUME PathInv PROVE WholeFrames
    OBVIOUS
  <2>1. held \subseteq WholeSet
    BY DEF PathInv, Ordering
  <2>2. \A i \in DOMAIN queue : queue[i] \in WholeSet
    <3>1. queue \in Seq(WholeSet)
      BY DEF PathInv, Queueing
    <3>2. QED
      BY <3>1
  <2>3. QED
    BY <2>1, <2>2 DEF WholeFrames, WholeSet
<1>2. QED
  BY <1>1, PathInvInit, PathInvStep, PTL DEF Spec

\* Of the frames that are complete the viewer holds back those ahead of the
\* expected one, fewer than VIDEO_REORDER_WINDOW when its loop goes on, and the
\* expected one is the successor of the last frame in the decode queue.
THEOREM HeldFramesAreAhead == Spec => []HeldAreAhead
<1>1. PathInv => HeldAreAhead
  BY DEF PathInv, Ordering, Queueing, HeldAreAhead
<1>2. QED
  BY <1>1, PathInvInit, PathInvStep, PTL DEF Spec

\* What DecodeQueue hands the decoder is a chain: a keyframe, or the successor
\* of the frame before under the same generation.
THEOREM PopsAreChained == Spec => PoppedChain
<1> DEFINE Chained ==
      popped' # popped =>
        \/ popped'.frame.key
        \/ popped'.gen = popped.gen /\ popped'.frame.id = popped.frame.id + 1
<1>1. ASSUME PathInv, [Next]_vars
      PROVE  [Chained]_vars
  <2>1. CASE DecoderPop
    <3>1. popped' = [frame |-> queue[1], gen |-> generation] /\ queue # <<>>
      BY <2>1 DEF DecoderPop
    <3>2. Follows(queue[1], popped, generation)
      BY <1>1, <3>1 DEF PathInv, Queueing
    <3>3. QED
      BY <3>1, <3>2 DEF Follows
  <2>2. CASE UNCHANGED popped
    BY <2>2
  <2>3. CASE SendFrame \/ ReceiveNothing \/ ReceiveConfig \/ Suspend \/ ReceiveInvalid
    BY <2>2, <2>3 DEF SendFrame, ReceiveNothing, ReceiveConfig, Suspend, ReceiveInvalid, decoding
  <2>4. CASE ReceiveFragment \/ ReceiveLastFragment \/ DrainFrame \/ DrainRefused \/ DrainEnd
    BY <2>2, <2>4 DEF ReceiveFragment, ReceiveLastFragment, DrainFrame, DrainRefused, DrainEnd,
                      decoding
  <2>5. CASE Top \/ DecoderDecodes \/ DecoderFails \/ DecoderFallsBack
    BY <2>2, <2>5 DEF Top, DecoderDecodes, DecoderFails, DecoderFallsBack
  <2>6. CASE UNCHANGED vars
    BY <2>6
  <2>7. QED
    BY <1>1, <2>1, <2>3, <2>4, <2>5, <2>6 DEF Next
<1>2. QED
  BY <1>1, PathInvInit, PathInvStep, PTL DEF Spec, PoppedChain

----------------------------------------------------------------------------
(* WireProtocol: bytes and fields.                                          *)

Byte == Int \X Nat \X Nat

\* The field at the offset of some bytes is this integer, as it was written.
Written(bytes, offset, value, width) ==
  /\ offset + width <= Len(bytes)
  /\ \A k \in 1..width : bytes[offset + k] = <<value, width, k>>

\* An integer is as many bytes as it is wide.
LEMMA BytesOfInteger ==
  ASSUME NEW value \in Int, NEW width \in Nat
  PROVE  /\ Bytes(value, width) \in Seq(Byte)
         /\ Len(Bytes(value, width)) = width
         /\ Written(Bytes(value, width), 0, value, width)
<1> DEFINE b == Bytes(value, width)
<1>1. b = [k \in 1..width |-> <<value, width, k>>]
  BY DEF Bytes
<1>2. \A k \in 1..width : <<value, width, k>> \in Byte
  BY DEF Byte
<1>3. b \in Seq(Byte)
  BY <1>1, <1>2, IsASeq
<1>4. Len(b) = width
  BY <1>1, <1>3, LenProperties
<1>5. \A k \in 1..width : b[0 + k] = <<value, width, k>>
  BY <1>1
<1> HIDE DEF b
<1>6. Written(b, 0, value, width)
  BY <1>4, <1>5 DEF Written
<1> QED BY <1>3, <1>4, <1>6 DEF b

\* A field that was written is read back.
LEMMA FieldIsRead ==
  ASSUME NEW bytes \in Seq(Byte), NEW offset \in Nat, NEW value \in Int,
         NEW width \in Nat \ {0}, Written(bytes, offset, value, width)
  PROVE  Read(bytes, offset, width) = value
<1> DEFINE part == SubSeq(bytes, offset + 1, offset + width)
           b == Bytes(value, width)
<1>1. Len(bytes) \in Nat /\ offset + width <= Len(bytes)
  BY LenProperties DEF Written
<1>2. \A i \in offset + 1 .. offset + width : bytes[i] \in Byte
  BY <1>1, ElementOfSeq
<1>3. /\ part \in Seq(Byte) /\ Len(part) = width
      /\ \A k \in 1..width : part[k] = bytes[offset + k]
  <2>1. /\ part \in Seq(Byte)
        /\ Len(part) = IF offset + 1 <= offset + width
                       THEN offset + width - (offset + 1) + 1 ELSE 0
        /\ \A k \in 1 .. offset + width - (offset + 1) + 1 : part[k] = bytes[offset + 1 + k - 1]
    BY <1>2, SubSeqProperties
  <2> QED BY <2>1
<1>4. /\ b \in Seq(Byte) /\ Len(b) = width
      /\ \A k \in 1..width : b[k] = <<value, width, k>>
  BY BytesOfInteger DEF Bytes
<1> HIDE DEF part, b
<1>5. part = b
  <2>1. \A k \in 1..Len(part) : part[k] = b[k]
    BY <1>3, <1>4 DEF Written
  <2> QED BY <1>3, <1>4, <2>1, SeqEqual
<1>6. part # <<>> /\ part[1] = <<value, width, 1>>
  BY <1>3, <1>4, <1>5, EmptySeq
<1>7. Value(part) = value
  BY <1>3, <1>5, <1>6 DEF Value, b
<1> QED BY <1>1, <1>7 DEF Read, part

\* A field stays where it is when bytes are put behind it, and is shifted by those put before it.
LEMMA FieldInFront ==
  ASSUME NEW s \in Seq(Byte), NEW t \in Seq(Byte), NEW offset \in Nat, NEW value \in Int,
         NEW width \in Nat, Written(s, offset, value, width)
  PROVE  Written(s \o t, offset, value, width)
<1>1. /\ Len(s) \in Nat /\ Len(t) \in Nat /\ offset + width <= Len(s)
      /\ \A k \in 1..width : s[offset + k] = <<value, width, k>>
  BY LenProperties DEF Written
<1>2. /\ Len(s \o t) = Len(s) + Len(t)
      /\ \A i \in 1..Len(s) + Len(t) : (s \o t)[i] = IF i <= Len(s) THEN s[i] ELSE t[i - Len(s)]
  BY ConcatProperties
<1>3. ASSUME NEW k \in 1..width PROVE (s \o t)[offset + k] = <<value, width, k>>
  <2>1. offset + k \in 1..Len(s) + Len(t) /\ offset + k <= Len(s)
    BY <1>1
  <2> QED BY <1>1, <1>2, <2>1
<1>4. offset + width <= Len(s \o t)
  BY <1>1, <1>2
<1> QED BY <1>3, <1>4 DEF Written

LEMMA FieldBehind ==
  ASSUME NEW s \in Seq(Byte), NEW t \in Seq(Byte), NEW offset \in Nat, NEW value \in Int,
         NEW width \in Nat, Written(t, offset, value, width)
  PROVE  Written(s \o t, Len(s) + offset, value, width)
<1>1. /\ Len(s) \in Nat /\ Len(t) \in Nat /\ offset + width <= Len(t)
      /\ \A k \in 1..width : t[offset + k] = <<value, width, k>>
  BY LenProperties DEF Written
<1>2. /\ Len(s \o t) = Len(s) + Len(t)
      /\ \A i \in 1..Len(s) + Len(t) : (s \o t)[i] = IF i <= Len(s) THEN s[i] ELSE t[i - Len(s)]
  BY ConcatProperties
<1>3. ASSUME NEW k \in 1..width PROVE (s \o t)[Len(s) + offset + k] = <<value, width, k>>
  <2> DEFINE i == Len(s) + offset + k
  <2>1. i \in 1..Len(s) + Len(t) /\ ~(i <= Len(s)) /\ i - Len(s) = offset + k
    BY <1>1
  <2> HIDE DEF i
  <2>2. (s \o t)[i] = t[i - Len(s)]
    BY <1>2, <2>1
  <2> QED BY <1>1, <2>1, <2>2 DEF i
<1>4. Len(s) + offset + width <= Len(s \o t)
  BY <1>1, <1>2
<1> QED BY <1>3, <1>4 DEF Written

LEMMA Joined ==
  ASSUME NEW s \in Seq(Byte), NEW t \in Seq(Byte)
  PROVE  s \o t \in Seq(Byte) /\ Len(s \o t) = Len(s) + Len(t)
BY ConcatProperties

\* What is behind a header is the rest.
LEMMA BehindHeader ==
  ASSUME NEW s \in Seq(Byte), NEW t \in Seq(Byte), NEW n, n = Len(s)
  PROVE  After(s \o t, n) = t
<1> DEFINE c == s \o t
           p == SubSeq(c, n + 1, Len(c))
<1>1. /\ n \in Nat /\ Len(t) \in Nat /\ c \in Seq(Byte) /\ Len(c) = n + Len(t)
      /\ \A i \in 1..n + Len(t) : c[i] = IF i <= n THEN s[i] ELSE t[i - n]
  BY LenProperties, ConcatProperties
<1>2. \A i \in n + 1..Len(c) : c[i] \in Byte
  <2> HIDE DEF c
  <2> QED BY <1>1, ElementOfSeq
<1> HIDE DEF c
<1>3. /\ p \in Seq(Byte) /\ Len(p) = IF n + 1 <= Len(c) THEN Len(c) - (n + 1) + 1 ELSE 0
      /\ \A k \in 1..Len(c) - (n + 1) + 1 : p[k] = c[n + 1 + k - 1]
  BY <1>1, <1>2, SubSeqProperties
<1> HIDE DEF p
<1>4. Len(p) = Len(t)
  BY <1>1, <1>3
<1>5. ASSUME NEW k \in 1..Len(p) PROVE p[k] = t[k]
  <2>1. k \in 1..Len(c) - (n + 1) + 1 /\ n + 1 + k - 1 = n + k
    BY <1>1, <1>4
  <2>2. n + k \in 1..n + Len(t) /\ ~(n + k <= n) /\ n + k - n = k
    BY <1>1, <1>4
  <2>3. p[k] = c[n + k]
    BY <1>3, <2>1
  <2>4. c[n + k] = t[k]
    BY <1>1, <2>2
  <2> QED BY <2>3, <2>4
<1>6. p = t
  BY <1>3, <1>4, <1>5, SeqEqual
<1> QED BY <1>6 DEF After, c, p

\* A payload comes back as it was.
LEMMA PayloadIsRead ==
  ASSUME NEW values \in Seq(Int)
  PROVE  /\ Octets(values) \in Seq(Byte) /\ Len(Octets(values)) = Len(values)
         /\ PayloadOf(Octets(values)) = values
<1> DEFINE n == Len(values)
           o == Octets(values)
           p == PayloadOf(o)
<1>1. n \in Nat /\ values \in [1..n -> Int] /\ DOMAIN values = 1..n
  BY LenProperties
<1>2. ASSUME NEW v \in Int PROVE Bytes(v, 1)[1] = <<v, 1, 1>>
  BY DEF Bytes
<1>3. \A k \in 1..n : values[k] \in Int
  BY <1>1
<1> HIDE DEF n
<1>4. o = [k \in 1..n |-> <<values[k], 1, 1>>]
  BY <1>1, <1>2, <1>3 DEF Octets
<1>5. \A k \in 1..n : <<values[k], 1, 1>> \in Byte
  BY <1>3 DEF Byte
<1>6. o \in Seq(Byte) /\ DOMAIN o = 1..n /\ Len(o) = n
  <2>1. o \in Seq(Byte)
    BY <1>1, <1>4, <1>5, IsASeq
  <2> QED BY <1>1, <1>4, <2>1, LenProperties
<1>7. ASSUME NEW v \in Int PROVE Value(<< <<v, 1, 1>> >>) = v
  <2>1. Bytes(v, 1) = << <<v, 1, 1>> >>
    BY DEF Bytes
  <2> QED BY <2>1 DEF Value
<1>8. \A k \in 1..n : o[k] = <<values[k], 1, 1>>
  BY <1>4
<1> HIDE DEF o
<1>9. p = [k \in 1..n |-> values[k]]
  BY <1>3, <1>6, <1>7, <1>8 DEF PayloadOf
<1>10. p = values
  BY <1>1, <1>9
<1> QED BY <1>6, <1>10 DEF o, n

\* A packet's bytes: the header, then its body.
Framed(tag, body) == Magic \o Bytes(tag, 1) \o body

LEMMA FramedIsRead ==
  ASSUME NEW tag \in Int, NEW body \in Seq(Byte)
  PROVE  /\ Framed(tag, body) \in Seq(Byte) /\ Len(Framed(tag, body)) = HeaderLen + Len(body)
         /\ SubSeq(Framed(tag, body), 1, MagicLen) = Magic
         /\ Read(Framed(tag, body), MagicLen, 1) = tag
         /\ After(Framed(tag, body), HeaderLen) = body
<1> DEFINE t == Bytes(tag, 1)
           h == Magic \o t
<1>1. Magic \in Seq(Byte) /\ Len(Magic) = 4
  <2>1. Bytes(2, 4) \in Seq(Byte) /\ Len(Bytes(2, 4)) = 4
    BY 2 \in Int, 4 \in Nat, BytesOfInteger
  <2> QED BY <2>1 DEF Magic, MagicLen
<1>2. t \in Seq(Byte) /\ Len(t) = 1 /\ Written(t, 0, tag, 1)
  BY BytesOfInteger
<1> HIDE DEF t
<1>3. h \in Seq(Byte) /\ Len(h) = 5
  <2>1. ASSUME NEW m \in Seq(Byte), NEW u \in Seq(Byte), Len(m) = 4, Len(u) = 1
        PROVE  m \o u \in Seq(Byte) /\ Len(m \o u) = 5
    <3>1. m \o u \in Seq(Byte) /\ Len(m \o u) = Len(m) + Len(u)
      BY Joined
    <3> QED BY <2>1, <3>1
  <2> QED BY <1>1, <1>2, <2>1
<1>4. Written(h, 4, tag, 1)
  <2>1. Written(h, Len(Magic) + 0, tag, 1)
    BY <1>1, <1>2, FieldBehind
  <2> QED BY <1>1, <2>1
<1>5. SubSeq(h, 1, 4) = Magic
  <2>1. ASSUME NEW m \in Seq(Byte), NEW u \in Seq(Byte), Len(m) = 4
        PROVE  SubSeq(m \o u, 1, 4) = SubSeq(m, 1, 4)
    <3>1. 1 \in 1..Len(m) /\ 4 \in 1..Len(m)
      BY <2>1
    <3> QED BY <3>1, SubSeqOfConcat1
  <2>2. SubSeq(h, 1, 4) = SubSeq(Magic, 1, 4)
    BY <1>1, <1>2, <2>1
  <2>3. SubSeq(Magic, 1, 4) = Magic
    BY <1>1, SubSeqFull
  <2> QED BY <2>2, <2>3
<1> HIDE DEF h
<1> DEFINE f == h \o body
<1>6. f \in Seq(Byte) /\ Len(f) = 5 + Len(body)
  BY <1>3, Joined
<1>7. SubSeq(f, 1, 4) = Magic
  <2>1. SubSeq(f, 1, 4) = SubSeq(h, 1, 4)
    <3>1. 1 \in 1..Len(h) /\ 4 \in 1..Len(h)
      BY <1>3
    <3> QED BY <1>3, <3>1, SubSeqOfConcat1
  <2> QED BY <1>5, <2>1
<1>8. After(f, 5) = body
  BY <1>3, BehindHeader
<1>9. Written(f, 4, tag, 1)
  BY <1>3, <1>4, FieldInFront
<1> HIDE DEF f
<1>10. Read(f, 4, 1) = tag
  BY <1>6, <1>9, FieldIsRead
<1> QED BY <1>6, <1>7, <1>8, <1>10 DEF f, h, t, Framed, HeaderLen, MagicLen

\* The kind of a packet is found again.
LEMMA KindIsRead ==
  ASSUME NEW p, \E k \in DOMAIN Kinds : Kinds[k] = p.kind, Body(p) \in Seq(Byte)
  PROVE  \E tag \in 1..16 : Kinds[tag] = p.kind /\ Encode(p) = Framed(tag, Body(p))
<1> DEFINE tag == CHOOSE k \in DOMAIN Kinds : Kinds[k] = p.kind
<1>1. tag \in DOMAIN Kinds /\ Kinds[tag] = p.kind
  OBVIOUS
<1>2. DOMAIN Kinds = 1..16
  BY DEF Kinds
<1>3. Encode(p) = Framed(tag, Body(p))
  BY DEF Encode, Framed
<1> QED BY <1>1, <1>2, <1>3

\* So that the rest depends on the kind and the body alone.
LEMMA FrameIsDecoded ==
  ASSUME NEW tag \in 1..16, NEW b \in Seq(Byte)
  PROVE  LET f == Framed(tag, b)
             kind == Kinds[tag]
         IN  /\ kind = "hello" => Decode(f) = DecodeHello(b)
             /\ kind \in Texts => Decode(f) = [kind |-> kind, payload |-> PayloadOf(b)]
             /\ kind \in Numbered /\ Len(b) = 8 =>
                  Decode(f) = [kind |-> kind, id |-> Read(b, 0, 8)]
             /\ kind \in Bare /\ b = <<>> => Decode(f) = [kind |-> kind]
             /\ kind = "audio" => Decode(f) = DecodeAudio(b)
             /\ kind = "clipboard" => Decode(f) = DecodeClipboard(b)
             /\ kind = "video" => Decode(f) = DecodeVideo(b)
             /\ kind = "cursor" => Decode(f) = DecodeCursor(b)
             /\ kind = "stats" => Decode(f) = DecodeStats(b)
             /\ kind = "probe_reply" /\ Len(b) = 1 =>
                  Decode(f) = [kind |-> kind, video |-> HasBit(Read(b, 0, 1), 1),
                               busy |-> HasBit(Read(b, 0, 1), 2)]
             /\ kind = "events" => Decode(f) = DecodeEvents(b)
<1> DEFINE f == Framed(tag, b)
           kind == Kinds[tag]
<1>1. /\ Len(f) = HeaderLen + Len(b) /\ SubSeq(f, 1, MagicLen) = Magic
      /\ Read(f, MagicLen, 1) = tag /\ After(f, HeaderLen) = b
  BY FramedIsRead
<1>2. ~(Len(f) < HeaderLen)
  BY <1>1, LenProperties DEF HeaderLen, MagicLen
<1>3. tag \in DOMAIN Kinds
  BY DEF Kinds
<1> HIDE DEF f, kind
<1>4. Decode(f) =
        CASE kind = "hello" -> DecodeHello(b)
          [] kind \in Texts -> [kind |-> kind, payload |-> PayloadOf(b)]
          [] kind \in Numbered /\ Len(b) = 8 -> [kind |-> kind, id |-> Read(b, 0, 8)]
          [] kind \in Bare /\ b = <<>> -> [kind |-> kind]
          [] kind = "audio" -> DecodeAudio(b)
          [] kind = "clipboard" -> DecodeClipboard(b)
          [] kind = "video" -> DecodeVideo(b)
          [] kind = "cursor" -> DecodeCursor(b)
          [] kind = "stats" -> DecodeStats(b)
          [] kind = "probe_reply" /\ Len(b) = 1 ->
               [kind |-> kind, video |-> HasBit(Read(b, 0, 1), 1),
                busy |-> HasBit(Read(b, 0, 1), 2)]
          [] kind = "events" -> DecodeEvents(b)
          [] OTHER -> Invalid
  BY <1>1, <1>2, <1>3 DEF Decode, kind
<1>5. kind = "hello" => Decode(f) = DecodeHello(b)
  BY <1>4 DEF Texts, Numbered, Bare
<1>6. kind \in Texts => Decode(f) = [kind |-> kind, payload |-> PayloadOf(b)]
  BY <1>4 DEF Texts, Numbered, Bare
<1>7. kind \in Numbered /\ Len(b) = 8 => Decode(f) = [kind |-> kind, id |-> Read(b, 0, 8)]
  BY <1>4 DEF Texts, Numbered, Bare
<1>8. kind \in Bare /\ b = <<>> => Decode(f) = [kind |-> kind]
  BY <1>4 DEF Texts, Numbered, Bare
<1>9. kind = "audio" => Decode(f) = DecodeAudio(b)
  BY <1>4 DEF Texts, Numbered, Bare
<1>10. kind = "clipboard" => Decode(f) = DecodeClipboard(b)
  BY <1>4 DEF Texts, Numbered, Bare
<1>11. kind = "video" => Decode(f) = DecodeVideo(b)
  BY <1>4 DEF Texts, Numbered, Bare
<1>12. kind = "cursor" => Decode(f) = DecodeCursor(b)
  BY <1>4 DEF Texts, Numbered, Bare
<1>13. kind = "stats" => Decode(f) = DecodeStats(b)
  BY <1>4 DEF Texts, Numbered, Bare
<1>14. kind = "probe_reply" /\ Len(b) = 1 =>
         Decode(f) = [kind |-> kind, video |-> HasBit(Read(b, 0, 1), 1),
                      busy |-> HasBit(Read(b, 0, 1), 2)]
  BY <1>4 DEF Texts, Numbered, Bare
<1>15. kind = "events" => Decode(f) = DecodeEvents(b)
  BY <1>4 DEF Texts, Numbered, Bare
<1> QED BY <1>5, <1>6, <1>7, <1>8, <1>9, <1>10, <1>11, <1>12, <1>13, <1>14, <1>15 DEF f, kind

\* Every field of the one is one of the other.
Kept(h, g) ==
  \A o \in Nat, x \in Int, y \in Nat : Written(h, o, x, y) => Written(g, o, x, y)

\* A header of n bytes; one with another field behind it; one with a payload behind it.
Header(h, n) == h \in Seq(Byte) /\ n \in Nat /\ Len(h) = n
Adds(h, n, v, w, g) == Header(g, n + w) /\ Written(g, n, v, w) /\ Kept(h, g)
Carries(h, n, values, b) ==
  Header(b, n + Len(values)) /\ PayloadOf(After(b, n)) = values /\ Kept(h, b)

LEMMA FieldAdded ==
  ASSUME NEW h, NEW n, Header(h, n), NEW v \in Int, NEW w \in Nat
  PROVE  Adds(h, n, v, w, h \o Bytes(v, w))
<1> DEFINE t == Bytes(v, w)
<1>1. t \in Seq(Byte) /\ Len(t) = w /\ Written(t, 0, v, w)
  BY BytesOfInteger
<1>2. h \in Seq(Byte) /\ Len(h) = n /\ n \in Nat
  BY DEF Header
<1> HIDE DEF t
<1>3. h \o t \in Seq(Byte) /\ Len(h \o t) = Len(h) + Len(t)
  BY <1>1, <1>2, Joined
<1>4. Written(h \o t, Len(h) + 0, v, w)
  BY <1>1, <1>2, FieldBehind
<1>5. Kept(h, h \o t)
  BY <1>1, <1>2, FieldInFront DEF Kept
<1>6. Len(h) + 0 = n /\ Len(h \o t) = n + w
  BY <1>1, <1>2, <1>3
<1>7. Written(h \o t, n, v, w)
  BY <1>4, <1>6
<1>8. Header(h \o t, n + w)
  BY <1>2, <1>3, <1>6 DEF Header
<1> QED BY <1>5, <1>7, <1>8 DEF t, Adds

LEMMA PayloadAdded ==
  ASSUME NEW h, NEW n, Header(h, n), NEW values \in Seq(Int)
  PROVE  Carries(h, n, values, h \o Octets(values))
<1> DEFINE t == Octets(values)
<1>1. t \in Seq(Byte) /\ Len(t) = Len(values) /\ PayloadOf(t) = values
  BY PayloadIsRead
<1>2. h \in Seq(Byte) /\ Len(h) = n /\ n \in Nat
  BY DEF Header
<1> HIDE DEF t
<1>3. h \o t \in Seq(Byte) /\ Len(h \o t) = Len(h) + Len(t)
  BY <1>1, <1>2, Joined
<1>4. After(h \o t, n) = t
  BY <1>1, <1>2, BehindHeader
<1>5. Kept(h, h \o t)
  BY <1>1, <1>2, FieldInFront DEF Kept
<1>6. Len(h \o t) = n + Len(values) /\ Len(values) \in Nat
  BY <1>1, <1>2, <1>3, LenProperties
<1>7. Header(h \o t, n + Len(values))
  BY <1>2, <1>3, <1>6 DEF Header
<1> QED BY <1>1, <1>4, <1>5, <1>7 DEF t, Carries

LEMMA StillWritten ==
  ASSUME NEW h, NEW g, Kept(h, g), NEW o \in Nat, NEW x \in Int, NEW y \in Nat,
         Written(h, o, x, y)
  PROVE  Written(g, o, x, y)
BY DEF Kept

\* The first field of a body.
LEMMA FieldBegun ==
  ASSUME NEW v \in Int, NEW w \in Nat
  PROVE  Header(Bytes(v, w), w) /\ Written(Bytes(v, w), 0, v, w)
BY BytesOfInteger DEF Header

\* An audio packet.
LEMMA AudioIsRead ==
  ASSUME NEW p, WellFormed(p), p.kind = "audio"
  PROVE  Body(p) \in Seq(Byte) /\ DecodeAudio(Body(p)) = p
<1>1. /\ p \in [kind : {"audio"}, sequence : Int, timestamp : Int, payload : Seq(Int)]
      /\ Len(p.payload) \in 1..MaxAudioPayload
  BY DEF WellFormed, Texts, Numbered, Bare
<1> DEFINE q == p.sequence
           t == p.timestamp
           o == p.payload
<1>2. /\ q \in Int /\ t \in Int /\ o \in Seq(Int) /\ Len(o) \in Nat \ {0}
      /\ Len(o) <= MaxAudioPayload
      /\ p = [kind |-> "audio", sequence |-> q, timestamp |-> t, payload |-> o]
  BY <1>1
<1> HIDE DEF q, t, o
<1> DEFINE h == Bytes(q, 4)
           g == h \o Bytes(t, 8)
           b == g \o Octets(o)
<1>3. Header(h, 4) /\ Written(h, 0, q, 4)
  BY <1>2, 4 \in Nat, FieldBegun
<1> HIDE DEF h
<1>4. Adds(h, 4, t, 8, g)
  BY <1>2, <1>3, FieldAdded
<1> HIDE DEF g
<1>5. Header(g, 12) /\ Written(g, 4, t, 8) /\ Written(g, 0, q, 4)
  <2>1. Header(g, 4 + 8) /\ Written(g, 4, t, 8) /\ Kept(h, g)
    BY <1>4 DEF Adds
  <2>2. Header(g, 12)
    BY <2>1, 4 + 8 = 12
  <2>3. Written(g, 0, q, 4)
    BY <1>2, <1>3, <2>1, StillWritten
  <2> QED BY <2>1, <2>2, <2>3
<1>6. Carries(g, 12, o, b)
  BY <1>2, <1>5, PayloadAdded
<1>7. b = Body(p)
  BY <1>2 DEF Body, b, g, h, Texts, Numbered, Bare
<1> HIDE DEF b
<1>8. /\ b \in Seq(Byte) /\ Len(b) = 12 + Len(o) /\ PayloadOf(After(b, 12)) = o
      /\ Written(b, 4, t, 8) /\ Written(b, 0, q, 4)
  <2>1. Header(b, 12 + Len(o)) /\ PayloadOf(After(b, 12)) = o /\ Kept(g, b)
    BY <1>6 DEF Carries
  <2>2. Written(b, 4, t, 8)
    BY <1>2, <1>5, <2>1, StillWritten
  <2>3. Written(b, 0, q, 4)
    BY <1>2, <1>5, <2>1, StillWritten
  <2> QED BY <2>1, <2>2, <2>3 DEF Header
<1>9. Read(b, 0, 4) = q /\ Read(b, 4, 8) = t
  BY <1>2, <1>8, FieldIsRead
<1>10. ~(Len(b) <= 12 \/ Len(b) - 12 > MaxAudioPayload)
  <2> DEFINE n == Len(b)
             k == Len(o)
  <2>1. n = 12 + k /\ k \in Nat \ {0} /\ k <= MaxAudioPayload /\ MaxAudioPayload \in Int
    BY <1>2, <1>8, DatagramAssumption DEF MaxAudioPayload, HeaderLen, MagicLen, AudioHeaderLen
  <2> HIDE DEF n, k
  <2>2. ~(n <= 12 \/ n - 12 > MaxAudioPayload)
    BY <2>1
  <2> QED BY <2>2 DEF n
<1>11. DecodeAudio(b) = p
  BY <1>2, <1>8, <1>9, <1>10 DEF DecodeAudio, AudioHeaderLen
<1> QED BY <1>7, <1>8, <1>11

\* A clipboard packet.
LEMMA ClipboardIsRead ==
  ASSUME NEW p, WellFormed(p), p.kind = "clipboard"
  PROVE  Body(p) \in Seq(Byte) /\ DecodeClipboard(Body(p)) = p
<1>1. /\ p \in [kind : {"clipboard"}, transfer_id : Int, index : Nat, total : Nat,
                payload : Seq(Int)]
      /\ p.index < p.total
  BY DEF WellFormed, Texts, Numbered, Bare
<1> DEFINE q == p.transfer_id
           i == p.index
           t == p.total
           o == p.payload
<1>2. /\ q \in Int /\ i \in Nat /\ t \in Nat /\ i < t /\ o \in Seq(Int) /\ Len(o) \in Nat
      /\ p = [kind |-> "clipboard", transfer_id |-> q, index |-> i, total |-> t, payload |-> o]
  BY <1>1
<1> HIDE DEF q, i, t, o
<1> DEFINE h == Bytes(q, 8)
           g == h \o Bytes(i, 2)
           f == g \o Bytes(t, 2)
           b == f \o Octets(o)
<1>3. Header(h, 8) /\ Written(h, 0, q, 8)
  BY <1>2, 8 \in Nat, FieldBegun
<1> HIDE DEF h
<1>4. Adds(h, 8, i, 2, g)
  BY <1>2, <1>3, FieldAdded
<1> HIDE DEF g
<1>5. Header(g, 10) /\ Written(g, 8, i, 2) /\ Written(g, 0, q, 8)
  <2>1. Header(g, 8 + 2) /\ Written(g, 8, i, 2) /\ Kept(h, g)
    BY <1>4 DEF Adds
  <2>2. Header(g, 10)
    BY <2>1, 8 + 2 = 10
  <2>3. Written(g, 0, q, 8)
    BY <1>2, <1>3, <2>1, StillWritten
  <2> QED BY <2>1, <2>2, <2>3
<1>6. Adds(g, 10, t, 2, f)
  BY <1>2, <1>5, FieldAdded
<1> HIDE DEF f
<1>7. Header(f, 12) /\ Written(f, 10, t, 2) /\ Written(f, 8, i, 2) /\ Written(f, 0, q, 8)
  <2>1. Header(f, 10 + 2) /\ Written(f, 10, t, 2) /\ Kept(g, f)
    BY <1>6 DEF Adds
  <2>2. Header(f, 12)
    BY <2>1, 10 + 2 = 12
  <2>3. Written(f, 8, i, 2)
    BY <1>2, <1>5, <2>1, StillWritten
  <2>4. Written(f, 0, q, 8)
    BY <1>2, <1>5, <2>1, StillWritten
  <2> QED BY <2>1, <2>2, <2>3, <2>4
<1>8. Carries(f, 12, o, b)
  BY <1>2, <1>7, PayloadAdded
<1>9. b = Body(p)
  BY <1>2 DEF Body, b, f, g, h, Texts, Numbered, Bare
<1> HIDE DEF b
<1>10. /\ b \in Seq(Byte) /\ Len(b) = 12 + Len(o) /\ PayloadOf(After(b, 12)) = o
       /\ Written(b, 10, t, 2) /\ Written(b, 8, i, 2) /\ Written(b, 0, q, 8)
  <2>1. Header(b, 12 + Len(o)) /\ PayloadOf(After(b, 12)) = o /\ Kept(f, b)
    BY <1>8 DEF Carries
  <2>2. Written(b, 10, t, 2)
    BY <1>2, <1>7, <2>1, StillWritten
  <2>3. Written(b, 8, i, 2)
    BY <1>2, <1>7, <2>1, StillWritten
  <2>4. Written(b, 0, q, 8)
    BY <1>2, <1>7, <2>1, StillWritten
  <2> QED BY <2>1, <2>2, <2>3, <2>4 DEF Header
<1>11. Read(b, 0, 8) = q /\ Read(b, 8, 2) = i /\ Read(b, 10, 2) = t
  BY <1>2, <1>10, FieldIsRead
<1>12. ~(Len(b) < 12 \/ t = 0 \/ i >= t)
  BY <1>2, <1>10
<1>13. DecodeClipboard(b) = p
  BY <1>2, <1>10, <1>11, <1>12 DEF DecodeClipboard, ClipboardHeaderLen
<1> QED BY <1>9, <1>10, <1>13

\* A packet of events.
LEMMA EventsAreRead ==
  ASSUME NEW p, WellFormed(p), p.kind = "events"
  PROVE  Body(p) \in Seq(Byte) /\ DecodeEvents(Body(p)) = p
<1>1. /\ p \in [kind : {"events"}, base : Nat \ {0}, first : Nat, payload : Seq(Int)]
      /\ p.base <= p.first /\ Len(p.payload) \in 1..MaxEventsPayload
  BY DEF WellFormed, Texts, Numbered, Bare
<1> DEFINE q == p.base
           t == p.first
           o == p.payload
<1>2. /\ q \in Nat \ {0} /\ t \in Nat /\ q <= t /\ o \in Seq(Int)
      /\ Len(o) \in Nat \ {0} /\ Len(o) <= MaxEventsPayload
      /\ p = [kind |-> "events", base |-> q, first |-> t, payload |-> o]
  BY <1>1
<1> HIDE DEF q, t, o
<1> DEFINE h == Bytes(q, 8)
           g == h \o Bytes(t, 8)
           b == g \o Octets(o)
<1>3. Header(h, 8) /\ Written(h, 0, q, 8)
  BY <1>2, 8 \in Nat, FieldBegun
<1> HIDE DEF h
<1>4. Adds(h, 8, t, 8, g)
  BY <1>2, <1>3, FieldAdded
<1> HIDE DEF g
<1>5. Header(g, 16) /\ Written(g, 8, t, 8) /\ Written(g, 0, q, 8)
  <2>1. Header(g, 8 + 8) /\ Written(g, 8, t, 8) /\ Kept(h, g)
    BY <1>4 DEF Adds
  <2>2. Header(g, 16)
    BY <2>1, 8 + 8 = 16
  <2>3. Written(g, 0, q, 8)
    BY <1>2, <1>3, <2>1, StillWritten
  <2> QED BY <2>1, <2>2, <2>3
<1>6. Carries(g, 16, o, b)
  BY <1>2, <1>5, PayloadAdded
<1>7. b = Body(p)
  BY <1>2 DEF Body, b, g, h, Texts, Numbered, Bare
<1> HIDE DEF b
<1>8. /\ b \in Seq(Byte) /\ Len(b) = 16 + Len(o) /\ PayloadOf(After(b, 16)) = o
      /\ Written(b, 8, t, 8) /\ Written(b, 0, q, 8)
  <2>1. Header(b, 16 + Len(o)) /\ PayloadOf(After(b, 16)) = o /\ Kept(g, b)
    BY <1>6 DEF Carries
  <2>2. Written(b, 8, t, 8)
    BY <1>2, <1>5, <2>1, StillWritten
  <2>3. Written(b, 0, q, 8)
    BY <1>2, <1>5, <2>1, StillWritten
  <2> QED BY <2>1, <2>2, <2>3 DEF Header
<1>9. Read(b, 0, 8) = q /\ Read(b, 8, 8) = t
  BY <1>2, <1>8, FieldIsRead
<1>10. ~(Len(b) <= 16 \/ Len(b) - 16 > MaxEventsPayload \/ q = 0 \/ t < q)
  <2> DEFINE n == Len(b)
             k == Len(o)
  <2>1. n = 16 + k /\ k \in Nat \ {0} /\ k <= MaxEventsPayload /\ MaxEventsPayload \in Int
    BY <1>2, <1>8, DatagramAssumption DEF MaxEventsPayload, HeaderLen, MagicLen, EventsHeaderLen
  <2> HIDE DEF n, k
  <2>2. ~(n <= 16 \/ n - 16 > MaxEventsPayload)
    BY <2>1
  <2> QED BY <1>2, <2>2 DEF n
<1>11. DecodeEvents(b) = p
  BY <1>2, <1>8, <1>9, <1>10 DEF DecodeEvents, EventsHeaderLen
<1> QED BY <1>7, <1>8, <1>11

\* The two flags of a byte are told apart.
LEMMA FlagsAreRead ==
  ASSUME NEW x \in BOOLEAN, NEW y \in BOOLEAN
  PROVE  /\ Flag(x, 1) + Flag(y, 2) \in 0..3
         /\ HasBit(Flag(x, 1) + Flag(y, 2), 1) <=> x
         /\ HasBit(Flag(x, 1) + Flag(y, 2), 2) <=> y
         /\ Flag(x, 1) \in 0..1 /\ (HasBit(Flag(x, 1), 1) <=> x) /\ (Flag(x, 1) = 1 <=> x)
<1> DEFINE u == Flag(x, 1)
           v == Flag(x, 1) + Flag(y, 2)
<1> HIDE DEF u, v
<1>1. /\ HasBit(3, 1) /\ HasBit(3, 2) /\ HasBit(1, 1) /\ ~HasBit(1, 2)
      /\ ~HasBit(2, 1) /\ HasBit(2, 2) /\ ~HasBit(0, 1) /\ ~HasBit(0, 2)
  BY DEF HasBit
<1> SUFFICES /\ v \in 0..3 /\ (HasBit(v, 1) <=> x) /\ (HasBit(v, 2) <=> y)
             /\ u \in 0..1 /\ (HasBit(u, 1) <=> x) /\ (u = 1 <=> x)
  BY DEF u, v
<1>2. CASE x /\ y
  <2>1. Flag(x, 1) = 1 /\ Flag(y, 2) = 2
    BY <1>2 DEF Flag
  <2>2. v = 3 /\ u = 1
    BY <2>1 DEF v, u
  <2> QED BY <1>1, <1>2, <2>2
<1>3. CASE x /\ ~y
  <2>1. Flag(x, 1) = 1 /\ Flag(y, 2) = 0
    BY <1>3 DEF Flag
  <2>2. v = 1 /\ u = 1
    BY <2>1 DEF v, u
  <2> QED BY <1>1, <1>3, <2>2
<1>4. CASE ~x /\ y
  <2>1. Flag(x, 1) = 0 /\ Flag(y, 2) = 2
    BY <1>4 DEF Flag
  <2>2. v = 2 /\ u = 0
    BY <2>1 DEF v, u
  <2> QED BY <1>1, <1>4, <2>2
<1>5. CASE ~x /\ ~y
  <2>1. Flag(x, 1) = 0 /\ Flag(y, 2) = 0
    BY <1>5 DEF Flag
  <2>2. v = 0 /\ u = 0
    BY <2>1 DEF v, u
  <2> QED BY <1>1, <1>5, <2>2
<1> QED BY <1>2, <1>3, <1>4, <1>5

\* The host's pointer.
LEMMA CursorIsRead ==
  ASSUME NEW p, WellFormed(p), p.kind = "cursor"
  PROVE  Body(p) \in Seq(Byte) /\ DecodeCursor(Body(p)) = p
<1>1. p \in [kind : {"cursor"}, x : Int, y : Int, visible : BOOLEAN]
  BY DEF WellFormed, Texts, Numbered, Bare
<1> DEFINE q == p.x
           t == p.y
           v == p.visible
           i == Flag(v, 1)
<1>2. /\ q \in Int /\ t \in Int /\ v \in BOOLEAN
      /\ p = [kind |-> "cursor", x |-> q, y |-> t, visible |-> v]
  BY <1>1
<1> HIDE DEF q, t, v
<1>3. i \in 0..1 /\ (i = 1 <=> v)
  BY <1>2, FlagsAreRead
<1> HIDE DEF i
<1> DEFINE h == Bytes(q, 4)
           g == h \o Bytes(t, 4)
           b == g \o Bytes(i, 1)
<1>4. Header(h, 4) /\ Written(h, 0, q, 4)
  BY <1>2, 4 \in Nat, FieldBegun
<1> HIDE DEF h
<1>5. Adds(h, 4, t, 4, g)
  BY <1>2, <1>4, FieldAdded
<1> HIDE DEF g
<1>6. Header(g, 8) /\ Written(g, 4, t, 4) /\ Written(g, 0, q, 4)
  <2>1. Header(g, 4 + 4) /\ Written(g, 4, t, 4) /\ Kept(h, g)
    BY <1>5 DEF Adds
  <2>2. Header(g, 8)
    BY <2>1, 4 + 4 = 8
  <2>3. Written(g, 0, q, 4)
    BY <1>2, <1>4, <2>1, StillWritten
  <2> QED BY <2>1, <2>2, <2>3
<1>7. Adds(g, 8, i, 1, b)
  BY <1>3, <1>6, FieldAdded
<1>8. b = Body(p)
  BY <1>2 DEF Body, b, g, h, i, Texts, Numbered, Bare
<1> HIDE DEF b
<1>9. /\ b \in Seq(Byte) /\ Len(b) = 9
      /\ Written(b, 8, i, 1) /\ Written(b, 4, t, 4) /\ Written(b, 0, q, 4)
  <2>1. Header(b, 8 + 1) /\ Written(b, 8, i, 1) /\ Kept(g, b)
    BY <1>7 DEF Adds
  <2>2. Written(b, 4, t, 4)
    BY <1>2, <1>6, <2>1, StillWritten
  <2>3. Written(b, 0, q, 4)
    BY <1>2, <1>6, <2>1, StillWritten
  <2> QED BY <2>1, <2>2, <2>3, 8 + 1 = 9 DEF Header
<1>10. Read(b, 0, 4) = q /\ Read(b, 4, 4) = t /\ Read(b, 8, 1) = i
  BY <1>2, <1>3, <1>9, FieldIsRead
<1>11. ~(Len(b) # 9 \/ Read(b, 8, 1) > 1) /\ (Read(b, 8, 1) = 1 <=> v)
  BY <1>3, <1>9, <1>10
<1>12. DecodeCursor(b) = p
  BY <1>2, <1>10, <1>11 DEF DecodeCursor
<1> QED BY <1>8, <1>9, <1>12

\* A fragment of a frame.
LEMMA VideoIsRead ==
  ASSUME NEW p, WellFormed(p), p.kind = "video"
  PROVE  Body(p) \in Seq(Byte) /\ DecodeVideo(Body(p)) = p
<1>1. /\ p \in [kind : {"video"}, frame_id : Int, timestamp : Int, index : Nat, total : Nat,
                is_keyframe : BOOLEAN, is_recovery : BOOLEAN, payload : Seq(Int)]
      /\ p.total \in 1..MaxVideoFragments
      /\ IF p.is_recovery THEN p.index = p.total ELSE p.index < p.total
      /\ Len(p.payload) \in (IF p.is_recovery THEN RecoveryHeaderLen + 1 ELSE 1)..MaxVideoPayload
  BY DEF WellFormed, Texts, Numbered, Bare
<1> DEFINE q == p.frame_id
           t == p.timestamp
           i == p.index
           m == p.total
           k == p.is_keyframe
           r == p.is_recovery
           o == p.payload
           u == Flag(k, 1) + Flag(r, 2)
<1>2. /\ q \in Int /\ t \in Int /\ i \in Nat /\ m \in Nat /\ k \in BOOLEAN /\ r \in BOOLEAN
      /\ o \in Seq(Int) /\ m \in 1..MaxVideoFragments
      /\ IF r THEN i = m ELSE i < m
      /\ Len(o) \in (IF r THEN RecoveryHeaderLen + 1 ELSE 1)..MaxVideoPayload
      /\ p = [kind |-> "video", frame_id |-> q, timestamp |-> t, index |-> i, total |-> m,
              is_keyframe |-> k, is_recovery |-> r, payload |-> o]
  BY <1>1
<1> HIDE DEF q, t, i, m, k, r, o
<1>3. u \in 0..3 /\ (HasBit(u, 1) <=> k) /\ (HasBit(u, 2) <=> r)
  BY <1>2, FlagsAreRead
<1> HIDE DEF u
<1> DEFINE h == Bytes(q, 8)
           g == h \o Bytes(t, 8)
           f == g \o Bytes(i, 2)
           e == f \o Bytes(m, 2)
           d == e \o Bytes(u, 1)
           b == d \o Octets(o)
<1>4. Header(h, 8) /\ Written(h, 0, q, 8)
  BY <1>2, <1>3, 8 \in Nat, FieldBegun
<1> HIDE DEF h
<1>5. Adds(h, 8, t, 8, g)
  BY <1>2, <1>3, <1>4, FieldAdded
<1> HIDE DEF g
<1>6. /\ Header(g, 16) /\ Written(g, 8, t, 8)
      /\ Written(g, 0, q, 8)
  <2>1. Header(g, 8 + 8) /\ Written(g, 8, t, 8) /\ Kept(h, g)
    BY <1>5 DEF Adds
  <2>2. Header(g, 16)
    BY <2>1, 8 + 8 = 16
  <2>3. Written(g, 0, q, 8)
    BY <1>2, <1>3, <1>4, <2>1, StillWritten
  <2> QED BY <2>1, <2>2, <2>3
<1>7. Adds(g, 16, i, 2, f)
  BY <1>2, <1>3, <1>6, FieldAdded
<1> HIDE DEF f
<1>8. /\ Header(f, 18) /\ Written(f, 16, i, 2)
      /\ Written(f, 8, t, 8) /\ Written(f, 0, q, 8)
  <2>1. Header(f, 16 + 2) /\ Written(f, 16, i, 2) /\ Kept(g, f)
    BY <1>7 DEF Adds
  <2>2. Header(f, 18)
    BY <2>1, 16 + 2 = 18
  <2>3. Written(f, 8, t, 8)
    BY <1>2, <1>3, <1>6, <2>1, StillWritten
  <2>4. Written(f, 0, q, 8)
    BY <1>2, <1>3, <1>6, <2>1, StillWritten
  <2> QED BY <2>1, <2>2, <2>3, <2>4
<1>9. Adds(f, 18, m, 2, e)
  BY <1>2, <1>3, <1>8, FieldAdded
<1> HIDE DEF e
<1>10. /\ Header(e, 20) /\ Written(e, 18, m, 2)
       /\ Written(e, 16, i, 2) /\ Written(e, 8, t, 8) /\ Written(e, 0, q, 8)
  <2>1. Header(e, 18 + 2) /\ Written(e, 18, m, 2) /\ Kept(f, e)
    BY <1>9 DEF Adds
  <2>2. Header(e, 20)
    BY <2>1, 18 + 2 = 20
  <2>3. Written(e, 16, i, 2)
    BY <1>2, <1>3, <1>8, <2>1, StillWritten
  <2>4. Written(e, 8, t, 8)
    BY <1>2, <1>3, <1>8, <2>1, StillWritten
  <2>5. Written(e, 0, q, 8)
    BY <1>2, <1>3, <1>8, <2>1, StillWritten
  <2> QED BY <2>1, <2>2, <2>3, <2>4, <2>5
<1>11. Adds(e, 20, u, 1, d)
  BY <1>2, <1>3, <1>10, FieldAdded
<1> HIDE DEF d
<1>12. /\ Header(d, 21) /\ Written(d, 20, u, 1)
       /\ Written(d, 18, m, 2) /\ Written(d, 16, i, 2) /\ Written(d, 8, t, 8)
       /\ Written(d, 0, q, 8)
  <2>1. Header(d, 20 + 1) /\ Written(d, 20, u, 1) /\ Kept(e, d)
    BY <1>11 DEF Adds
  <2>2. Header(d, 21)
    BY <2>1, 20 + 1 = 21
  <2>3. Written(d, 18, m, 2)
    BY <1>2, <1>3, <1>10, <2>1, StillWritten
  <2>4. Written(d, 16, i, 2)
    BY <1>2, <1>3, <1>10, <2>1, StillWritten
  <2>5. Written(d, 8, t, 8)
    BY <1>2, <1>3, <1>10, <2>1, StillWritten
  <2>6. Written(d, 0, q, 8)
    BY <1>2, <1>3, <1>10, <2>1, StillWritten
  <2> QED BY <2>1, <2>2, <2>3, <2>4, <2>5, <2>6
<1>13. Carries(d, 21, o, b)
  BY <1>2, <1>3, <1>12, PayloadAdded
<1> HIDE DEF b
<1>14. /\ b \in Seq(Byte) /\ Len(b) = 21 + Len(o) /\ PayloadOf(After(b, 21)) = o
       /\ Written(b, 20, u, 1) /\ Written(b, 18, m, 2) /\ Written(b, 16, i, 2)
       /\ Written(b, 8, t, 8) /\ Written(b, 0, q, 8)
  <2>1. Header(b, 21 + Len(o)) /\ PayloadOf(After(b, 21)) = o /\ Kept(d, b)
    BY <1>13 DEF Carries
  <2>2. Written(b, 20, u, 1)
    BY <1>2, <1>3, <1>12, <2>1, StillWritten
  <2>3. Written(b, 18, m, 2)
    BY <1>2, <1>3, <1>12, <2>1, StillWritten
  <2>4. Written(b, 16, i, 2)
    BY <1>2, <1>3, <1>12, <2>1, StillWritten
  <2>5. Written(b, 8, t, 8)
    BY <1>2, <1>3, <1>12, <2>1, StillWritten
  <2>6. Written(b, 0, q, 8)
    BY <1>2, <1>3, <1>12, <2>1, StillWritten
  <2> QED BY <2>1, <2>2, <2>3, <2>4, <2>5, <2>6 DEF Header
<1>15. b = Body(p)
  BY <1>2 DEF Body, b, d, e, f, g, h, u, Texts, Numbered, Bare
<1>16. /\ Read(b, 0, 8) = q /\ Read(b, 8, 8) = t /\ Read(b, 16, 2) = i
       /\ Read(b, 18, 2) = m /\ Read(b, 20, 1) = u
  BY <1>2, <1>3, <1>14, FieldIsRead
<1>17. /\ Len(b) - 21 = Len(o) /\ Len(o) \in Nat \ {0} /\ Len(o) <= MaxVideoPayload
       /\ r => Len(o) > RecoveryHeaderLen
  <2>1. MaxVideoPayload \in Int
    BY DatagramAssumption DEF MaxVideoPayload, HeaderLen, MagicLen, VideoHeaderLen
  <2>2. Len(b) = 21 + Len(o)
    BY <1>14
  <2>3. CASE r
    <3>1. Len(o) \in 4 + 1..MaxVideoPayload
      BY <1>2, <2>3 DEF RecoveryHeaderLen
    <3> QED BY <2>1, <2>2, <3>1 DEF RecoveryHeaderLen
  <2>4. CASE ~r
    <3>1. Len(o) \in 1..MaxVideoPayload
      BY <1>2, <2>4
    <3> QED BY <2>1, <2>2, <2>4, <3>1
  <2> QED BY <2>3, <2>4, Zenon
<1>18. m # 0 /\ ~(m > MaxVideoFragments) /\ u \in 0..3
  <2> DEFINE c == StandardDatagram - 30
  <2>1. c \in Nat \ {0} /\ c = StandardDatagram - HeaderLen - VideoHeaderLen - RecoveryHeaderLen
    BY DatagramAssumption DEF HeaderLen, MagicLen, VideoHeaderLen, RecoveryHeaderLen
  <2> HIDE DEF c
  <2>2. MaxVideoFragments = (MaxVideoFrame + c - 1) \div c
    BY <2>1 DEF MaxVideoFragments
  <2>3. MaxVideoFragments \in Int
    BY <2>1, <2>2, DatagramAssumption
  <2> QED BY <1>2, <1>3, <2>3
<1>19. IF r THEN ~(i # m) ELSE ~(i >= m)
  BY <1>2
<1>20. HasBit(u, 1) = k /\ HasBit(u, 2) = r
  <2>1. HasBit(u, 1) \in BOOLEAN /\ HasBit(u, 2) \in BOOLEAN
    BY DEF HasBit
  <2> QED BY <1>2, <1>3, <2>1
<1> DEFINE broken ==
             \/ Len(b) - 21 <= 0
             \/ m = 0 \/ m > MaxVideoFragments
             \/ IF r THEN i # m ELSE i >= m
             \/ u \notin 0..3
             \/ Len(b) - 21 > MaxVideoPayload
             \/ r /\ Len(b) - 21 <= RecoveryHeaderLen
<1>21. DecodeVideo(b) =
         IF broken THEN Invalid
         ELSE [kind |-> "video", frame_id |-> q, timestamp |-> t, index |-> i, total |-> m,
               is_keyframe |-> k, is_recovery |-> r, payload |-> o]
  BY <1>14, <1>16, <1>20 DEF DecodeVideo, VideoHeaderLen
<1>22. ~broken
  <2> DEFINE s == Len(b) - 21
             l == Len(o)
  <2>1. s = l /\ l \in Nat \ {0} /\ l <= MaxVideoPayload /\ (r => l > RecoveryHeaderLen)
    BY <1>17
  <2>2. MaxVideoPayload \in Int /\ RecoveryHeaderLen = 4
    BY DatagramAssumption DEF MaxVideoPayload, HeaderLen, MagicLen, VideoHeaderLen, RecoveryHeaderLen
  <2> HIDE DEF s, l
  <2>3. ~(s <= 0) /\ ~(s > MaxVideoPayload) /\ ~(r /\ s <= RecoveryHeaderLen)
    BY <2>1, <2>2
  <2> QED BY <1>18, <1>19, <2>3 DEF s
<1> HIDE DEF broken
<1>23. DecodeVideo(b) = p
  BY <1>2, <1>21, <1>22
<1> QED BY <1>14, <1>15, <1>23

\* A Hello, in the shortest form that says what it has to.
LEMMA HelloIsRead ==
  ASSUME NEW p, WellFormed(p), p.kind = "hello"
  PROVE  Body(p) \in Seq(Byte) /\ DecodeHello(Body(p)) = p
<1>1. /\ p \in [kind : {"hello"}, max_datagram_size : Nat, audio_only : BOOLEAN, viewer_id : Int]
      /\ p.max_datagram_size >= StandardDatagram
  BY DEF WellFormed, Texts, Numbered, Bare
<1> DEFINE s == p.max_datagram_size
           a == p.audio_only
           v == p.viewer_id
           u == Flag(a, 1)
<1>2. Body(p) = EncodeHello(p)
  BY DEF Body, Texts, Numbered, Bare
<1>3. /\ s \in Nat /\ a \in BOOLEAN /\ v \in Int /\ s >= StandardDatagram
      /\ StandardDatagram \in Nat /\ p = Hello(s, a, v)
  BY <1>1, DatagramAssumption DEF Hello
<1>4. u \in 0..1 /\ HasBit(u, 1) = a /\ HasBit(1, 1)
  <2>1. a \in BOOLEAN
    BY <1>3
  <2> HIDE DEF a
  <2>2. u \in 0..1 /\ (HasBit(u, 1) <=> a)
    BY <2>1, FlagsAreRead
  <2>3. HasBit(u, 1) \in BOOLEAN
    BY DEF HasBit
  <2>4. HasBit(1, 1)
    BY DEF HasBit
  <2> QED BY <2>1, <2>2, <2>3, <2>4
<1>5. EncodeHello(p) =
        IF v # NoId THEN Bytes(s, 2) \o Bytes(u, 1) \o Bytes(v, 16)
        ELSE IF a THEN Bytes(s, 2) \o Bytes(1, 1)
        ELSE IF s <= StandardDatagram THEN <<>> ELSE Bytes(s, 2)
  BY DEF EncodeHello, ViewerIdLen
<1> HIDE DEF s, a, v, u
<1>6. CASE v # NoId
  <2> DEFINE h == Bytes(s, 2)
             g == h \o Bytes(u, 1)
             b == g \o Bytes(v, 16)
  <2>0. b = Body(p)
    BY <1>2, <1>5, <1>6
  <2>1. Header(h, 2) /\ Written(h, 0, s, 2)
    BY <1>3, <1>4, 2 \in Nat, FieldBegun
  <2> HIDE DEF h
  <2>2. Adds(h, 2, u, 1, g)
    BY <1>3, <1>4, <2>1, FieldAdded
  <2> HIDE DEF g
  <2>3. /\ Header(g, 3) /\ Written(g, 2, u, 1)
        /\ Written(g, 0, s, 2)
    <3>1. Header(g, 2 + 1) /\ Written(g, 2, u, 1) /\ Kept(h, g)
      BY <2>2 DEF Adds
    <3>2. Header(g, 3)
      BY <3>1, 2 + 1 = 3
    <3>3. Written(g, 0, s, 2)
      BY <1>3, <1>4, <2>1, <3>1, StillWritten
    <3> QED BY <3>1, <3>2, <3>3
  <2>4. Adds(g, 3, v, 16, b)
    BY <1>3, <1>4, <2>3, FieldAdded
  <2> HIDE DEF b
  <2>5. /\ Header(b, 19) /\ Written(b, 3, v, 16)
        /\ Written(b, 2, u, 1) /\ Written(b, 0, s, 2)
    <3>1. Header(b, 3 + 16) /\ Written(b, 3, v, 16) /\ Kept(g, b)
      BY <2>4 DEF Adds
    <3>2. Header(b, 19)
      BY <3>1, 3 + 16 = 19
    <3>3. Written(b, 2, u, 1)
      BY <1>3, <1>4, <2>3, <3>1, StillWritten
    <3>4. Written(b, 0, s, 2)
      BY <1>3, <1>4, <2>3, <3>1, StillWritten
    <3> QED BY <3>1, <3>2, <3>3, <3>4
  <2>6. b \in Seq(Byte) /\ Len(b) = 19
    BY <2>5 DEF Header
  <2>7. Read(b, 0, 2) = s /\ Read(b, 2, 1) = u /\ Read(b, 3, 16) = v
    BY <1>3, <1>4, <2>5, <2>6, FieldIsRead
  <2>8. b # <<>> /\ Len(b) \in {2, 3, 3 + 16} /\ Len(b) = 3 + 16 /\ Len(b) > 2
    BY <2>6, EmptySeq
  <2>9. DecodeHello(b) = Hello(s, a, v)
    <3>1. (Len(b) > 2 /\ HasBit(Read(b, 2, 1), 1)) = a
      BY <1>3, <1>4, <2>7, <2>8
    <3> DEFINE f == Len(b) > 2 /\ HasBit(Read(b, 2, 1), 1)
    <3> HIDE DEF f
    <3>2. DecodeHello(b) = Hello(s, f, v)
      BY <2>7, <2>8 DEF DecodeHello, HelloCapabilityLen, ViewerIdLen, f
    <3> QED BY <3>1, <3>2 DEF f
  <2> QED BY <1>3, <2>0, <2>6, <2>9
<1>7. CASE v = NoId /\ a
  <2> DEFINE h == Bytes(s, 2)
             b == h \o Bytes(1, 1)
  <2>0. b = Body(p)
    BY <1>2, <1>5, <1>7
  <2>1. Header(h, 2) /\ Written(h, 0, s, 2)
    BY <1>3, 1 \in Int, 2 \in Nat, FieldBegun
  <2> HIDE DEF h
  <2>2. Adds(h, 2, 1, 1, b)
    BY <1>3, 1 \in Int, <2>1, FieldAdded
  <2> HIDE DEF b
  <2>3. /\ Header(b, 3) /\ Written(b, 2, 1, 1)
        /\ Written(b, 0, s, 2)
    <3>1. Header(b, 2 + 1) /\ Written(b, 2, 1, 1) /\ Kept(h, b)
      BY <2>2 DEF Adds
    <3>2. Header(b, 3)
      BY <3>1, 2 + 1 = 3
    <3>3. Written(b, 0, s, 2)
      BY <1>3, 1 \in Int, <2>1, <3>1, StillWritten
    <3> QED BY <3>1, <3>2, <3>3
  <2>4. b \in Seq(Byte) /\ Len(b) = 3
    BY <2>3 DEF Header
  <2>5. Read(b, 0, 2) = s /\ Read(b, 2, 1) = 1
    BY <1>3, <2>3, <2>4, FieldIsRead
  <2>6. b # <<>> /\ Len(b) \in {2, 3, 3 + 16} /\ ~(Len(b) = 3 + 16) /\ Len(b) > 2
    BY <2>4, EmptySeq
  <2>7. DecodeHello(b) = Hello(s, TRUE, NoId)
    BY <1>4, <2>5, <2>6 DEF DecodeHello, HelloCapabilityLen, ViewerIdLen
  <2> QED BY <1>3, <1>7, <2>0, <2>4, <2>7
<1>8. CASE v = NoId /\ ~a /\ s <= StandardDatagram
  <2>1. Body(p) = <<>> /\ <<>> \in Seq(Byte)
    BY <1>2, <1>5, <1>8
  <2>2. s = StandardDatagram
    BY <1>3, <1>8
  <2>3. DecodeHello(<<>>) = Hello(StandardDatagram, FALSE, NoId)
    <3>1. ASSUME NEW b, b = <<>>
          PROVE  DecodeHello(b) = Hello(StandardDatagram, FALSE, NoId)
      <4>1. ~(Len(b) \in {2, HelloCapabilityLen, HelloCapabilityLen + ViewerIdLen})
        BY <3>1, EmptySeq DEF HelloCapabilityLen, ViewerIdLen
      <4> QED BY <3>1, <4>1 DEF DecodeHello
    <3> QED BY <3>1
  <2> QED BY <1>3, <1>8, <2>1, <2>2, <2>3
<1>9. CASE v = NoId /\ ~a /\ ~(s <= StandardDatagram)
  <2> DEFINE b == Bytes(s, 2)
  <2>1. b = Body(p)
    BY <1>2, <1>5, <1>9
  <2>2. Header(b, 2) /\ Written(b, 0, s, 2)
    BY <1>3, 2 \in Nat, FieldBegun
  <2> HIDE DEF b
  <2>3. b \in Seq(Byte) /\ Len(b) = 2
    BY <2>2 DEF Header
  <2>4. Read(b, 0, 2) = s
    BY <1>3, <2>2, <2>3, FieldIsRead
  <2>5. b # <<>> /\ Len(b) \in {2, 3, 3 + 16} /\ ~(Len(b) = 3 + 16) /\ ~(Len(b) > 2)
    BY <2>3, EmptySeq
  <2>6. DecodeHello(b) = Hello(s, FALSE, NoId)
    BY <2>4, <2>5 DEF DecodeHello, HelloCapabilityLen, ViewerIdLen
  <2> QED BY <1>3, <1>9, <2>1, <2>3, <2>6
<1> QED BY <1>6, <1>7, <1>8, <1>9

----------------------------------------------------------------------------
(* WireProtocol: statistics.                                                *)

\* What FlattenSeq computes: how the first sequences are joined.
Joins(seqs, m, g) ==
  g = [i \in 1..m |-> IF i = 1 THEN seqs[i] ELSE g[i - 1] \o seqs[i]]

LEMMA JoiningExists ==
  ASSUME NEW seqs, NEW n \in Nat
  PROVE  \E g : Joins(seqs, n, g)
<1> DEFINE Good == {m \in 0..n : \E g : Joins(seqs, m, g)}
<1>1. 0 \in Good
  <2> DEFINE g == [i \in 1..0 |-> 0]
  <2>1. Joins(seqs, 0, g)
    BY DEF Joins
  <2> HIDE DEF g
  <2> QED BY <2>1
<1>2. ASSUME NEW m \in 1..n, m - 1 \in Good PROVE m \in Good
  <2>1. PICK g : Joins(seqs, m - 1, g)
    BY <1>2, Zenon
  <2>2. g = [i \in 1..(m - 1) |-> IF i = 1 THEN seqs[i] ELSE g[i - 1] \o seqs[i]]
    BY <2>1 DEF Joins
  <2> DEFINE h == [i \in 1..m |-> IF i = m THEN (IF m = 1 THEN seqs[m] ELSE g[m - 1] \o seqs[m])
                                  ELSE g[i]]
  <2>3. \A i \in 1..(m - 1) : i \in 1..m /\ i # m
    OBVIOUS
  <2>4. \A i \in 1..(m - 1) : h[i] = g[i]
    BY <2>3
  <2>5. \A i \in 1..m : h[i] = IF i = m THEN (IF m = 1 THEN seqs[m] ELSE g[m - 1] \o seqs[m])
                               ELSE g[i]
    OBVIOUS
  <2>6. h = [i \in 1..m |-> h[i]]
    OBVIOUS
  <2> HIDE DEF h
  <2>7. \A i \in 1..m : h[i] = IF i = 1 THEN seqs[i] ELSE h[i - 1] \o seqs[i]
    <3> SUFFICES ASSUME NEW i \in 1..m
                 PROVE  h[i] = IF i = 1 THEN seqs[i] ELSE h[i - 1] \o seqs[i]
      OBVIOUS
    <3>1. CASE i = 1
      <4>1. CASE m = 1
        BY <2>5, <3>1, <4>1
      <4>2. CASE m # 1
        <5>1. 1 \in 1..(m - 1)
          BY <4>2
        <5> QED BY <2>2, <2>4, <3>1, <5>1
      <4> QED BY <4>1, <4>2
    <3>2. CASE i # 1
      <4>1. i - 1 \in 1..(m - 1)
        BY <3>2
      <4>2. h[i - 1] = g[i - 1]
        BY <2>4, <4>1
      <4>3. CASE i = m
        BY <2>5, <3>2, <4>2, <4>3
      <4>4. CASE i # m
        <5>1. i \in 1..(m - 1)
          BY <4>4
        <5> QED BY <2>2, <2>4, <3>2, <4>2, <5>1
      <4> QED BY <4>3, <4>4
    <3> QED BY <3>1, <3>2
  <2>8. h = [i \in 1..m |-> IF i = 1 THEN seqs[i] ELSE h[i - 1] \o seqs[i]]
    BY <2>6, <2>7
  <2>9. Joins(seqs, m, h)
    BY <2>8, Zenon DEF Joins
  <2>10. m \in 0..n
    OBVIOUS
  <2> QED BY <2>9, <2>10, Zenon
<1>3. n \in 0..n
  OBVIOUS
<1> HIDE DEF Good
<1>4. n \in Good
  BY <1>1, <1>2, <1>3, CountingUp
<1> QED BY <1>4, Zenon DEF Good

\* A flattened sequence is built up by one sequence after the other.
LEMMA FlattenSteps ==
  ASSUME NEW seqs, NEW n \in Nat \ {0}, Len(seqs) = n
  PROVE  \E g : /\ FlattenSeq(seqs) = g[n] /\ g[1] = seqs[1]
                /\ \A i \in 2..n : g[i] = g[i - 1] \o seqs[i]
<1> DEFINE G == CHOOSE g : Joins(seqs, n, g)
<1>1. Joins(seqs, n, G)
  BY JoiningExists, Zenon
<1>2. FlattenSeq(seqs) = G[n]
  <2>1. FlattenSeq(seqs) = (CHOOSE g : Joins(seqs, Len(seqs), g))[Len(seqs)]
    <3>1. ~(Len(seqs) = 0)
      OBVIOUS
    <3> QED BY <3>1, Zenon DEF FlattenSeq, Joins
  <2> QED BY <2>1
<1> HIDE DEF G
<1>3. G = [i \in 1..n |-> IF i = 1 THEN seqs[i] ELSE G[i - 1] \o seqs[i]]
  BY <1>1 DEF Joins
<1>4. \A i \in 1..n : G[i] = IF i = 1 THEN seqs[i] ELSE G[i - 1] \o seqs[i]
  BY <1>3, Zenon
<1>5. 1 \in 1..n /\ \A i \in 2..n : i \in 1..n /\ i # 1
  OBVIOUS
<1>6. G[1] = seqs[1] /\ \A i \in 2..n : G[i] = G[i - 1] \o seqs[i]
  BY <1>4, <1>5
<1> QED BY <1>2, <1>6

\* Fields of one width, one after the other.
LEMMA FieldsJoin ==
  ASSUME NEW n \in Nat \ {0}, NEW w \in Nat, NEW v \in [1..n -> Int]
  PROVE  LET b == FlattenSeq([i \in 1..n |-> Bytes(v[i], w)])
         IN  Header(b, n * w) /\ \A i \in 1..n : Written(b, (i - 1) * w, v[i], w)
<1> DEFINE seqs == [i \in 1..n |-> Bytes(v[i], w)]
<1>1. \A i \in 1..n : v[i] \in Int /\ seqs[i] = Bytes(v[i], w)
  OBVIOUS
<1>2. Len(seqs) = n
  <2>1. seqs \in Seq(Seq(Byte))
    <3>1. \A i \in 1..n : Bytes(v[i], w) \in Seq(Byte)
      BY <1>1, BytesOfInteger
    <3> QED BY <3>1, IsASeq
  <2>2. DOMAIN seqs = 1..n
    OBVIOUS
  <2> HIDE DEF seqs
  <2> QED BY <2>1, <2>2, LenProperties
<1> HIDE DEF seqs
<1>3. PICK g : /\ FlattenSeq(seqs) = g[n] /\ g[1] = seqs[1]
               /\ \A i \in 2..n : g[i] = g[i - 1] \o seqs[i]
  BY <1>2, FlattenSteps
<1> DEFINE Sum(k) == Header(g[k], k * w) /\ \A i \in 1..k : Written(g[k], (i - 1) * w, v[i], w)
           Good == {k \in 0..n : k = 0 \/ Sum(k)}
<1>4. 0 \in Good
  OBVIOUS
<1>5. ASSUME NEW k \in 1..n, k - 1 \in Good PROVE k \in Good
  <2>1. CASE k = 1
    <3>1. g[1] = Bytes(v[1], w) /\ v[1] \in Int
      BY <1>1, <1>3
    <3>2. Header(g[1], w) /\ Written(g[1], 0, v[1], w)
      BY <3>1, FieldBegun
    <3>3. 1 * w = w /\ (1 - 1) * w = 0
      OBVIOUS
    <3>4. Sum(1)
      BY <3>2, <3>3
    <3> QED BY <2>1, <3>4
  <2>2. CASE k # 1
    <3> DEFINE j == k - 1
    <3>1. j \in Nat /\ j # 0 /\ k \in 2..n /\ Sum(j) /\ k - 1 = j
      BY <1>5, <2>2
    <3>2. g[k] = g[j] \o Bytes(v[k], w) /\ v[k] \in Int
      BY <1>1, <1>3, <3>1
    <3> HIDE DEF j
    <3>3. Adds(g[j], j * w, v[k], w, g[k])
      BY <3>1, <3>2, FieldAdded
    <3>4. Header(g[k], j * w + w) /\ Written(g[k], j * w, v[k], w) /\ Kept(g[j], g[k])
      BY <3>3 DEF Adds
    <3>5. j * w + w = k * w
      <4>1. k = j + 1
        BY <3>1
      <4> QED BY <3>1, <4>1
    <3>6. ASSUME NEW i \in 1..k PROVE Written(g[k], (i - 1) * w, v[i], w)
      <4>1. CASE i = k
        BY <3>1, <3>4, <4>1
      <4>2. CASE i # k
        <5>1. i \in 1..j /\ i - 1 \in Nat /\ i \in 1..n
          BY <3>1, <4>2
        <5>2. (i - 1) * w \in Nat /\ v[i] \in Int
          BY <1>1, <5>1
        <5>3. Written(g[j], (i - 1) * w, v[i], w)
          BY <3>1, <5>1
        <5> QED BY <3>4, <5>2, <5>3, StillWritten
      <4> QED BY <4>1, <4>2
    <3>7. Sum(k)
      BY <3>4, <3>5, <3>6
    <3> QED BY <3>7
  <2> QED BY <2>1, <2>2
<1>6. n \in Good
  <2> HIDE DEF Good
  <2>1. \A k \in 0..n : k \in Good
    BY <1>4, <1>5, CountingUp
  <2>2. n \in 0..n
    OBVIOUS
  <2> QED BY <2>1, <2>2
<1>7. Sum(n)
  BY <1>6
<1> QED BY <1>3, <1>7 DEF seqs

\* A block of fields behind others.
LEMMA BlockAdded ==
  ASSUME NEW h, NEW n, NEW t, NEW m, Header(h, n), Header(t, m)
  PROVE  /\ Header(h \o t, n + m) /\ Kept(h, h \o t)
         /\ \A o \in Nat, x \in Int, y \in Nat :
              Written(t, o, x, y) => Written(h \o t, n + o, x, y)
<1>1. /\ h \in Seq(Byte) /\ Len(h) = n /\ n \in Nat
      /\ t \in Seq(Byte) /\ Len(t) = m /\ m \in Nat
  BY DEF Header
<1>2. h \o t \in Seq(Byte) /\ Len(h \o t) = Len(h) + Len(t)
  BY <1>1, Joined
<1>3. Header(h \o t, n + m)
  BY <1>1, <1>2 DEF Header
<1>4. Kept(h, h \o t)
  BY <1>1, FieldInFront DEF Kept
<1>5. ASSUME NEW o \in Nat, NEW x \in Int, NEW y \in Nat, Written(t, o, x, y)
      PROVE  Written(h \o t, n + o, x, y)
  <2>1. Written(h \o t, Len(h) + o, x, y)
    BY <1>1, <1>5, FieldBehind
  <2> QED BY <1>1, <2>1
<1> QED BY <1>3, <1>4, <1>5

\* Where each block of the statistics begins, and how wide its fields are.
Begins == <<0, 36, 92, 116, 148, 172>>
Widths == <<4, 8, 4, 8, 4, 8>>
Counts == <<9, 7, 6, 4, 6, 4>>

\* The name of a field.
Name(k, i) == StatsLayout[k].names[i]

LEMMA LayoutFacts ==
  /\ Len(StatsLayout) = 6 /\ DOMAIN StatsLayout = 1..6
  /\ \A k \in 1..6 : /\ StatsLayout[k].width = Widths[k]
                     /\ DOMAIN StatsLayout[k].names = 1..Counts[k]
                     /\ Counts[k] \in Nat \ {0} /\ Widths[k] \in Nat \ {0}
<1>1. Len(StatsLayout) = 6 /\ DOMAIN StatsLayout = 1..6
  BY DEF StatsLayout
<1> DEFINE Fits(k) == /\ StatsLayout[k].width = Widths[k]
                      /\ DOMAIN StatsLayout[k].names = 1..Counts[k]
                      /\ Counts[k] \in Nat \ {0} /\ Widths[k] \in Nat \ {0}
<1>2. Fits(1)
  <2>1. Counts[1] = 9 /\ Widths[1] = 4
    BY DEF Counts, Widths
  <2>2. StatsLayout[1].width = 4 /\ DOMAIN StatsLayout[1].names = 1..9
    BY DEF StatsLayout, Stage
  <2> QED BY <2>1, <2>2
<1>3. Fits(2)
  <2>1. Counts[2] = 7 /\ Widths[2] = 8
    BY DEF Counts, Widths
  <2>2. StatsLayout[2].width = 8 /\ DOMAIN StatsLayout[2].names = 1..7
    BY DEF StatsLayout, Stage
  <2> QED BY <2>1, <2>2
<1>4. Fits(3)
  <2>1. Counts[3] = 6 /\ Widths[3] = 4
    BY DEF Counts, Widths
  <2>2. StatsLayout[3].width = 4 /\ DOMAIN StatsLayout[3].names = 1..6
    BY DEF StatsLayout, Stage
  <2> QED BY <2>1, <2>2
<1>5. Fits(4)
  <2>1. Counts[4] = 4 /\ Widths[4] = 8
    BY DEF Counts, Widths
  <2>2. StatsLayout[4].width = 8 /\ DOMAIN StatsLayout[4].names = 1..4
    BY DEF StatsLayout, Stage
  <2> QED BY <2>1, <2>2
<1>6. Fits(5)
  <2>1. Counts[5] = 6 /\ Widths[5] = 4
    BY DEF Counts, Widths
  <2>2. StatsLayout[5].width = 4 /\ DOMAIN StatsLayout[5].names = 1..6
    BY DEF StatsLayout, Stage
  <2> QED BY <2>1, <2>2
<1>7. Fits(6)
  <2>1. Counts[6] = 4 /\ Widths[6] = 8
    BY DEF Counts, Widths
  <2>2. StatsLayout[6].width = 8 /\ DOMAIN StatsLayout[6].names = 1..4
    BY DEF StatsLayout, Stage
  <2> QED BY <2>1, <2>2
<1>8. \A k \in 1..6 : k = 1 \/ k = 2 \/ k = 3 \/ k = 4 \/ k = 5 \/ k = 6
  OBVIOUS
<1>9. \A k \in 1..6 : Fits(k)
  <2> HIDE DEF Fits
  <2> QED BY <1>2, <1>3, <1>4, <1>5, <1>6, <1>7, <1>8, Zenon
<1> QED BY <1>1, <1>9

\* Each of them is one of the statistics.
LEMMA NamesAreStats ==
  /\ \A k \in 1..6, i \in 1..12 : i <= Counts[k] => Name(k, i) \in Stat
  /\ \A f \in Stat : \E k \in 1..6, i \in 1..12 : i <= Counts[k] /\ f = Name(k, i)
<1>1. \A k \in 1..6 : DOMAIN StatsLayout[k].names = 1..Counts[k] /\ Counts[k] \in 1..9
  <2>1. \A k \in 1..6 : Counts[k] \in 1..9
    BY DEF Counts
  <2> QED BY <2>1, LayoutFacts
<1>2. DOMAIN StatsLayout = 1..6
  BY LayoutFacts
<1>3. ASSUME NEW k \in 1..6, NEW i \in 1..12, i <= Counts[k] PROVE Name(k, i) \in Stat
  <2> DEFINE c == Counts[k]
  <2>0. c \in 1..9 /\ i <= c /\ DOMAIN StatsLayout[k].names = 1..c
    BY <1>1, <1>3
  <2> HIDE DEF c
  <2>1. i \in DOMAIN StatsLayout[k].names
    BY <2>0
  <2> QED BY <1>2, <2>1 DEF Name, Stat, Range
<1>4. ASSUME NEW f \in Stat
      PROVE  \E k \in 1..6, i \in 1..12 : i <= Counts[k] /\ f = Name(k, i)
  <2>1. PICK k \in 1..6 : f \in Range(StatsLayout[k].names)
    BY <1>2 DEF Stat
  <2>2. PICK i \in DOMAIN StatsLayout[k].names : f = StatsLayout[k].names[i]
    BY <2>1 DEF Range
  <2>3. i \in 1..12 /\ i <= Counts[k]
    <3> DEFINE c == Counts[k]
    <3>1. c \in 1..9 /\ i \in 1..c
      BY <1>1, <2>2
    <3> HIDE DEF c
    <3>2. i \in 1..12 /\ i <= c
      BY <3>1
    <3> QED BY <3>2 DEF c
  <2> QED BY <2>2, <2>3 DEF Name
<1> QED BY <1>3, <1>4

\* These bytes hold a block of the statistics, from that offset on.
Shows(stats, b, k, at) ==
  \A i \in 1..12 : i <= Counts[k] =>
    Written(b, at + (i - 1) * Widths[k], stats[Name(k, i)], Widths[k])

\* A block of the statistics is written as one.
LEMMA BlockIsWritten ==
  ASSUME NEW stats \in [Stat -> Int], NEW k \in 1..6
  PROVE  LET b == FlattenSeq([i \in DOMAIN StatsLayout[k].names |->
                    Bytes(stats[StatsLayout[k].names[i]], StatsLayout[k].width)])
         IN  Header(b, Counts[k] * Widths[k]) /\ Shows(stats, b, k, 0)
<1> DEFINE n == Counts[k]
           w == Widths[k]
           v == [i \in 1..n |-> stats[Name(k, i)]]
           b == FlattenSeq([i \in 1..n |-> Bytes(v[i], w)])
<1>1. n \in Nat \ {0} /\ w \in Nat \ {0} /\ n <= 12
  <2>1. \A j \in 1..6 : Counts[j] <= 12
    BY DEF Counts
  <2> QED BY <2>1, LayoutFacts
<1>2. /\ DOMAIN StatsLayout[k].names = 1..n /\ StatsLayout[k].width = w
  BY LayoutFacts
<1>3. \A i \in 1..n : i \in 1..12 /\ i <= n
  BY <1>1
<1>4. \A i \in 1..n : stats[Name(k, i)] \in Int
  <2>1. ASSUME NEW i \in 1..n PROVE Name(k, i) \in Stat
    BY <1>3, NamesAreStats
  <2> QED BY <2>1
<1> HIDE DEF n, w
<1>5. v \in [1..n -> Int] /\ \A i \in 1..n : v[i] = stats[Name(k, i)]
  BY <1>4
<1>6. [i \in DOMAIN StatsLayout[k].names |->
         Bytes(stats[StatsLayout[k].names[i]], StatsLayout[k].width)]
      = [i \in 1..n |-> Bytes(v[i], w)]
  BY <1>2, <1>5 DEF Name
<1> HIDE DEF v
<1>7. Header(b, n * w) /\ \A i \in 1..n : Written(b, (i - 1) * w, v[i], w)
  BY <1>1, <1>5, FieldsJoin
<1> HIDE DEF b
<1>8. Shows(stats, b, k, 0)
  <2> SUFFICES ASSUME NEW i \in 1..12, i <= n
               PROVE  Written(b, 0 + (i - 1) * w, stats[Name(k, i)], w)
    BY DEF Shows, n, w
  <2>1. i \in 1..n
    BY <1>1
  <2>2. 0 + (i - 1) * w = (i - 1) * w
    BY <1>1, <2>1
  <2> QED BY <1>5, <1>7, <2>1, <2>2
<1> QED BY <1>6, <1>7, <1>8 DEF b, n, w

\* It is there, with or without another behind it, and is shifted by one before it.
LEMMA BlockIsKept ==
  ASSUME NEW stats \in [Stat -> Int], NEW k \in 1..6, NEW at \in Nat, NEW h, NEW g,
         Kept(h, g), Shows(stats, h, k, at)
  PROVE  Shows(stats, g, k, at)
<1> SUFFICES ASSUME NEW i \in 1..12, i <= Counts[k]
             PROVE  Written(g, at + (i - 1) * Widths[k], stats[Name(k, i)], Widths[k])
  BY DEF Shows
<1> DEFINE w == Widths[k]
           x == stats[Name(k, i)]
           o == at + (i - 1) * w
<1>1. w \in Nat /\ x \in Int /\ Written(h, o, x, w)
  BY LayoutFacts, NamesAreStats DEF Shows
<1>2. o \in Nat
  <2> HIDE DEF w
  <2>1. i - 1 \in Nat
    OBVIOUS
  <2>2. (i - 1) * w \in Nat
    BY <1>1, <2>1
  <2> QED BY <2>2
<1> HIDE DEF w, x, o
<1>3. Written(g, o, x, w)
  BY <1>1, <1>2, StillWritten
<1> QED BY <1>3 DEF w, x, o

LEMMA BlockIsShifted ==
  ASSUME NEW stats \in [Stat -> Int], NEW k \in 1..6, NEW h, NEW n, NEW t, NEW m,
         Header(h, n), Header(t, m), Shows(stats, t, k, 0)
  PROVE  Shows(stats, h \o t, k, n)
<1> SUFFICES ASSUME NEW i \in 1..12, i <= Counts[k]
             PROVE  Written(h \o t, n + (i - 1) * Widths[k], stats[Name(k, i)], Widths[k])
  BY DEF Shows
<1> DEFINE w == Widths[k]
           x == stats[Name(k, i)]
           o == (i - 1) * w
<1>1. w \in Nat /\ x \in Int /\ Written(t, 0 + o, x, w)
  BY LayoutFacts, NamesAreStats DEF Shows
<1>2. o \in Nat
  <2> HIDE DEF w
  <2>1. i - 1 \in Nat
    OBVIOUS
  <2> QED BY <1>1, <2>1
<1> HIDE DEF w, x, o
<1>3. 0 + o = o
  BY <1>2
<1>4. Written(h \o t, n + o, x, w)
  BY <1>1, <1>2, <1>3, BlockAdded
<1> QED BY <1>4 DEF w, x, o

\* Every statistic is written where its block and its place in it say.
LEMMA StatsAreWritten ==
  ASSUME NEW stats \in [Stat -> Int]
  PROVE  /\ Header(EncodeStats(stats), StatsLen)
         /\ \A k \in 1..6 : Shows(stats, EncodeStats(stats), k, Begins[k])
<1> DEFINE blocks == [k \in DOMAIN StatsLayout |->
             FlattenSeq([i \in DOMAIN StatsLayout[k].names |->
               Bytes(stats[StatsLayout[k].names[i]], StatsLayout[k].width)])]
<1>1. \A k \in 1..6 : Header(blocks[k], Counts[k] * Widths[k]) /\ Shows(stats, blocks[k], k, 0)
  BY LayoutFacts, BlockIsWritten
<1>2. Len(blocks) = 6
  <2>1. DOMAIN blocks = 1..6 /\ \A k \in 1..6 : blocks[k] \in Seq(Byte)
    BY <1>1, LayoutFacts DEF Header
  <2>2. blocks = [k \in 1..6 |-> blocks[k]]
    BY <2>1
  <2> HIDE DEF blocks
  <2>3. blocks \in Seq(Seq(Byte))
    BY <2>1, <2>2, IsASeq
  <2> QED BY <2>1, <2>3, LenProperties
<1>3. EncodeStats(stats) = FlattenSeq(blocks)
  BY DEF EncodeStats
<1> HIDE DEF blocks
<1>4. PICK g : /\ FlattenSeq(blocks) = g[6] /\ g[1] = blocks[1]
               /\ \A i \in 2..6 : g[i] = g[i - 1] \o blocks[i]
  <2>1. 6 \in Nat \ {0}
    OBVIOUS
  <2>2. \E g : /\ FlattenSeq(blocks) = g[6] /\ g[1] = blocks[1]
               /\ \A i \in 2..6 : g[i] = g[i - 1] \o blocks[i]
    BY <1>2, <2>1, FlattenSteps, Zenon
  <2> QED BY <2>2
<1>5. /\ Counts[1] = 9 /\ Counts[2] = 7 /\ Counts[3] = 6 /\ Counts[4] = 4 /\ Counts[5] = 6
      /\ Counts[6] = 4
      /\ Widths[1] = 4 /\ Widths[2] = 8 /\ Widths[3] = 4 /\ Widths[4] = 8 /\ Widths[5] = 4
      /\ Widths[6] = 8
  BY DEF Counts, Widths
<1>6. Header(g[1], 36) /\ Shows(stats, g[1], 1, 0)
  <2>1. Header(blocks[1], Counts[1] * Widths[1]) /\ Shows(stats, blocks[1], 1, 0)
    BY <1>1
  <2> QED BY <1>4, <1>5, <2>1, 9 * 4 = 36
<1>7. /\ Header(g[2], 92)
      /\ Shows(stats, g[2], 1, 0)
      /\ Shows(stats, g[2], 2, 36)
  <2>1. Header(blocks[2], Counts[2] * Widths[2]) /\ Shows(stats, blocks[2], 2, 0)
    BY <1>1
  <2>2. Header(blocks[2], 56) /\ Header(g[1], 36)
    BY <1>5, <1>6, <2>1, 7 * 8 = 56
  <2>3. g[2] = g[1] \o blocks[2]
    <3>1. 2 - 1 = 1 /\ 2 \in 2..6
      OBVIOUS
    <3> QED BY <1>4, <3>1
  <2>4. Header(g[2], 36 + 56) /\ Kept(g[1], g[2])
    <3>1. /\ Header(g[1] \o blocks[2], 36 + 56)
          /\ Kept(g[1], g[1] \o blocks[2])
      BY <2>2, BlockAdded
    <3> QED BY <2>3, <3>1
  <2>5. Header(g[2], 92)
    BY <2>4, 36 + 56 = 92
  <2>6. Shows(stats, g[2], 2, 36)
    BY <2>1, <2>2, <2>3, 2 \in 1..6, BlockIsShifted
  <2>7. Shows(stats, g[2], 1, 0)
    BY <1>6, <2>4, 1 \in 1..6, 0 \in Nat, BlockIsKept
  <2> QED BY <2>5, <2>6, <2>7
<1>8. /\ Header(g[3], 116)
      /\ Shows(stats, g[3], 1, 0)
      /\ Shows(stats, g[3], 2, 36)
      /\ Shows(stats, g[3], 3, 92)
  <2>1. Header(blocks[3], Counts[3] * Widths[3]) /\ Shows(stats, blocks[3], 3, 0)
    BY <1>1
  <2>2. Header(blocks[3], 24) /\ Header(g[2], 92)
    BY <1>5, <1>7, <2>1, 6 * 4 = 24
  <2>3. g[3] = g[2] \o blocks[3]
    <3>1. 3 - 1 = 2 /\ 3 \in 2..6
      OBVIOUS
    <3> QED BY <1>4, <3>1
  <2>4. Header(g[3], 92 + 24) /\ Kept(g[2], g[3])
    <3>1. /\ Header(g[2] \o blocks[3], 92 + 24)
          /\ Kept(g[2], g[2] \o blocks[3])
      BY <2>2, BlockAdded
    <3> QED BY <2>3, <3>1
  <2>5. Header(g[3], 116)
    BY <2>4, 92 + 24 = 116
  <2>6. Shows(stats, g[3], 3, 92)
    BY <2>1, <2>2, <2>3, 3 \in 1..6, BlockIsShifted
  <2>7. Shows(stats, g[3], 1, 0)
    BY <1>7, <2>4, 1 \in 1..6, 0 \in Nat, BlockIsKept
  <2>8. Shows(stats, g[3], 2, 36)
    BY <1>7, <2>4, 2 \in 1..6, 36 \in Nat, BlockIsKept
  <2> QED BY <2>5, <2>6, <2>7, <2>8
<1>9. /\ Header(g[4], 148)
      /\ Shows(stats, g[4], 1, 0)
      /\ Shows(stats, g[4], 2, 36)
      /\ Shows(stats, g[4], 3, 92)
      /\ Shows(stats, g[4], 4, 116)
  <2>1. Header(blocks[4], Counts[4] * Widths[4]) /\ Shows(stats, blocks[4], 4, 0)
    BY <1>1
  <2>2. Header(blocks[4], 32) /\ Header(g[3], 116)
    BY <1>5, <1>8, <2>1, 4 * 8 = 32
  <2>3. g[4] = g[3] \o blocks[4]
    <3>1. 4 - 1 = 3 /\ 4 \in 2..6
      OBVIOUS
    <3> QED BY <1>4, <3>1
  <2>4. Header(g[4], 116 + 32) /\ Kept(g[3], g[4])
    <3>1. /\ Header(g[3] \o blocks[4], 116 + 32)
          /\ Kept(g[3], g[3] \o blocks[4])
      BY <2>2, BlockAdded
    <3> QED BY <2>3, <3>1
  <2>5. Header(g[4], 148)
    BY <2>4, 116 + 32 = 148
  <2>6. Shows(stats, g[4], 4, 116)
    BY <2>1, <2>2, <2>3, 4 \in 1..6, BlockIsShifted
  <2>7. Shows(stats, g[4], 1, 0)
    BY <1>8, <2>4, 1 \in 1..6, 0 \in Nat, BlockIsKept
  <2>8. Shows(stats, g[4], 2, 36)
    BY <1>8, <2>4, 2 \in 1..6, 36 \in Nat, BlockIsKept
  <2>9. Shows(stats, g[4], 3, 92)
    BY <1>8, <2>4, 3 \in 1..6, 92 \in Nat, BlockIsKept
  <2> QED BY <2>5, <2>6, <2>7, <2>8, <2>9
<1>10. /\ Header(g[5], 172)
      /\ Shows(stats, g[5], 1, 0)
      /\ Shows(stats, g[5], 2, 36)
      /\ Shows(stats, g[5], 3, 92)
      /\ Shows(stats, g[5], 4, 116)
      /\ Shows(stats, g[5], 5, 148)
  <2>1. Header(blocks[5], Counts[5] * Widths[5]) /\ Shows(stats, blocks[5], 5, 0)
    BY <1>1
  <2>2. Header(blocks[5], 24) /\ Header(g[4], 148)
    BY <1>5, <1>9, <2>1, 6 * 4 = 24
  <2>3. g[5] = g[4] \o blocks[5]
    <3>1. 5 - 1 = 4 /\ 5 \in 2..6
      OBVIOUS
    <3> QED BY <1>4, <3>1
  <2>4. Header(g[5], 148 + 24) /\ Kept(g[4], g[5])
    <3>1. /\ Header(g[4] \o blocks[5], 148 + 24)
          /\ Kept(g[4], g[4] \o blocks[5])
      BY <2>2, BlockAdded
    <3> QED BY <2>3, <3>1
  <2>5. Header(g[5], 172)
    BY <2>4, 148 + 24 = 172
  <2>6. Shows(stats, g[5], 5, 148)
    BY <2>1, <2>2, <2>3, 5 \in 1..6, BlockIsShifted
  <2>7. Shows(stats, g[5], 1, 0)
    BY <1>9, <2>4, 1 \in 1..6, 0 \in Nat, BlockIsKept
  <2>8. Shows(stats, g[5], 2, 36)
    BY <1>9, <2>4, 2 \in 1..6, 36 \in Nat, BlockIsKept
  <2>9. Shows(stats, g[5], 3, 92)
    BY <1>9, <2>4, 3 \in 1..6, 92 \in Nat, BlockIsKept
  <2>10. Shows(stats, g[5], 4, 116)
    BY <1>9, <2>4, 4 \in 1..6, 116 \in Nat, BlockIsKept
  <2> QED BY <2>5, <2>6, <2>7, <2>8, <2>9, <2>10
<1>11. /\ Header(g[6], 204)
      /\ Shows(stats, g[6], 1, 0)
      /\ Shows(stats, g[6], 2, 36)
      /\ Shows(stats, g[6], 3, 92)
      /\ Shows(stats, g[6], 4, 116)
      /\ Shows(stats, g[6], 5, 148)
      /\ Shows(stats, g[6], 6, 172)
  <2>1. Header(blocks[6], Counts[6] * Widths[6]) /\ Shows(stats, blocks[6], 6, 0)
    BY <1>1
  <2>2. Header(blocks[6], 32) /\ Header(g[5], 172)
    BY <1>5, <1>10, <2>1, 4 * 8 = 32
  <2>3. g[6] = g[5] \o blocks[6]
    <3>1. 6 - 1 = 5 /\ 6 \in 2..6
      OBVIOUS
    <3> QED BY <1>4, <3>1
  <2>4. Header(g[6], 172 + 32) /\ Kept(g[5], g[6])
    <3>1. /\ Header(g[5] \o blocks[6], 172 + 32)
          /\ Kept(g[5], g[5] \o blocks[6])
      BY <2>2, BlockAdded
    <3> QED BY <2>3, <3>1
  <2>5. Header(g[6], 204)
    BY <2>4, 172 + 32 = 204
  <2>6. Shows(stats, g[6], 6, 172)
    BY <2>1, <2>2, <2>3, 6 \in 1..6, BlockIsShifted
  <2>7. Shows(stats, g[6], 1, 0)
    BY <1>10, <2>4, 1 \in 1..6, 0 \in Nat, BlockIsKept
  <2>8. Shows(stats, g[6], 2, 36)
    BY <1>10, <2>4, 2 \in 1..6, 36 \in Nat, BlockIsKept
  <2>9. Shows(stats, g[6], 3, 92)
    BY <1>10, <2>4, 3 \in 1..6, 92 \in Nat, BlockIsKept
  <2>10. Shows(stats, g[6], 4, 116)
    BY <1>10, <2>4, 4 \in 1..6, 116 \in Nat, BlockIsKept
  <2>11. Shows(stats, g[6], 5, 148)
    BY <1>10, <2>4, 5 \in 1..6, 148 \in Nat, BlockIsKept
  <2> QED BY <2>5, <2>6, <2>7, <2>8, <2>9, <2>10, <2>11
<1>12. StatsLen = 204 /\ Begins[1] = 0 /\ Begins[2] = 36 /\ Begins[3] = 92
       /\ Begins[4] = 116 /\ Begins[5] = 148 /\ Begins[6] = 172
  BY DEF StatsLen, Begins
<1> DEFINE E == EncodeStats(stats)
<1>13. E = g[6]
  BY <1>3, <1>4
<1> HIDE DEF E
<1>14. \A k \in 1..6 : k = 1 \/ k = 2 \/ k = 3 \/ k = 4 \/ k = 5 \/ k = 6
  OBVIOUS
<1> DEFINE Right(k) == Shows(stats, E, k, Begins[k])
<1>17. Right(1) /\ Right(2) /\ Right(3) /\ Right(4) /\ Right(5) /\ Right(6)
  BY <1>11, <1>12, <1>13
<1>15. \A k \in 1..6 : Right(k)
  <2> HIDE DEF Right
  <2> QED BY <1>17, <1>14, Zenon
<1>16. Header(E, StatsLen)
  BY <1>11, <1>12, <1>13
<1> QED BY <1>15, <1>16 DEF E

\* Where a field comes among all of them.
Rank(f) ==
  CASE f = "fps" -> 1 [] f = "source_fps" -> 2 [] f = "megabits_per_second" -> 3
    [] f = "capture_ms" -> 4 [] f = "gpu_wait_ms" -> 5 [] f = "gpu_lock_ms" -> 6
    [] f = "encode_ms" -> 7 [] f = "send_ms" -> 8 [] f = "encode_queue_ms" -> 9
    [] f = "dxgi_timeouts" -> 10 [] f = "dxgi_backlog" -> 11
    [] f = "dxgi_backlog_max" -> 12 [] f = "pacing_skips" -> 13
    [] f = "slot_busy_skips" -> 14 [] f = "cursor_only_frames" -> 15
    [] f = "stale_frames" -> 16 [] f = "copy_wait_ms" -> 17
    [] f = "convert_wait_ms" -> 18 [] f = "map_ms" -> 19 [] f = "submit_ms" -> 20
    [] f = "completion_wait_ms" -> 21 [] f = "bitstream_ms" -> 22
    [] f = "preprocess_busy_skips" -> 23 [] f = "no_free_slot_skips" -> 24
    [] f = "nvenc_submissions" -> 25 [] f = "nvenc_completions" -> 26
    [] f = "submit_api_ms" -> 27 [] f = "submit_busy_wait_ms" -> 28
    [] f = "bitstream_lock_ms" -> 29 [] f = "bitstream_copy_ms" -> 30
    [] f = "bitstream_unlock_ms" -> 31 [] f = "unmap_ms" -> 32
    [] f = "submit_busy_retries" -> 33 [] f = "gpu_priority_class" -> 34
    [] f = "nvenc_buffer_count" -> 35 [] f = "video_send_failures" -> 36

Before == <<0, 9, 16, 22, 26, 32>>

\* No two fields have one name.
LEMMA NamesAreRanked ==
  \A k \in 1..6, i \in 1..12 : i <= Counts[k] => Rank(Name(k, i)) = Before[k] + i
<1> DEFINE Good(k) == \A i \in 1..12 : i <= Counts[k] => Rank(Name(k, i)) = Before[k] + i
<1>1. Good(1)
  <2>1. Counts[1] = 9 /\ Before[1] = 0
    BY DEF Counts, Before
  <2>2. Name(1, 1) = "fps"
    BY DEF Name, StatsLayout, Stage
  <2>3. Name(1, 2) = "source_fps"
    BY DEF Name, StatsLayout, Stage
  <2>4. Name(1, 3) = "megabits_per_second"
    BY DEF Name, StatsLayout, Stage
  <2>5. Name(1, 4) = "capture_ms"
    BY DEF Name, StatsLayout, Stage
  <2>6. Name(1, 5) = "gpu_wait_ms"
    BY DEF Name, StatsLayout, Stage
  <2>7. Name(1, 6) = "gpu_lock_ms"
    BY DEF Name, StatsLayout, Stage
  <2>8. Name(1, 7) = "encode_ms"
    BY DEF Name, StatsLayout, Stage
  <2>9. Name(1, 8) = "send_ms"
    BY DEF Name, StatsLayout, Stage
  <2>10. Name(1, 9) = "encode_queue_ms"
    BY DEF Name, StatsLayout, Stage
  <2>11. /\ Rank(Name(1, 1)) = 1
        /\ Rank(Name(1, 2)) = 2
        /\ Rank(Name(1, 3)) = 3
        /\ Rank(Name(1, 4)) = 4
        /\ Rank(Name(1, 5)) = 5
        /\ Rank(Name(1, 6)) = 6
        /\ Rank(Name(1, 7)) = 7
        /\ Rank(Name(1, 8)) = 8
        /\ Rank(Name(1, 9)) = 9
    BY <2>2, <2>3, <2>4, <2>5, <2>6, <2>7, <2>8, <2>9, <2>10 DEF Rank
  <2>12. \A i \in 1..12 : i <= 9 => i = 1 \/ i = 2 \/ i = 3 \/ i = 4 \/ i = 5 \/ i = 6 \/ i = 7 \/ i = 8 \/ i = 9
    OBVIOUS
  <2> QED BY <2>1, <2>11, <2>12
<1>2. Good(2)
  <2>1. Counts[2] = 7 /\ Before[2] = 9
    BY DEF Counts, Before
  <2>2. Name(2, 1) = "dxgi_timeouts"
    BY DEF Name, StatsLayout, Stage
  <2>3. Name(2, 2) = "dxgi_backlog"
    BY DEF Name, StatsLayout, Stage
  <2>4. Name(2, 3) = "dxgi_backlog_max"
    BY DEF Name, StatsLayout, Stage
  <2>5. Name(2, 4) = "pacing_skips"
    BY DEF Name, StatsLayout, Stage
  <2>6. Name(2, 5) = "slot_busy_skips"
    BY DEF Name, StatsLayout, Stage
  <2>7. Name(2, 6) = "cursor_only_frames"
    BY DEF Name, StatsLayout, Stage
  <2>8. Name(2, 7) = "stale_frames"
    BY DEF Name, StatsLayout, Stage
  <2>9. /\ Rank(Name(2, 1)) = 10
        /\ Rank(Name(2, 2)) = 11
        /\ Rank(Name(2, 3)) = 12
        /\ Rank(Name(2, 4)) = 13
        /\ Rank(Name(2, 5)) = 14
        /\ Rank(Name(2, 6)) = 15
        /\ Rank(Name(2, 7)) = 16
    BY <2>2, <2>3, <2>4, <2>5, <2>6, <2>7, <2>8 DEF Rank
  <2>10. \A i \in 1..12 : i <= 7 => i = 1 \/ i = 2 \/ i = 3 \/ i = 4 \/ i = 5 \/ i = 6 \/ i = 7
    OBVIOUS
  <2> QED BY <2>1, <2>9, <2>10
<1>3. Good(3)
  <2>1. Counts[3] = 6 /\ Before[3] = 16
    BY DEF Counts, Before
  <2>2. Name(3, 1) = "copy_wait_ms"
    BY DEF Name, StatsLayout, Stage
  <2>3. Name(3, 2) = "convert_wait_ms"
    BY DEF Name, StatsLayout, Stage
  <2>4. Name(3, 3) = "map_ms"
    BY DEF Name, StatsLayout, Stage
  <2>5. Name(3, 4) = "submit_ms"
    BY DEF Name, StatsLayout, Stage
  <2>6. Name(3, 5) = "completion_wait_ms"
    BY DEF Name, StatsLayout, Stage
  <2>7. Name(3, 6) = "bitstream_ms"
    BY DEF Name, StatsLayout, Stage
  <2>8. /\ Rank(Name(3, 1)) = 17
        /\ Rank(Name(3, 2)) = 18
        /\ Rank(Name(3, 3)) = 19
        /\ Rank(Name(3, 4)) = 20
        /\ Rank(Name(3, 5)) = 21
        /\ Rank(Name(3, 6)) = 22
    BY <2>2, <2>3, <2>4, <2>5, <2>6, <2>7 DEF Rank
  <2>9. \A i \in 1..12 : i <= 6 => i = 1 \/ i = 2 \/ i = 3 \/ i = 4 \/ i = 5 \/ i = 6
    OBVIOUS
  <2> QED BY <2>1, <2>8, <2>9
<1>4. Good(4)
  <2>1. Counts[4] = 4 /\ Before[4] = 22
    BY DEF Counts, Before
  <2>2. Name(4, 1) = "preprocess_busy_skips"
    BY DEF Name, StatsLayout, Stage
  <2>3. Name(4, 2) = "no_free_slot_skips"
    BY DEF Name, StatsLayout, Stage
  <2>4. Name(4, 3) = "nvenc_submissions"
    BY DEF Name, StatsLayout, Stage
  <2>5. Name(4, 4) = "nvenc_completions"
    BY DEF Name, StatsLayout, Stage
  <2>6. /\ Rank(Name(4, 1)) = 23
        /\ Rank(Name(4, 2)) = 24
        /\ Rank(Name(4, 3)) = 25
        /\ Rank(Name(4, 4)) = 26
    BY <2>2, <2>3, <2>4, <2>5 DEF Rank
  <2>7. \A i \in 1..12 : i <= 4 => i = 1 \/ i = 2 \/ i = 3 \/ i = 4
    OBVIOUS
  <2> QED BY <2>1, <2>6, <2>7
<1>5. Good(5)
  <2>1. Counts[5] = 6 /\ Before[5] = 26
    BY DEF Counts, Before
  <2>2. Name(5, 1) = "submit_api_ms"
    BY DEF Name, StatsLayout, Stage
  <2>3. Name(5, 2) = "submit_busy_wait_ms"
    BY DEF Name, StatsLayout, Stage
  <2>4. Name(5, 3) = "bitstream_lock_ms"
    BY DEF Name, StatsLayout, Stage
  <2>5. Name(5, 4) = "bitstream_copy_ms"
    BY DEF Name, StatsLayout, Stage
  <2>6. Name(5, 5) = "bitstream_unlock_ms"
    BY DEF Name, StatsLayout, Stage
  <2>7. Name(5, 6) = "unmap_ms"
    BY DEF Name, StatsLayout, Stage
  <2>8. /\ Rank(Name(5, 1)) = 27
        /\ Rank(Name(5, 2)) = 28
        /\ Rank(Name(5, 3)) = 29
        /\ Rank(Name(5, 4)) = 30
        /\ Rank(Name(5, 5)) = 31
        /\ Rank(Name(5, 6)) = 32
    BY <2>2, <2>3, <2>4, <2>5, <2>6, <2>7 DEF Rank
  <2>9. \A i \in 1..12 : i <= 6 => i = 1 \/ i = 2 \/ i = 3 \/ i = 4 \/ i = 5 \/ i = 6
    OBVIOUS
  <2> QED BY <2>1, <2>8, <2>9
<1>6. Good(6)
  <2>1. Counts[6] = 4 /\ Before[6] = 32
    BY DEF Counts, Before
  <2>2. Name(6, 1) = "submit_busy_retries"
    BY DEF Name, StatsLayout, Stage
  <2>3. Name(6, 2) = "gpu_priority_class"
    BY DEF Name, StatsLayout, Stage
  <2>4. Name(6, 3) = "nvenc_buffer_count"
    BY DEF Name, StatsLayout, Stage
  <2>5. Name(6, 4) = "video_send_failures"
    BY DEF Name, StatsLayout, Stage
  <2>6. /\ Rank(Name(6, 1)) = 33
        /\ Rank(Name(6, 2)) = 34
        /\ Rank(Name(6, 3)) = 35
        /\ Rank(Name(6, 4)) = 36
    BY <2>2, <2>3, <2>4, <2>5 DEF Rank
  <2>7. \A i \in 1..12 : i <= 4 => i = 1 \/ i = 2 \/ i = 3 \/ i = 4
    OBVIOUS
  <2> QED BY <2>1, <2>6, <2>7
<1>7. \A k \in 1..6 : k = 1 \/ k = 2 \/ k = 3 \/ k = 4 \/ k = 5 \/ k = 6
  OBVIOUS
<1> HIDE DEF Good
<1>8. \A k \in 1..6 : Good(k)
  BY <1>1, <1>2, <1>3, <1>4, <1>5, <1>6, <1>7, Zenon
<1> QED BY <1>8 DEF Good

\* The snapshots that hold a field are those of this length and longer.
FirstLength(k, i) ==
  IF k <= 2 THEN LegacyStatsLen
  ELSE IF k = 3 \/ (k = 4 /\ i <= 2) THEN StagedStatsLen
  ELSE IF k = 4 THEN CounterStatsLen ELSE StatsLen

PlaceOf(k, i) ==
  [offset |-> Begins[k] + (i - 1) * Widths[k], width |-> Widths[k], from |-> FirstLength(k, i)]

\* A table gives the fields of these names, of the ranks behind b, their places.
Places(table, names, b, n, first, width, from) ==
  /\ \A f \in DOMAIN table : Rank(f) \in b + 1 .. b + n
  /\ \A i \in 1..n : /\ names[i] \in DOMAIN table
                     /\ table[names[i]] = [offset |-> first + width * i - width,
                                           width |-> width, from |-> from]

\* They are of those ranks.
Ranked(names, b, n) ==
  /\ n \in Nat /\ b \in Nat /\ DOMAIN names = 1..n
  /\ \A i \in 1..n : Rank(names[i]) = b + i

LEMMA PlaceAmong ==
  ASSUME NEW names, NEW b, NEW n, Ranked(names, b, n), NEW first, NEW width, NEW from
  PROVE  Places(At(names, first, width, from), names, b, n, first, width, from)
<1> DEFINE A == At(names, first, width, from)
           at(f) == CHOOSE k \in DOMAIN names : names[k] = f
<1>0. /\ n \in Nat /\ b \in Nat /\ DOMAIN names = 1..n
      /\ \A i \in 1..n : Rank(names[i]) = b + i
  BY DEF Ranked
<1>1. A = [f \in Range(names) |-> [offset |-> first + width * at(f) - width, width |-> width,
                                  from |-> from]]
  BY DEF At
<1>2. Range(names) = {names[i] : i \in 1..n}
  BY <1>0 DEF Range
<1>3. ASSUME NEW i \in 1..n PROVE at(names[i]) = i
  <2>1. at(names[i]) \in 1..n /\ names[at(names[i])] = names[i]
    <3>1. \E k \in DOMAIN names : names[k] = names[i]
      BY <1>0
    <3> QED BY <1>0, <3>1, Zenon
  <2> DEFINE j == at(names[i])
  <2>2. j \in 1..n /\ names[j] = names[i]
    BY <2>1
  <2> HIDE DEF j
  <2>3. b + j = b + i
    BY <1>0, <2>2
  <2>4. j = i
    BY <1>0, <2>2, <2>3
  <2> QED BY <2>4 DEF j
<1> HIDE DEF at
<1>4. \A f \in DOMAIN A : Rank(f) \in b + 1 .. b + n
  <2> SUFFICES ASSUME NEW f \in Range(names) PROVE Rank(f) \in b + 1 .. b + n
    BY <1>1
  <2>1. PICK i \in 1..n : f = names[i]
    BY <1>2
  <2> QED BY <1>0, <2>1
<1>5. ASSUME NEW i \in 1..n
      PROVE  /\ names[i] \in DOMAIN A
             /\ A[names[i]] = [offset |-> first + width * i - width, width |-> width,
                               from |-> from]
  <2>1. names[i] \in Range(names)
    BY <1>2
  <2> QED BY <1>1, <1>3, <2>1
<1> HIDE DEF A
<1>6. \A i \in 1..n : /\ names[i] \in DOMAIN A
                      /\ A[names[i]] = [offset |-> first + width * i - width, width |-> width,
                                        from |-> from]
  BY <1>5
<1> QED BY <1>4, <1>6 DEF A, Places


\* The parser looks for every field where the writer put it.
LEMMA StatsAreFound ==
  \A k \in 1..6, i \in 1..12 : i <= Counts[k] => StatsOffsets[Name(k, i)] = PlaceOf(k, i)
<1> DEFINE names(k) == StatsLayout[k].names
           T1 == At(names(1), 0, 4, LegacyStatsLen)
           T2 == At(names(2), 36, 8, LegacyStatsLen)
           T3 == At(names(3), 92, 4, StagedStatsLen)
           T4 == At(SubSeq(names(4), 1, 2), 116, 8, StagedStatsLen)
           T5 == At(SubSeq(names(4), 3, 4), 132, 8, CounterStatsLen)
           T6 == At(names(5), 148, 4, StatsLen)
           T7 == At(names(6), 172, 8, StatsLen)
<1>1. Range(Lookups) = {T1, T2, T3, T4, T5, T6, T7}
  <2>1. Lookups = <<T1, T2, T3, T4, T5, T6, T7>>
    BY DEF Lookups
  <2> HIDE DEF T1, T2, T3, T4, T5, T6, T7
  <2>2. /\ DOMAIN Lookups = 1..7 /\ Lookups[1] = T1 /\ Lookups[2] = T2 /\ Lookups[3] = T3
        /\ Lookups[4] = T4 /\ Lookups[5] = T5 /\ Lookups[6] = T6 /\ Lookups[7] = T7
    BY <2>1
  <2>3. \A k \in 1..7 : k = 1 \/ k = 2 \/ k = 3 \/ k = 4 \/ k = 5 \/ k = 6 \/ k = 7
    OBVIOUS
  <2>4. {1, 2, 3, 4, 5, 6, 7} = 1..7
    OBVIOUS
  <2>5. \A t : t \in Range(Lookups) <=> \E k \in 1..7 : t = Lookups[k]
    BY <2>2 DEF Range
  <2>6. \A t \in Range(Lookups) : t \in {T1, T2, T3, T4, T5, T6, T7}
    BY <2>2, <2>3, <2>5
  <2>7. \A t \in {T1, T2, T3, T4, T5, T6, T7} : t \in Range(Lookups)
    BY <2>2, <2>4, <2>5
  <2> QED BY <2>6, <2>7
<1>2. /\ Counts[1] = 9 /\ Counts[2] = 7 /\ Counts[3] = 6 /\ Counts[4] = 4 /\ Counts[5] = 6
      /\ Counts[6] = 4
      /\ Widths[1] = 4 /\ Widths[2] = 8 /\ Widths[3] = 4 /\ Widths[4] = 8 /\ Widths[5] = 4
      /\ Widths[6] = 8
      /\ Before[1] = 0 /\ Before[2] = 9 /\ Before[3] = 16 /\ Before[4] = 22
      /\ Before[5] = 26 /\ Before[6] = 32
      /\ Begins[1] = 0 /\ Begins[2] = 36 /\ Begins[3] = 92
      /\ Begins[4] = 116 /\ Begins[5] = 148 /\ Begins[6] = 172
  BY DEF Counts, Widths, Before, Begins
<1>3. /\ DOMAIN names(1) = 1..9 /\ DOMAIN names(2) = 1..7 /\ DOMAIN names(3) = 1..6
       /\ DOMAIN names(4) = 1..4 /\ DOMAIN names(5) = 1..6 /\ DOMAIN names(6) = 1..4
  <2>1. \A k \in 1..6 : DOMAIN names(k) = 1..Counts[k]
    BY LayoutFacts
  <2>2. 1 \in 1..6 /\ 2 \in 1..6 /\ 3 \in 1..6 /\ 4 \in 1..6 /\ 5 \in 1..6 /\ 6 \in 1..6
    OBVIOUS
  <2> HIDE DEF names
  <2>3. /\ DOMAIN names(1) = 1..Counts[1] /\ DOMAIN names(2) = 1..Counts[2]
        /\ DOMAIN names(3) = 1..Counts[3] /\ DOMAIN names(4) = 1..Counts[4]
        /\ DOMAIN names(5) = 1..Counts[5] /\ DOMAIN names(6) = 1..Counts[6]
    BY <2>1, <2>2, Zenon
  <2> QED BY <1>2, <2>3
<1> HIDE DEF names
<1>4. /\ \A f \in DOMAIN T1 : Rank(f) \in 1..9
      /\ \A i \in 1..9 : /\ Name(1, i) \in DOMAIN T1
                       /\ T1[Name(1, i)] =
                            [offset |-> 0 + 4 * i - 4, width |-> 4, from |-> LegacyStatsLen]
  <2>1. DOMAIN names(1) = 1..9
    BY <1>3
  <2>2. ASSUME NEW i \in 1..9 PROVE names(1)[i] = Name(1, i) /\ Rank(names(1)[i]) = 0 + i
    <3>1. i \in 1..12 /\ i <= 9 /\ 1 \in 1..6
      OBVIOUS
    <3> QED BY <1>2, <3>1, NamesAreRanked DEF names, Name
  <2> DEFINE c == names(1)
  <2> HIDE DEF c
  <2>3. 9 \in Nat /\ 0 \in Nat
    OBVIOUS
  <2>4. Ranked(c, 0, 9)
    BY <2>1, <2>2, <2>3 DEF Ranked, c
  <2> DEFINE t == At(c, 0, 4, LegacyStatsLen)
  <2>5. Places(t, c, 0, 9, 0, 4, LegacyStatsLen)
    BY <2>4, PlaceAmong
  <2> HIDE DEF t
  <2>6. /\ \A f \in DOMAIN t : Rank(f) \in 0 + 1 .. 0 + 9
        /\ \A i \in 1..9 : /\ c[i] \in DOMAIN t
                         /\ t[c[i]] = [offset |-> 0 + 4 * i - 4, width |-> 4, from |-> LegacyStatsLen]
    BY <2>5 DEF Places
  <2>7. \A f \in DOMAIN t : Rank(f) \in 1..9
    BY <2>6
  <2>8. \A i \in 1..9 : c[i] = Name(1, i)
    BY <2>2 DEF c
  <2>9. \A i \in 1..9 : /\ Name(1, i) \in DOMAIN t
                       /\ t[Name(1, i)] = [offset |-> 0 + 4 * i - 4, width |-> 4, from |-> LegacyStatsLen]
    BY <2>6, <2>8
  <2> QED BY <2>7, <2>9 DEF t, c
<1>5. /\ \A f \in DOMAIN T2 : Rank(f) \in 10..16
      /\ \A i \in 1..7 : /\ Name(2, i) \in DOMAIN T2
                       /\ T2[Name(2, i)] =
                            [offset |-> 36 + 8 * i - 8, width |-> 8, from |-> LegacyStatsLen]
  <2>1. DOMAIN names(2) = 1..7
    BY <1>3
  <2>2. ASSUME NEW i \in 1..7 PROVE names(2)[i] = Name(2, i) /\ Rank(names(2)[i]) = 9 + i
    <3>1. i \in 1..12 /\ i <= 7 /\ 2 \in 1..6
      OBVIOUS
    <3> QED BY <1>2, <3>1, NamesAreRanked DEF names, Name
  <2> DEFINE c == names(2)
  <2> HIDE DEF c
  <2>3. 7 \in Nat /\ 9 \in Nat
    OBVIOUS
  <2>4. Ranked(c, 9, 7)
    BY <2>1, <2>2, <2>3 DEF Ranked, c
  <2> DEFINE t == At(c, 36, 8, LegacyStatsLen)
  <2>5. Places(t, c, 9, 7, 36, 8, LegacyStatsLen)
    BY <2>4, PlaceAmong
  <2> HIDE DEF t
  <2>6. /\ \A f \in DOMAIN t : Rank(f) \in 9 + 1 .. 9 + 7
        /\ \A i \in 1..7 : /\ c[i] \in DOMAIN t
                         /\ t[c[i]] = [offset |-> 36 + 8 * i - 8, width |-> 8, from |-> LegacyStatsLen]
    BY <2>5 DEF Places
  <2>7. \A f \in DOMAIN t : Rank(f) \in 10..16
    BY <2>6
  <2>8. \A i \in 1..7 : c[i] = Name(2, i)
    BY <2>2 DEF c
  <2>9. \A i \in 1..7 : /\ Name(2, i) \in DOMAIN t
                       /\ t[Name(2, i)] = [offset |-> 36 + 8 * i - 8, width |-> 8, from |-> LegacyStatsLen]
    BY <2>6, <2>8
  <2> QED BY <2>7, <2>9 DEF t, c
<1>6. /\ \A f \in DOMAIN T3 : Rank(f) \in 17..22
      /\ \A i \in 1..6 : /\ Name(3, i) \in DOMAIN T3
                       /\ T3[Name(3, i)] =
                            [offset |-> 92 + 4 * i - 4, width |-> 4, from |-> StagedStatsLen]
  <2>1. DOMAIN names(3) = 1..6
    BY <1>3
  <2>2. ASSUME NEW i \in 1..6 PROVE names(3)[i] = Name(3, i) /\ Rank(names(3)[i]) = 16 + i
    <3>1. i \in 1..12 /\ i <= 6 /\ 3 \in 1..6
      OBVIOUS
    <3> QED BY <1>2, <3>1, NamesAreRanked DEF names, Name
  <2> DEFINE c == names(3)
  <2> HIDE DEF c
  <2>3. 6 \in Nat /\ 16 \in Nat
    OBVIOUS
  <2>4. Ranked(c, 16, 6)
    BY <2>1, <2>2, <2>3 DEF Ranked, c
  <2> DEFINE t == At(c, 92, 4, StagedStatsLen)
  <2>5. Places(t, c, 16, 6, 92, 4, StagedStatsLen)
    BY <2>4, PlaceAmong
  <2> HIDE DEF t
  <2>6. /\ \A f \in DOMAIN t : Rank(f) \in 16 + 1 .. 16 + 6
        /\ \A i \in 1..6 : /\ c[i] \in DOMAIN t
                         /\ t[c[i]] = [offset |-> 92 + 4 * i - 4, width |-> 4, from |-> StagedStatsLen]
    BY <2>5 DEF Places
  <2>7. \A f \in DOMAIN t : Rank(f) \in 17..22
    BY <2>6
  <2>8. \A i \in 1..6 : c[i] = Name(3, i)
    BY <2>2 DEF c
  <2>9. \A i \in 1..6 : /\ Name(3, i) \in DOMAIN t
                       /\ t[Name(3, i)] = [offset |-> 92 + 4 * i - 4, width |-> 4, from |-> StagedStatsLen]
    BY <2>6, <2>8
  <2> QED BY <2>7, <2>9 DEF t, c
<1>7. /\ \A f \in DOMAIN T4 : Rank(f) \in 23..24
      /\ \A i \in 1..2 : /\ Name(4, i) \in DOMAIN T4
                       /\ T4[Name(4, i)] =
                            [offset |-> 116 + 8 * i - 8, width |-> 8, from |-> StagedStatsLen]
  <2> DEFINE c == SubSeq(names(4), 1, 2)
  <2>1. DOMAIN c = 1..2
    OBVIOUS
  <2>2. ASSUME NEW i \in 1..2 PROVE c[i] = Name(4, i) /\ Rank(c[i]) = 22 + i
    <3>1. i \in 1..12 /\ i <= 4 /\ 4 \in 1..6
      OBVIOUS
    <3>2. c[i] = names(4)[i]
      OBVIOUS
    <3>3. Rank(Name(4, i)) = 22 + (i)
      BY <1>2, <3>1, NamesAreRanked
    <3> QED BY <3>2, <3>3 DEF names, Name
  <2> HIDE DEF c
  <2>3. 2 \in Nat /\ 22 \in Nat
    OBVIOUS
  <2>4. Ranked(c, 22, 2)
    BY <2>1, <2>2, <2>3 DEF Ranked, c
  <2> DEFINE t == At(c, 116, 8, StagedStatsLen)
  <2>5. Places(t, c, 22, 2, 116, 8, StagedStatsLen)
    BY <2>4, PlaceAmong
  <2> HIDE DEF t
  <2>6. /\ \A f \in DOMAIN t : Rank(f) \in 22 + 1 .. 22 + 2
        /\ \A i \in 1..2 : /\ c[i] \in DOMAIN t
                         /\ t[c[i]] = [offset |-> 116 + 8 * i - 8, width |-> 8, from |-> StagedStatsLen]
    BY <2>5 DEF Places
  <2>7. \A f \in DOMAIN t : Rank(f) \in 23..24
    BY <2>6
  <2>8. \A i \in 1..2 : c[i] = Name(4, i)
    BY <2>2 DEF c
  <2>9. \A i \in 1..2 : /\ Name(4, i) \in DOMAIN t
                       /\ t[Name(4, i)] = [offset |-> 116 + 8 * i - 8, width |-> 8, from |-> StagedStatsLen]
    BY <2>6, <2>8
  <2> QED BY <2>7, <2>9 DEF t, c
<1>8. /\ \A f \in DOMAIN T5 : Rank(f) \in 25..26
      /\ \A i \in 1..2 : /\ Name(4, i + 2) \in DOMAIN T5
                       /\ T5[Name(4, i + 2)] =
                            [offset |-> 132 + 8 * i - 8, width |-> 8, from |-> CounterStatsLen]
  <2> DEFINE c == SubSeq(names(4), 3, 4)
  <2>1. DOMAIN c = 1..2
    OBVIOUS
  <2>2. ASSUME NEW i \in 1..2 PROVE c[i] = Name(4, i + 2) /\ Rank(c[i]) = 24 + i
    <3>1. i + 2 \in 1..12 /\ i + 2 <= 4 /\ 4 \in 1..6
      OBVIOUS
    <3>2. c[i] = names(4)[i + 2]
      OBVIOUS
    <3>3. Rank(Name(4, i + 2)) = 22 + (i + 2)
      BY <1>2, <3>1, NamesAreRanked
    <3> QED BY <3>2, <3>3 DEF names, Name
  <2> HIDE DEF c
  <2>3. 2 \in Nat /\ 24 \in Nat
    OBVIOUS
  <2>4. Ranked(c, 24, 2)
    BY <2>1, <2>2, <2>3 DEF Ranked, c
  <2> DEFINE t == At(c, 132, 8, CounterStatsLen)
  <2>5. Places(t, c, 24, 2, 132, 8, CounterStatsLen)
    BY <2>4, PlaceAmong
  <2> HIDE DEF t
  <2>6. /\ \A f \in DOMAIN t : Rank(f) \in 24 + 1 .. 24 + 2
        /\ \A i \in 1..2 : /\ c[i] \in DOMAIN t
                         /\ t[c[i]] = [offset |-> 132 + 8 * i - 8, width |-> 8, from |-> CounterStatsLen]
    BY <2>5 DEF Places
  <2>7. \A f \in DOMAIN t : Rank(f) \in 25..26
    BY <2>6
  <2>8. \A i \in 1..2 : c[i] = Name(4, i + 2)
    BY <2>2 DEF c
  <2>9. \A i \in 1..2 : /\ Name(4, i + 2) \in DOMAIN t
                       /\ t[Name(4, i + 2)] = [offset |-> 132 + 8 * i - 8, width |-> 8, from |-> CounterStatsLen]
    BY <2>6, <2>8
  <2> QED BY <2>7, <2>9 DEF t, c
<1>9. /\ \A f \in DOMAIN T6 : Rank(f) \in 27..32
      /\ \A i \in 1..6 : /\ Name(5, i) \in DOMAIN T6
                       /\ T6[Name(5, i)] =
                            [offset |-> 148 + 4 * i - 4, width |-> 4, from |-> StatsLen]
  <2>1. DOMAIN names(5) = 1..6
    BY <1>3
  <2>2. ASSUME NEW i \in 1..6 PROVE names(5)[i] = Name(5, i) /\ Rank(names(5)[i]) = 26 + i
    <3>1. i \in 1..12 /\ i <= 6 /\ 5 \in 1..6
      OBVIOUS
    <3> QED BY <1>2, <3>1, NamesAreRanked DEF names, Name
  <2> DEFINE c == names(5)
  <2> HIDE DEF c
  <2>3. 6 \in Nat /\ 26 \in Nat
    OBVIOUS
  <2>4. Ranked(c, 26, 6)
    BY <2>1, <2>2, <2>3 DEF Ranked, c
  <2> DEFINE t == At(c, 148, 4, StatsLen)
  <2>5. Places(t, c, 26, 6, 148, 4, StatsLen)
    BY <2>4, PlaceAmong
  <2> HIDE DEF t
  <2>6. /\ \A f \in DOMAIN t : Rank(f) \in 26 + 1 .. 26 + 6
        /\ \A i \in 1..6 : /\ c[i] \in DOMAIN t
                         /\ t[c[i]] = [offset |-> 148 + 4 * i - 4, width |-> 4, from |-> StatsLen]
    BY <2>5 DEF Places
  <2>7. \A f \in DOMAIN t : Rank(f) \in 27..32
    BY <2>6
  <2>8. \A i \in 1..6 : c[i] = Name(5, i)
    BY <2>2 DEF c
  <2>9. \A i \in 1..6 : /\ Name(5, i) \in DOMAIN t
                       /\ t[Name(5, i)] = [offset |-> 148 + 4 * i - 4, width |-> 4, from |-> StatsLen]
    BY <2>6, <2>8
  <2> QED BY <2>7, <2>9 DEF t, c
<1>10. /\ \A f \in DOMAIN T7 : Rank(f) \in 33..36
      /\ \A i \in 1..4 : /\ Name(6, i) \in DOMAIN T7
                       /\ T7[Name(6, i)] =
                            [offset |-> 172 + 8 * i - 8, width |-> 8, from |-> StatsLen]
  <2>1. DOMAIN names(6) = 1..4
    BY <1>3
  <2>2. ASSUME NEW i \in 1..4 PROVE names(6)[i] = Name(6, i) /\ Rank(names(6)[i]) = 32 + i
    <3>1. i \in 1..12 /\ i <= 4 /\ 6 \in 1..6
      OBVIOUS
    <3> QED BY <1>2, <3>1, NamesAreRanked DEF names, Name
  <2> DEFINE c == names(6)
  <2> HIDE DEF c
  <2>3. 4 \in Nat /\ 32 \in Nat
    OBVIOUS
  <2>4. Ranked(c, 32, 4)
    BY <2>1, <2>2, <2>3 DEF Ranked, c
  <2> DEFINE t == At(c, 172, 8, StatsLen)
  <2>5. Places(t, c, 32, 4, 172, 8, StatsLen)
    BY <2>4, PlaceAmong
  <2> HIDE DEF t
  <2>6. /\ \A f \in DOMAIN t : Rank(f) \in 32 + 1 .. 32 + 4
        /\ \A i \in 1..4 : /\ c[i] \in DOMAIN t
                         /\ t[c[i]] = [offset |-> 172 + 8 * i - 8, width |-> 8, from |-> StatsLen]
    BY <2>5 DEF Places
  <2>7. \A f \in DOMAIN t : Rank(f) \in 33..36
    BY <2>6
  <2>8. \A i \in 1..4 : c[i] = Name(6, i)
    BY <2>2 DEF c
  <2>9. \A i \in 1..4 : /\ Name(6, i) \in DOMAIN t
                       /\ t[Name(6, i)] = [offset |-> 172 + 8 * i - 8, width |-> 8, from |-> StatsLen]
    BY <2>6, <2>8
  <2> QED BY <2>7, <2>9 DEF t, c
<1> HIDE DEF T1, T2, T3, T4, T5, T6, T7
<1>31. /\ \A f \in DOMAIN T1 : Rank(f) \in 1..9
       /\ \A f \in DOMAIN T2 : Rank(f) \in 10..16
       /\ \A f \in DOMAIN T3 : Rank(f) \in 17..22
       /\ \A f \in DOMAIN T4 : Rank(f) \in 23..24
       /\ \A f \in DOMAIN T5 : Rank(f) \in 25..26
       /\ \A f \in DOMAIN T6 : Rank(f) \in 27..32
       /\ \A f \in DOMAIN T7 : Rank(f) \in 33..36
  BY <1>4, <1>5, <1>6, <1>7, <1>8, <1>9, <1>10
<1> DEFINE Tables == {T1, T2, T3, T4, T5, T6, T7}
           of(f) == CHOOSE t \in Tables : f \in DOMAIN t
<1>11. \A f \in Stat : StatsOffsets[f] = of(f)[f]
  BY <1>1, Zenon DEF StatsOffsets
<1>12. ASSUME NEW T \in Tables, NEW f \in DOMAIN T,
              \A t \in Tables : f \in DOMAIN t => t = T
       PROVE  of(f) = T
  <2> HIDE DEF Tables
  <2> QED BY <1>12, Zenon
<1> HIDE DEF of
<1>13. ASSUME NEW i \in 1..9 PROVE StatsOffsets[Name(1, i)] = PlaceOf(1, i)
  <2> DEFINE f == Name(1, i)
  <2>1. /\ f \in DOMAIN T1
        /\ T1[f] = [offset |-> 0 + 4 * i - 4, width |-> 4, from |-> LegacyStatsLen]
    BY <1>4
  <2>2. f \in Stat
    <3>1. i \in 1..12 /\ i <= 9 /\ 1 \in 1..6
      OBVIOUS
    <3> QED BY <1>2, <3>1, NamesAreStats
  <2> HIDE DEF f
  <2>3. Rank(f) \in 1..9
    BY <1>4, <2>1
  <2>4. \A t \in Tables : f \in DOMAIN t => t = T1
    BY <2>3, <1>31
  <2>5. of(f) = T1
    BY <1>12, <2>1, <2>4
  <2>6. 0 + 4 * i - 4 = 0 + (i - 1) * 4
    OBVIOUS
  <2> QED BY <1>2, <1>11, <2>1, <2>2, <2>5, <2>6 DEF f, PlaceOf, FirstLength
<1>14. ASSUME NEW i \in 1..7 PROVE StatsOffsets[Name(2, i)] = PlaceOf(2, i)
  <2> DEFINE f == Name(2, i)
  <2>1. /\ f \in DOMAIN T2
        /\ T2[f] = [offset |-> 36 + 8 * i - 8, width |-> 8, from |-> LegacyStatsLen]
    BY <1>5
  <2>2. f \in Stat
    <3>1. i \in 1..12 /\ i <= 7 /\ 2 \in 1..6
      OBVIOUS
    <3> QED BY <1>2, <3>1, NamesAreStats
  <2> HIDE DEF f
  <2>3. Rank(f) \in 10..16
    BY <1>5, <2>1
  <2>4. \A t \in Tables : f \in DOMAIN t => t = T2
    BY <2>3, <1>31
  <2>5. of(f) = T2
    BY <1>12, <2>1, <2>4
  <2>6. 36 + 8 * i - 8 = 36 + (i - 1) * 8
    OBVIOUS
  <2> QED BY <1>2, <1>11, <2>1, <2>2, <2>5, <2>6 DEF f, PlaceOf, FirstLength
<1>15. ASSUME NEW i \in 1..6 PROVE StatsOffsets[Name(3, i)] = PlaceOf(3, i)
  <2> DEFINE f == Name(3, i)
  <2>1. /\ f \in DOMAIN T3
        /\ T3[f] = [offset |-> 92 + 4 * i - 4, width |-> 4, from |-> StagedStatsLen]
    BY <1>6
  <2>2. f \in Stat
    <3>1. i \in 1..12 /\ i <= 6 /\ 3 \in 1..6
      OBVIOUS
    <3> QED BY <1>2, <3>1, NamesAreStats
  <2> HIDE DEF f
  <2>3. Rank(f) \in 17..22
    BY <1>6, <2>1
  <2>4. \A t \in Tables : f \in DOMAIN t => t = T3
    BY <2>3, <1>31
  <2>5. of(f) = T3
    BY <1>12, <2>1, <2>4
  <2>6. 92 + 4 * i - 4 = 92 + (i - 1) * 4
    OBVIOUS
  <2> QED BY <1>2, <1>11, <2>1, <2>2, <2>5, <2>6 DEF f, PlaceOf, FirstLength
<1>16. ASSUME NEW i \in 1..2 PROVE StatsOffsets[Name(4, i)] = PlaceOf(4, i)
  <2> DEFINE f == Name(4, i)
  <2>1. /\ f \in DOMAIN T4
        /\ T4[f] = [offset |-> 116 + 8 * i - 8, width |-> 8, from |-> StagedStatsLen]
    BY <1>7
  <2>2. f \in Stat
    <3>1. i \in 1..12 /\ i <= 4 /\ 4 \in 1..6
      OBVIOUS
    <3> QED BY <1>2, <3>1, NamesAreStats
  <2> HIDE DEF f
  <2>3. Rank(f) \in 23..24
    BY <1>7, <2>1
  <2>4. \A t \in Tables : f \in DOMAIN t => t = T4
    BY <2>3, <1>31
  <2>5. of(f) = T4
    BY <1>12, <2>1, <2>4
  <2>6. 116 + 8 * i - 8 = 116 + (i - 1) * 8
    OBVIOUS
  <2> QED BY <1>2, <1>11, <2>1, <2>2, <2>5, <2>6 DEF f, PlaceOf, FirstLength
<1>17. ASSUME NEW i \in 1..2 PROVE StatsOffsets[Name(4, i + 2)] = PlaceOf(4, i + 2)
  <2> DEFINE f == Name(4, i + 2)
  <2>1. /\ f \in DOMAIN T5
        /\ T5[f] = [offset |-> 132 + 8 * i - 8, width |-> 8, from |-> CounterStatsLen]
    BY <1>8
  <2>2. f \in Stat
    <3>1. i + 2 \in 1..12 /\ i + 2 <= 4 /\ 4 \in 1..6
      OBVIOUS
    <3> QED BY <1>2, <3>1, NamesAreStats
  <2> HIDE DEF f
  <2>3. Rank(f) \in 25..26
    BY <1>8, <2>1
  <2>4. \A t \in Tables : f \in DOMAIN t => t = T5
    BY <2>3, <1>31
  <2>5. of(f) = T5
    BY <1>12, <2>1, <2>4
  <2>6. 132 + 8 * i - 8 = 116 + (i + 2 - 1) * 8
    OBVIOUS
  <2> QED BY <1>2, <1>11, <2>1, <2>2, <2>5, <2>6 DEF f, PlaceOf, FirstLength
<1>18. ASSUME NEW i \in 1..6 PROVE StatsOffsets[Name(5, i)] = PlaceOf(5, i)
  <2> DEFINE f == Name(5, i)
  <2>1. /\ f \in DOMAIN T6
        /\ T6[f] = [offset |-> 148 + 4 * i - 4, width |-> 4, from |-> StatsLen]
    BY <1>9
  <2>2. f \in Stat
    <3>1. i \in 1..12 /\ i <= 6 /\ 5 \in 1..6
      OBVIOUS
    <3> QED BY <1>2, <3>1, NamesAreStats
  <2> HIDE DEF f
  <2>3. Rank(f) \in 27..32
    BY <1>9, <2>1
  <2>4. \A t \in Tables : f \in DOMAIN t => t = T6
    BY <2>3, <1>31
  <2>5. of(f) = T6
    BY <1>12, <2>1, <2>4
  <2>6. 148 + 4 * i - 4 = 148 + (i - 1) * 4
    OBVIOUS
  <2> QED BY <1>2, <1>11, <2>1, <2>2, <2>5, <2>6 DEF f, PlaceOf, FirstLength
<1>19. ASSUME NEW i \in 1..4 PROVE StatsOffsets[Name(6, i)] = PlaceOf(6, i)
  <2> DEFINE f == Name(6, i)
  <2>1. /\ f \in DOMAIN T7
        /\ T7[f] = [offset |-> 172 + 8 * i - 8, width |-> 8, from |-> StatsLen]
    BY <1>10
  <2>2. f \in Stat
    <3>1. i \in 1..12 /\ i <= 4 /\ 6 \in 1..6
      OBVIOUS
    <3> QED BY <1>2, <3>1, NamesAreStats
  <2> HIDE DEF f
  <2>3. Rank(f) \in 33..36
    BY <1>10, <2>1
  <2>4. \A t \in Tables : f \in DOMAIN t => t = T7
    BY <2>3, <1>31
  <2>5. of(f) = T7
    BY <1>12, <2>1, <2>4
  <2>6. 172 + 8 * i - 8 = 172 + (i - 1) * 8
    OBVIOUS
  <2> QED BY <1>2, <1>11, <2>1, <2>2, <2>5, <2>6 DEF f, PlaceOf, FirstLength
<1> DEFINE Good(k) == \A i \in 1..12 : i <= Counts[k] => StatsOffsets[Name(k, i)] = PlaceOf(k, i)
<1>20. Good(1)
  BY <1>2, <1>13
<1>21. Good(2)
  BY <1>2, <1>14
<1>22. Good(3)
  BY <1>2, <1>15
<1>23. Good(5)
  BY <1>2, <1>18
<1>24. Good(6)
  BY <1>2, <1>19
<1>25. Good(4)
  <2> SUFFICES ASSUME NEW i \in 1..12, i <= 4 PROVE StatsOffsets[Name(4, i)] = PlaceOf(4, i)
    BY <1>2
  <2>1. CASE i <= 2
    BY <1>16, <2>1
  <2>2. CASE i > 2
    <3>1. i - 2 \in 1..2 /\ i - 2 + 2 = i
      BY <2>2
    <3> QED BY <1>17, <3>1
  <2> QED BY <2>1, <2>2
<1>26. \A k \in 1..6 : k = 1 \/ k = 2 \/ k = 3 \/ k = 4 \/ k = 5 \/ k = 6
  OBVIOUS
<1> HIDE DEF Good
<1>27. \A k \in 1..6 : Good(k)
  BY <1>20, <1>21, <1>22, <1>23, <1>24, <1>25, <1>26, Zenon
<1> QED BY <1>27 DEF Good

\* The first bytes of some.
LEMMA CutOff ==
  ASSUME NEW bytes \in Seq(Byte), NEW n \in 0..Len(bytes)
  PROVE  /\ SubSeq(bytes, 1, n) \in Seq(Byte) /\ Len(SubSeq(bytes, 1, n)) = n
         /\ \A k \in 1..n : SubSeq(bytes, 1, n)[k] = bytes[k]
<1> DEFINE part == SubSeq(bytes, 1, n)
<1>1. Len(bytes) \in Nat /\ n \in Nat /\ n <= Len(bytes)
  BY LenProperties
<1>2. \A i \in 1..n : bytes[i] \in Byte
  BY <1>1, ElementOfSeq
<1>3. /\ part \in Seq(Byte)
      /\ Len(part) = IF 1 <= n THEN n - 1 + 1 ELSE 0
      /\ \A k \in 1 .. n - 1 + 1 : part[k] = bytes[1 + k - 1]
  BY <1>1, <1>2, SubSeqProperties
<1> HIDE DEF part
<1>4. \A k \in 1..n : k \in 1 .. n - 1 + 1 /\ 1 + k - 1 = k
  BY <1>1
<1>5. Len(part) = n
  BY <1>1, <1>3
<1> QED BY <1>3, <1>4, <1>5 DEF part

\* A field among them stays.
LEMMA FieldNotCut ==
  ASSUME NEW bytes \in Seq(Byte), NEW n \in 0..Len(bytes), NEW offset \in Nat,
         NEW value \in Int, NEW width \in Nat,
         Written(bytes, offset, value, width), offset + width <= n
  PROVE  Written(SubSeq(bytes, 1, n), offset, value, width)
<1>1. /\ Len(SubSeq(bytes, 1, n)) = n
      /\ \A k \in 1..n : SubSeq(bytes, 1, n)[k] = bytes[k]
  BY CutOff
<1>2. n \in Nat
  BY LenProperties
<1>3. \A k \in 1..width : bytes[offset + k] = <<value, width, k>>
  BY DEF Written
<1>4. \A k \in 1..width : offset + k \in 1..n
  BY <1>2
<1> QED BY <1>1, <1>3, <1>4 DEF Written

\* The lengths of a snapshot.
Lengths == {LegacyStatsLen, StagedStatsLen, CounterStatsLen, StatsLen}

\* A snapshot either holds a field or ends before it.
LEMMA FieldsAreWhole ==
  ASSUME NEW n \in Lengths, NEW k \in 1..6, NEW i \in 1..12, i <= Counts[k]
  PROVE  /\ Begins[k] + (i - 1) * Widths[k] \in Nat
         /\ n >= FirstLength(k, i) <=> Begins[k] + (i - 1) * Widths[k] < n
         /\ n >= FirstLength(k, i) => Begins[k] + (i - 1) * Widths[k] + Widths[k] <= n
<1> DEFINE o == Begins[k] + (i - 1) * Widths[k]
           w == Widths[k]
           from == FirstLength(k, i)
<1>1. /\ Counts[1] = 9 /\ Counts[2] = 7 /\ Counts[3] = 6 /\ Counts[4] = 4 /\ Counts[5] = 6
      /\ Counts[6] = 4
      /\ Widths[1] = 4 /\ Widths[2] = 8 /\ Widths[3] = 4 /\ Widths[4] = 8 /\ Widths[5] = 4
      /\ Widths[6] = 8
      /\ Begins[1] = 0 /\ Begins[2] = 36 /\ Begins[3] = 92
      /\ Begins[4] = 116 /\ Begins[5] = 148 /\ Begins[6] = 172
  BY DEF Counts, Widths, Begins
<1>2. /\ LegacyStatsLen = 92 /\ StagedStatsLen = 132 /\ CounterStatsLen = 148
      /\ StatsLen = 204
  BY DEF LegacyStatsLen, StagedStatsLen, CounterStatsLen, StatsLen
<1>3. n \in {92, 132, 148, 204}
  BY <1>2 DEF Lengths
<1> DEFINE Whole == o \in Nat /\ (n >= from <=> o < n) /\ (n >= from => o + w <= n)
<1>4. ASSUME k = 1 PROVE Whole
  <2>1. o = 0 + (i - 1) * 4 /\ w = 4 /\ i <= 9
    BY <1>1, <1>4
  <2>2. from = 92
    BY <1>2, <1>4 DEF FirstLength
  <2> HIDE DEF o, w, from
  <2> QED BY <1>3, <2>1, <2>2
<1>5. ASSUME k = 2 PROVE Whole
  <2>1. o = 36 + (i - 1) * 8 /\ w = 8 /\ i <= 7
    BY <1>1, <1>5
  <2>2. from = 92
    BY <1>2, <1>5 DEF FirstLength
  <2> HIDE DEF o, w, from
  <2> QED BY <1>3, <2>1, <2>2
<1>6. ASSUME k = 3 PROVE Whole
  <2>1. o = 92 + (i - 1) * 4 /\ w = 4 /\ i <= 6
    BY <1>1, <1>6
  <2>2. from = 132
    BY <1>2, <1>6 DEF FirstLength
  <2> HIDE DEF o, w, from
  <2> QED BY <1>3, <2>1, <2>2
<1>7. ASSUME k = 4 PROVE Whole
  <2>1. o = 116 + (i - 1) * 8 /\ w = 8 /\ i <= 4
    BY <1>1, <1>7
  <2>2. from = IF i <= 2 THEN 132 ELSE 148
    BY <1>2, <1>7 DEF FirstLength
  <2> HIDE DEF o, w, from
  <2> QED BY <1>3, <2>1, <2>2
<1>8. ASSUME k = 5 PROVE Whole
  <2>1. o = 148 + (i - 1) * 4 /\ w = 4 /\ i <= 6
    BY <1>1, <1>8
  <2>2. from = 204
    BY <1>2, <1>8 DEF FirstLength
  <2> HIDE DEF o, w, from
  <2> QED BY <1>3, <2>1, <2>2
<1>9. ASSUME k = 6 PROVE Whole
  <2>1. o = 172 + (i - 1) * 8 /\ w = 8 /\ i <= 4
    BY <1>1, <1>9
  <2>2. from = 204
    BY <1>2, <1>9 DEF FirstLength
  <2> HIDE DEF o, w, from
  <2> QED BY <1>3, <2>1, <2>2
<1>10. k = 1 \/ k = 2 \/ k = 3 \/ k = 4 \/ k = 5 \/ k = 6
  OBVIOUS
<1>11. Whole
  <2> HIDE DEF Whole
  <2> QED BY <1>4, <1>5, <1>6, <1>7, <1>8, <1>9, <1>10, Zenon
<1> QED BY <1>11

\* A snapshot of any of the lengths is read as the fields it holds, and zeros.
LEMMA StatsAreRead ==
  ASSUME NEW stats \in [Stat -> Int], \A f \in Stat : stats[f] # NotFinite, NEW n \in Lengths
  PROVE  /\ DecodeStats(SubSeq(EncodeStats(stats), 1, n)) =
              [kind |-> "stats",
               stats |-> [f \in Stat |-> IF StatsOffsets[f].offset < n THEN stats[f] ELSE 0]]
         /\ SubSeq(EncodeStats(stats), 1, n) \in Seq(Byte)
<1> DEFINE E == EncodeStats(stats)
           b == SubSeq(E, 1, n)
<1>1. E \in Seq(Byte) /\ Len(E) = StatsLen /\ \A k \in 1..6 : Shows(stats, E, k, Begins[k])
  BY StatsAreWritten DEF Header
<1> HIDE DEF E
<1>2. n \in 0..Len(E) /\ n \in Nat
  BY <1>1 DEF Lengths, LegacyStatsLen, StagedStatsLen, CounterStatsLen, StatsLen
<1>3. b \in Seq(Byte) /\ Len(b) = n
  BY <1>1, <1>2, CutOff
<1>4. ASSUME NEW f \in Stat
      PROVE  (IF n >= StatsOffsets[f].from
              THEN Read(b, StatsOffsets[f].offset, StatsOffsets[f].width) ELSE 0)
             = IF StatsOffsets[f].offset < n THEN stats[f] ELSE 0
  <2>1. PICK k \in 1..6, i \in 1..12 : i <= Counts[k] /\ f = Name(k, i)
    BY NamesAreStats
  <2> DEFINE o == Begins[k] + (i - 1) * Widths[k]
             w == Widths[k]
  <2>2. /\ StatsOffsets[f].offset = o /\ StatsOffsets[f].width = w
        /\ StatsOffsets[f].from = FirstLength(k, i)
    <3>1. StatsOffsets[f] = PlaceOf(k, i)
      BY <2>1, StatsAreFound
    <3> QED BY <3>1 DEF PlaceOf
  <2>3. /\ o \in Nat /\ (n >= FirstLength(k, i) <=> o < n)
        /\ (n >= FirstLength(k, i) => o + w <= n)
    BY <2>1, FieldsAreWhole
  <2>4. Written(E, o, stats[f], w)
    BY <1>1, <2>1 DEF Shows
  <2>5. w \in Nat \ {0} /\ stats[f] \in Int
    BY LayoutFacts
  <2> HIDE DEF o, w
  <2>6. CASE n >= FirstLength(k, i)
    <3>1. o < n /\ o + w <= n
      BY <2>3, <2>6
    <3>2. Written(b, o, stats[f], w)
      BY <1>1, <1>2, <2>3, <2>4, <2>5, <3>1, FieldNotCut
    <3>3. Read(b, o, w) = stats[f]
      BY <1>3, <2>3, <2>5, <3>2, FieldIsRead
    <3> QED BY <2>2, <2>6, <3>1, <3>3
  <2>7. CASE ~(n >= FirstLength(k, i))
    BY <2>2, <2>3, <2>7
  <2> QED BY <2>6, <2>7
<1> HIDE DEF b
<1> DEFINE shown == [f \in Stat |-> IF n >= StatsOffsets[f].from
                      THEN Read(b, StatsOffsets[f].offset, StatsOffsets[f].width) ELSE 0]
           meant == [f \in Stat |-> IF StatsOffsets[f].offset < n THEN stats[f] ELSE 0]
<1>5. shown = meant
  BY <1>4
<1>6. NotFinite \notin {meant[f] : f \in Stat}
  <2> SUFFICES ASSUME NEW f \in Stat PROVE meant[f] # NotFinite
    OBVIOUS
  <2>1. stats[f] # NotFinite /\ 0 # NotFinite
    BY DEF NotFinite
  <2> QED BY <2>1
<1> HIDE DEF meant
<1>7. DecodeStats(b) = IF n \notin Lengths \/ NotFinite \in {shown[f] : f \in Stat}
                      THEN Invalid ELSE [kind |-> "stats", stats |-> shown]
  BY <1>3 DEF DecodeStats, Lengths
<1> HIDE DEF shown
<1>8. DecodeStats(b) = [kind |-> "stats", stats |-> meant]
  BY <1>5, <1>6, <1>7
<1> QED BY <1>3, <1>8 DEF b, E, meant

LEMMA NumberIsRead ==
  ASSUME NEW p, WellFormed(p), p.kind \in Numbered
  PROVE  Body(p) \in Seq(Byte) /\ Len(Body(p)) = 8 /\ Read(Body(p), 0, 8) = p.id
         /\ p = [kind |-> p.kind, id |-> p.id]
<1>1. p \in [kind : Numbered, id : Int]
  BY DEF WellFormed, Texts, Numbered, Bare
<1>2. Body(p) = Bytes(p.id, 8)
  BY DEF Body, Texts, Numbered, Bare
<1>3. p.id \in Int /\ 8 \in Nat \ {0} /\ 0 \in Nat
  BY <1>1
<1>4. Body(p) \in Seq(Byte) /\ Len(Body(p)) = 8 /\ Written(Body(p), 0, p.id, 8)
  BY <1>2, <1>3, BytesOfInteger
<1>5. Read(Body(p), 0, 8) = p.id
  BY <1>3, <1>4, FieldIsRead
<1> QED BY <1>1, <1>4, <1>5

LEMMA ReplyIsRead ==
  ASSUME NEW p, WellFormed(p), p.kind = "probe_reply"
  PROVE  Body(p) \in Seq(Byte) /\ Len(Body(p)) = 1
         /\ p = [kind |-> p.kind, video |-> HasBit(Read(Body(p), 0, 1), 1),
                 busy |-> HasBit(Read(Body(p), 0, 1), 2)]
<1>1. p \in [kind : {"probe_reply"}, video : BOOLEAN, busy : BOOLEAN]
  BY DEF WellFormed, Texts, Numbered, Bare
<1> DEFINE v == Flag(p.video, 1) + Flag(p.busy, 2)
           x == HasBit(v, 1)
           y == HasBit(v, 2)
<1>2. Body(p) = Bytes(v, 1)
  BY DEF Body, Texts, Numbered, Bare
<1>3. v \in 0..3 /\ (x <=> p.video) /\ (y <=> p.busy)
  BY <1>1, FlagsAreRead
<1>4. x \in BOOLEAN /\ y \in BOOLEAN
  BY DEF HasBit
<1>5. x = p.video /\ y = p.busy
  <2>1. p.video \in BOOLEAN /\ p.busy \in BOOLEAN
    BY <1>1
  <2> HIDE DEF x, y
  <2> QED BY <1>3, <1>4, <2>1
<1> HIDE DEF v
<1>6. v \in Int /\ 1 \in Nat \ {0} /\ 0 \in Nat
  BY <1>3
<1>7. Body(p) \in Seq(Byte) /\ Len(Body(p)) = 1 /\ Written(Body(p), 0, v, 1)
  BY <1>2, <1>6, BytesOfInteger
<1>8. Read(Body(p), 0, 1) = v
  BY <1>6, <1>7, FieldIsRead
<1>9. p = [kind |-> p.kind, video |-> x, busy |-> y]
  <2> HIDE DEF x, y
  <2> QED BY <1>1, <1>5
<1> QED BY <1>7, <1>8, <1>9

\* The first bytes of a frame are one with the first bytes of its body.
LEMMA FrameIsCut ==
  ASSUME NEW tag \in Int, NEW b \in Seq(Byte), NEW n \in 0..Len(b)
  PROVE  SubSeq(Framed(tag, b), 1, HeaderLen + n) = Framed(tag, SubSeq(b, 1, n))
<1> DEFINE h == Magic \o Bytes(tag, 1)
           c == SubSeq(b, 1, n)
           f == h \o b
           g == h \o c
<1>1. h \in Seq(Byte) /\ Len(h) = 5
  <2>1. Magic \in Seq(Byte) /\ Len(Magic) = 4
    <3>1. Bytes(2, 4) \in Seq(Byte) /\ Len(Bytes(2, 4)) = 4
      BY 2 \in Int, 4 \in Nat, BytesOfInteger
    <3> QED BY <3>1 DEF Magic, MagicLen
  <2>2. Bytes(tag, 1) \in Seq(Byte) /\ Len(Bytes(tag, 1)) = 1
    BY 1 \in Nat, BytesOfInteger
  <2>3. h \in Seq(Byte) /\ Len(h) = Len(Magic) + Len(Bytes(tag, 1))
    BY <2>1, <2>2, Joined
  <2>4. Len(Magic) + Len(Bytes(tag, 1)) = 5
    BY <2>1, <2>2, 4 + 1 = 5
  <2> HIDE DEF h
  <2> QED BY <2>3, <2>4
<1>2. c \in Seq(Byte) /\ Len(c) = n /\ \A k \in 1..n : c[k] = b[k]
  BY CutOff
<1>3. Len(b) \in Nat /\ n \in Nat /\ n <= Len(b)
  BY LenProperties
<1> HIDE DEF h, c
<1>4. /\ f \in Seq(Byte) /\ Len(f) = Len(h) + Len(b)
      /\ g \in Seq(Byte) /\ Len(g) = Len(h) + Len(c)
  BY <1>1, <1>2, Joined
<1>5. /\ \A i \in 1..Len(h) + Len(b) : f[i] = IF i <= Len(h) THEN h[i] ELSE b[i - Len(h)]
      /\ \A i \in 1..Len(h) + Len(c) : g[i] = IF i <= Len(h) THEN h[i] ELSE c[i - Len(h)]
  BY <1>1, <1>2, ConcatProperties
<1> HIDE DEF f, g
<1>6. 5 + n \in 0..Len(f)
  BY <1>1, <1>3, <1>4
<1>7. /\ SubSeq(f, 1, 5 + n) \in Seq(Byte) /\ Len(SubSeq(f, 1, 5 + n)) = 5 + n
      /\ \A k \in 1..5 + n : SubSeq(f, 1, 5 + n)[k] = f[k]
  BY <1>4, <1>6, CutOff
<1> DEFINE s == SubSeq(f, 1, 5 + n)
<1> HIDE DEF s
<1>8. ASSUME NEW k \in 1..5 + n PROVE f[k] = g[k]
  <2>1. k \in 1..5 + Len(b) /\ (~(k <= 5) => k - 5 \in 1..n)
    BY <1>3
  <2> QED BY <1>1, <1>2, <1>5, <2>1
<1>9. s = g
  <2>1. Len(s) = Len(g) /\ s \in Seq(Byte) /\ Len(s) = 5 + n
    BY <1>1, <1>2, <1>4, <1>7 DEF s
  <2>2. \A k \in 1..Len(s) : s[k] = g[k]
    BY <1>7, <1>8, <2>1 DEF s
  <2> QED BY <1>4, <2>1, <2>2, SeqEqual
<1> QED BY <1>9 DEF s, f, g, h, c, Framed, HeaderLen, MagicLen

\* The first bytes of a whole are the whole.
LEMMA CutNowhere ==
  ASSUME NEW bytes \in Seq(Byte)
  PROVE  SubSeq(bytes, 1, Len(bytes)) = bytes
<1> DEFINE n == Len(bytes)
           s == SubSeq(bytes, 1, n)
<1>1. n \in 0..Len(bytes)
  BY LenProperties
<1>2. s \in Seq(Byte) /\ Len(s) = n /\ \A k \in 1..n : s[k] = bytes[k]
  BY <1>1, CutOff
<1> HIDE DEF s
<1>3. s = bytes
  BY <1>2, SeqEqual
<1> QED BY <1>3 DEF s

\* The whole snapshot is read as the statistics that were sent.
LEMMA WholeStatsAreRead ==
  ASSUME NEW stats \in [Stat -> Int], \A f \in Stat : stats[f] # NotFinite
  PROVE  DecodeStats(EncodeStats(stats)) = [kind |-> "stats", stats |-> stats]
<1> DEFINE E == EncodeStats(stats)
           meant == [f \in Stat |-> IF StatsOffsets[f].offset < StatsLen THEN stats[f] ELSE 0]
<1>1. StatsLen \in Lengths
  BY DEF Lengths
<1>2. DecodeStats(SubSeq(E, 1, StatsLen)) = [kind |-> "stats", stats |-> meant]
  BY <1>1, StatsAreRead
<1>3. E \in Seq(Byte) /\ Len(E) = StatsLen
  BY StatsAreWritten DEF Header
<1>4. SubSeq(E, 1, StatsLen) = E
  BY <1>3, CutNowhere
<1>5. ASSUME NEW f \in Stat PROVE StatsOffsets[f].offset < StatsLen
  <2>1. PICK k \in 1..6, i \in 1..12 : i <= Counts[k] /\ f = Name(k, i)
    BY NamesAreStats
  <2>2. StatsOffsets[f].offset = Begins[k] + (i - 1) * Widths[k]
    BY <2>1, StatsAreFound DEF PlaceOf
  <2>3. StatsLen >= FirstLength(k, i)
    BY DEF FirstLength, LegacyStatsLen, StagedStatsLen, CounterStatsLen, StatsLen
  <2> QED BY <1>1, <2>1, <2>2, <2>3, FieldsAreWhole
<1>6. meant = stats
  BY <1>5
<1> QED BY <1>2, <1>4, <1>6

\* Every packet is read back as it was sent.
LEMMA PacketIsRead ==
  ASSUME NEW p, WellFormed(p)
  PROVE  /\ Encode(p) \in Seq(Byte) /\ Decode(Encode(p)) = p
         /\ Len(Encode(p)) = HeaderLen + Len(Body(p)) /\ Body(p) \in Seq(Byte)
<1> DEFINE All == {"hello", "config", "ping", "pong", "audio", "clipboard", "video",
                   "keyframe_request", "rejected", "cursor", "stats", "goodbye",
                   "probe", "probe_reply", "events", "events_ack"}
           Tagged == \E tag \in 1..16 : Kinds[tag] = p.kind /\ Encode(p) = Framed(tag, Body(p))
           Good == Encode(p) \in Seq(Byte) /\ Decode(Encode(p)) = p
                   /\ Len(Encode(p)) = HeaderLen + Len(Body(p)) /\ Body(p) \in Seq(Byte)
<1>1. p.kind \in All
  BY DEF WellFormed, Texts, Numbered, Bare
<1>2. \E k \in DOMAIN Kinds : Kinds[k] = p.kind
  <2>1. /\ DOMAIN Kinds = 1..16
        /\ Kinds[1] = "hello" /\ Kinds[2] = "config" /\ Kinds[3] = "ping" /\ Kinds[4] = "pong"
        /\ Kinds[5] = "audio" /\ Kinds[6] = "clipboard" /\ Kinds[7] = "video"
        /\ Kinds[8] = "keyframe_request" /\ Kinds[9] = "rejected" /\ Kinds[10] = "cursor"
        /\ Kinds[11] = "stats" /\ Kinds[12] = "goodbye" /\ Kinds[13] = "probe"
        /\ Kinds[14] = "probe_reply" /\ Kinds[15] = "events" /\ Kinds[16] = "events_ack"
    BY DEF Kinds
  <2>2. {1, 2, 3, 4, 5, 6, 7, 8, 9, 10, 11, 12, 13, 14, 15, 16} \subseteq 1..16
    OBVIOUS
  <2> QED BY <1>1, <2>1, <2>2
<1>3. ASSUME Body(p) \in Seq(Byte) PROVE Tagged
  BY <1>2, <1>3, KindIsRead
<1>4. ASSUME NEW tag \in 1..16, Kinds[tag] = p.kind, Encode(p) = Framed(tag, Body(p)),
             Body(p) \in Seq(Byte), Decode(Framed(tag, Body(p))) = p
      PROVE  Good
  <2>1. tag \in Int
    OBVIOUS
  <2>2. Framed(tag, Body(p)) \in Seq(Byte)
        /\ Len(Framed(tag, Body(p))) = HeaderLen + Len(Body(p))
    BY <1>4, <2>1, FramedIsRead
  <2> QED BY <1>4, <2>2
<1> HIDE DEF Good
<1>5. ASSUME Body(p) \in Seq(Byte),
             \A tag \in 1..16 : Kinds[tag] = p.kind => Decode(Framed(tag, Body(p))) = p
      PROVE  Good
  <2>1. PICK tag \in 1..16 : Kinds[tag] = p.kind /\ Encode(p) = Framed(tag, Body(p))
    BY <1>3, <1>5
  <2> QED BY <1>4, <1>5, <2>1
<1>6. ASSUME p.kind = "hello" PROVE Good
  BY <1>5, <1>6, HelloIsRead, FrameIsDecoded
<1>7. ASSUME p.kind \in Texts PROVE Good
  <2>1. p \in [kind : Texts, payload : Seq(Int)]
    BY <1>7 DEF WellFormed, Texts, Numbered, Bare
  <2>2. Body(p) = Octets(p.payload)
    BY <1>7 DEF Body, Texts, Numbered, Bare
  <2>3. Body(p) \in Seq(Byte) /\ PayloadOf(Body(p)) = p.payload
    BY <2>1, <2>2, PayloadIsRead
  <2>4. p = [kind |-> p.kind, payload |-> p.payload]
    BY <2>1
  <2>5. ASSUME NEW tag \in 1..16, Kinds[tag] = p.kind
        PROVE  Decode(Framed(tag, Body(p))) = p
    BY <1>7, <2>3, <2>4, <2>5, FrameIsDecoded
  <2> QED BY <1>5, <2>3, <2>5
<1>8. ASSUME p.kind \in Numbered PROVE Good
  <2>1. Body(p) \in Seq(Byte) /\ Len(Body(p)) = 8 /\ Read(Body(p), 0, 8) = p.id
        /\ p = [kind |-> p.kind, id |-> p.id]
    BY <1>8, NumberIsRead
  <2>2. ASSUME NEW tag \in 1..16, Kinds[tag] = p.kind
        PROVE  Decode(Framed(tag, Body(p))) = p
    BY <1>8, <2>1, <2>2, FrameIsDecoded
  <2> QED BY <1>5, <2>1, <2>2
<1>9. ASSUME p.kind \in Bare PROVE Good
  <2>1. p \in [kind : Bare]
    BY <1>9 DEF WellFormed, Texts, Numbered, Bare
  <2>2. Body(p) = <<>>
    BY <1>9 DEF Body, Texts, Numbered, Bare
  <2>3. Body(p) \in Seq(Byte)
    BY <2>2
  <2>4. p = [kind |-> p.kind]
    BY <2>1
  <2>5. ASSUME NEW tag \in 1..16, Kinds[tag] = p.kind
        PROVE  Decode(Framed(tag, Body(p))) = p
    BY <1>9, <2>2, <2>3, <2>4, <2>5, FrameIsDecoded
  <2> QED BY <1>5, <2>3, <2>5
<1>10. ASSUME p.kind = "audio" PROVE Good
  BY <1>5, <1>10, AudioIsRead, FrameIsDecoded
<1>11. ASSUME p.kind = "clipboard" PROVE Good
  BY <1>5, <1>11, ClipboardIsRead, FrameIsDecoded
<1>12. ASSUME p.kind = "video" PROVE Good
  BY <1>5, <1>12, VideoIsRead, FrameIsDecoded
<1>13. ASSUME p.kind = "cursor" PROVE Good
  BY <1>5, <1>13, CursorIsRead, FrameIsDecoded
<1>14. ASSUME p.kind = "stats" PROVE Good
  <2>1. /\ p \in [kind : {"stats"}, stats : [Stat -> Int]]
        /\ \A f \in Stat : p.stats[f] # NotFinite
    BY <1>14 DEF WellFormed, Texts, Numbered, Bare
  <2>2. Body(p) = EncodeStats(p.stats)
    BY <1>14 DEF Body, Texts, Numbered, Bare
  <2>3. p.stats \in [Stat -> Int]
    BY <2>1
  <2>4. DecodeStats(EncodeStats(p.stats)) = [kind |-> "stats", stats |-> p.stats]
    BY <2>1, <2>3, WholeStatsAreRead
  <2>5. EncodeStats(p.stats) \in Seq(Byte)
    BY <2>3, StatsAreWritten DEF Header
  <2>6. p = [kind |-> "stats", stats |-> p.stats]
    BY <2>1
  <2> QED BY <1>5, <1>14, <2>2, <2>4, <2>5, <2>6, FrameIsDecoded
<1>15. ASSUME p.kind = "probe_reply" PROVE Good
  <2>1. Body(p) \in Seq(Byte) /\ Len(Body(p)) = 1
        /\ p = [kind |-> p.kind, video |-> HasBit(Read(Body(p), 0, 1), 1),
                busy |-> HasBit(Read(Body(p), 0, 1), 2)]
    BY <1>15, ReplyIsRead
  <2>2. ASSUME NEW tag \in 1..16, Kinds[tag] = p.kind
        PROVE  Decode(Framed(tag, Body(p))) = p
    BY <1>15, <2>1, <2>2, FrameIsDecoded
  <2> QED BY <1>5, <2>1, <2>2
<1>16. ASSUME p.kind = "events" PROVE Good
  BY <1>5, <1>16, EventsAreRead, FrameIsDecoded
<1>17. Good
  BY <1>1, <1>6, <1>7, <1>8, <1>9, <1>10, <1>11, <1>12, <1>13, <1>14, <1>15, <1>16
     DEF Texts, Numbered, Bare
<1> QED BY <1>17 DEF Good

----------------------------------------------------------------------------
(* AudioPath: what is on the network.                                       *)

\* A packet as its sender wrote it, an older host's statistics without their end.
Sendable(d) ==
  /\ d = [packet |-> d.packet, leftOut |-> d.leftOut] /\ d.leftOut \in {0} \cup OlderBy
  /\ WellFormed(d.packet)
  /\ d.leftOut # 0 => d.packet.kind = "stats"

\* It is read back as it was meant.
LEMMA DatagramIsRead ==
  ASSUME NEW d, Sendable(d)
  PROVE  Decode(SentBytes(d)) = Meant(d)
<1> DEFINE p == d.packet
           bytes == Encode(p)
<1>1. /\ bytes \in Seq(Byte) /\ Decode(bytes) = p /\ Len(bytes) = HeaderLen + Len(Body(p))
      /\ Body(p) \in Seq(Byte)
  BY PacketIsRead DEF Sendable
<1>2. SentBytes(d) = SubSeq(bytes, 1, Len(bytes) - d.leftOut)
  BY DEF SentBytes
<1>3. CASE d.leftOut = 0
  <2>1. Meant(d) = p
    BY <1>3 DEF Meant
  <2> HIDE DEF bytes, p
  <2>2. Len(bytes) - 0 = Len(bytes)
    BY <1>1, LenProperties
  <2>3. SentBytes(d) = bytes
    BY <1>1, <1>2, <1>3, <2>2, CutNowhere
  <2> QED BY <1>1, <2>1, <2>3
<1>4. CASE d.leftOut # 0
  <2> DEFINE n == StatsLen - d.leftOut
             E == EncodeStats(p.stats)
             cut == [f \in Stat |-> IF StatsOffsets[f].offset < n THEN p.stats[f] ELSE 0]
  <2>1. p.kind = "stats" /\ WellFormed(p)
    BY <1>4 DEF Sendable
  <2>2. /\ p \in [kind : {"stats"}, stats : [Stat -> Int]]
        /\ \A f \in Stat : p.stats[f] # NotFinite
    BY <2>1 DEF WellFormed, Texts, Numbered, Bare
  <2>3. p.stats \in [Stat -> Int]
    BY <2>2
  <2>4. Meant(d) = [kind |-> "stats", stats |-> cut]
    <3>1. Meant(d) = [p EXCEPT !.stats =
                        [f \in Stat |-> IF StatsOffsets[f].offset < n THEN p.stats[f] ELSE 0]]
      BY <1>4 DEF Meant
    <3> HIDE DEF n
    <3>2. p = [kind |-> "stats", stats |-> p.stats]
      BY <2>2
    <3> QED BY <3>1, <3>2
  <2>5. n \in Lengths /\ n \in 0..StatsLen
    BY <1>4 DEF Sendable, OlderBy, Lengths, LegacyStatsLen, StagedStatsLen, CounterStatsLen,
                StatsLen
  <2>6. E \in Seq(Byte) /\ Len(E) = StatsLen /\ Body(p) = E
    BY <2>1, <2>3, StatsAreWritten DEF Header, Body, Texts, Numbered, Bare
  <2>7. /\ DecodeStats(SubSeq(E, 1, n)) = [kind |-> "stats", stats |-> cut]
        /\ SubSeq(E, 1, n) \in Seq(Byte)
    BY <2>2, <2>3, <2>5, StatsAreRead
  <2>8. PICK tag \in 1..16 : Kinds[tag] = "stats" /\ bytes = Framed(tag, E)
    <3>1. \E k \in DOMAIN Kinds : Kinds[k] = p.kind
      <4>1. 11 \in DOMAIN Kinds /\ Kinds[11] = "stats"
        BY DEF Kinds
      <4> QED BY <2>1, <4>1
    <3>2. \E tag \in 1..16 : Kinds[tag] = p.kind /\ Encode(p) = Framed(tag, Body(p))
      BY <1>1, <3>1, KindIsRead
    <3> QED BY <2>1, <2>6, <3>2
  <2>9. Len(bytes) - d.leftOut = HeaderLen + n
    <3>1. StatsLen \in Int /\ d.leftOut \in Int /\ HeaderLen \in Int
      BY DEF Sendable, OlderBy, LegacyStatsLen, StagedStatsLen, CounterStatsLen,
             StatsLen, HeaderLen, MagicLen
    <3>2. Len(bytes) = HeaderLen + StatsLen
      BY <1>1, <2>6
    <3> QED BY <3>1, <3>2
  <2> HIDE DEF n, E, cut, bytes
  <2>10. SentBytes(d) = Framed(tag, SubSeq(E, 1, n))
    <3>1. tag \in Int /\ n \in 0..Len(E)
      BY <2>5, <2>6
    <3>2. SubSeq(Framed(tag, E), 1, HeaderLen + n) = Framed(tag, SubSeq(E, 1, n))
      BY <2>6, <3>1, FrameIsCut
    <3> QED BY <1>2, <2>8, <2>9, <3>2
  <2>11. Decode(Framed(tag, SubSeq(E, 1, n))) = DecodeStats(SubSeq(E, 1, n))
    BY <2>7, <2>8, FrameIsDecoded
  <2> QED BY <2>4, <2>7, <2>10, <2>11
<1> QED BY <1>3, <1>4

----------------------------------------------------------------------------
(* AudioPath: distances around the sequence space.                          *)

\* Division with remainder, and that the remainder is the only one.
LEMMA ModParts ==
  ASSUME NEW x \in Int, NEW M \in Nat \ {0}
  PROVE  x % M \in 0..M - 1 /\ x = M * (x \div M) + (x % M) /\ x \div M \in Int
OBVIOUS

LEMMA Remainder ==
  ASSUME NEW x \in Int, NEW M \in Nat \ {0}, NEW q \in Int, NEW r \in 0..M - 1, x = M * q + r
  PROVE  x % M = r
<1> DEFINE m == x % M
           d == x \div M
           e == q - d
<1>1. m \in 0..M - 1 /\ x = M * d + m /\ d \in Int
  BY ModParts
<1> HIDE DEF m, d
<1>2. e \in Int /\ M * e = m - r
  BY <1>1
<1> HIDE DEF e
<1>3. CASE e >= 1
  <2>1. M * e >= M
    BY <1>2, <1>3
  <2> QED BY <1>1, <1>2, <2>1
<1>4. CASE e <= -1
  <2>1. M * e <= -M
    BY <1>2, <1>4
  <2> QED BY <1>1, <1>2, <2>1
<1>5. CASE e = 0
  BY <1>1, <1>2, <1>5 DEF m
<1> QED BY <1>2, <1>3, <1>4, <1>5

\* A later number is at its distance from the one expected, an earlier one all
\* the way around: the halves of the space tell them apart.
LEMMA LaterIsAhead ==
  ASSUME NEW M \in Nat \ {0, 1}, NEW l \in Nat, NEW n \in Nat
  PROVE  /\ n > l /\ n - l <= M \div 2 =>
              ~(((n % M) - ((l + 1) % M)) % M > (M - 1) \div 2)
         /\ n <= l /\ l + 1 - n <= M \div 2 =>
              ((n % M) - ((l + 1) % M)) % M > (M - 1) \div 2
<1> DEFINE a == n % M
           b == (l + 1) % M
           p == n \div M
           q == (l + 1) \div M
           y == a - b
<1>1. M \in Nat \ {0} /\ l + 1 \in Int /\ n \in Int
  OBVIOUS
<1>2. a \in 0..M - 1 /\ n = M * p + a /\ p \in Int
  BY <1>1, ModParts
<1>3. b \in 0..M - 1 /\ l + 1 = M * q + b /\ q \in Int
  BY <1>1, ModParts
<1>4. y \in Int
  BY <1>2, <1>3
<1> HIDE DEF a, b, p, q
<1>5. ASSUME n > l, n - l <= M \div 2 PROVE ~(y % M > (M - 1) \div 2)
  <2> DEFINE r == n - (l + 1)
  <2>1. r \in 0..M - 1 /\ r <= (M - 1) \div 2
    BY <1>5
  <2>2. q - p \in Int /\ y = M * (q - p) + r
    BY <1>2, <1>3
  <2> HIDE DEF r, y
  <2>3. y % M = r
    BY <1>1, <1>4, <2>1, <2>2, Remainder
  <2> QED BY <2>1, <2>3
<1>6. ASSUME n <= l, l + 1 - n <= M \div 2 PROVE y % M > (M - 1) \div 2
  <2> DEFINE r == M - (l + 1 - n)
  <2>1. r \in 0..M - 1 /\ r > (M - 1) \div 2
    BY <1>6
  <2>2. q - p - 1 \in Int /\ y = M * (q - p - 1) + r
    BY <1>2, <1>3
  <2> HIDE DEF r, y
  <2>3. y % M = r
    BY <1>1, <1>4, <2>1, <2>2, Remainder
  <2> QED BY <2>1, <2>3
<1> QED BY <1>5, <1>6 DEF a, b, y

\* The groups of one callback and those left over make no more frames than
\* half the sequence space.
LEMMA FramesOfChunk ==
  ASSUME NEW over \in 0..FrameLen - 1, NEW chunk \in 1..MaxChunk
  PROVE  /\ (over + chunk) \div FrameLen \in 0..SequenceModulus \div 2
         /\ (over + chunk) % FrameLen \in 0..FrameLen - 1
<1> DEFINE h == SequenceModulus \div 2
           x == over + chunk
           d == x \div FrameLen
           m == x % FrameLen
<1>1. FrameLen \in Nat \ {0} /\ MaxChunk \in Nat /\ MaxChunk <= h * FrameLen /\ h \in Nat
  BY AudioAssumption, ChunkAssumption
<1> HIDE DEF h
<1>2. x \in Nat /\ x <= h * FrameLen + FrameLen - 1
  <2>1. h * FrameLen \in Nat
    BY <1>1
  <2> QED BY <1>1, <2>1
<1> HIDE DEF x
<1>3. m \in 0..FrameLen - 1 /\ x = FrameLen * d + m /\ d \in Int
  BY <1>1, <1>2, ModParts
<1> HIDE DEF d, m
<1>4. d <= h
  <2> SUFFICES ASSUME d >= h + 1 PROVE FALSE
    BY <1>1, <1>3
  <2>1. FrameLen * d >= FrameLen * (h + 1)
    BY <1>1, <1>3
  <2>2. FrameLen * (h + 1) = h * FrameLen + FrameLen
    BY <1>1
  <2>3. FrameLen * d \in Int /\ h * FrameLen \in Int /\ FrameLen * (h + 1) \in Int
    BY <1>1, <1>3
  <2> QED BY <1>1, <1>2, <1>3, <2>1, <2>2, <2>3
<1>5. d >= 0
  <2> SUFFICES ASSUME d <= -1 PROVE FALSE
    BY <1>1, <1>3
  <2>1. FrameLen * d <= -FrameLen
    BY <1>1, <1>3
  <2>2. FrameLen * d \in Int
    BY <1>1, <1>3
  <2> QED BY <1>1, <1>2, <1>3, <2>1, <2>2
<1> QED BY <1>1, <1>3, <1>4, <1>5 DEF h, d, m, x

----------------------------------------------------------------------------
(* AudioPath: the buffer of samples.                                        *)

\* The samples of a frame, and what a sample is.
FrameSamples == FrameLen * Channels

PcmSample == Nat \X Nat \X (1..FrameSamples)

\* Behind a sample comes the next of its frame or the first of a later frame.
Precedes(a, b) ==
  IF a[3] < FrameSamples THEN b = <<a[1], a[2], a[3] + 1>>
  ELSE b[3] = 1 /\ (a[1] = b[1] => a[2] < b[2])

\* Samples in order, each on its own channel.
InOrder(s) ==
  /\ s \in Seq(PcmSample) /\ Len(s) % Channels = 0
  /\ \A k \in 1..Len(s) : (s[k][3] - k) % Channels = 0
  /\ \A k \in 1..Len(s) - 1 : Precedes(s[k], s[k + 1])

\* It is what PlayedForward and ChannelsAligned say of the buffer, and more.
LEMMA InOrderIsPlayed ==
  ASSUME NEW s, InOrder(s)
  PROVE  /\ \A k \in 1..(Len(s) - 1) :
              LET a == s[k]
                  b == s[k + 1]
              IN  IF a[3] < FrameLen * Channels THEN b = <<a[1], a[2], a[3] + 1>>
                  ELSE b[3] = 1 /\ (a[1] = b[1] => a[2] < b[2])
         /\ s # <<>> => (s[1][3] - 1) % Channels = 0
<1>1. \A k \in 1..(Len(s) - 1) : Precedes(s[k], s[k + 1])
  BY DEF InOrder
<1>2. ASSUME s # <<>> PROVE (s[1][3] - 1) % Channels = 0
  <2>1. 1 \in 1..Len(s)
    BY <1>2, EmptySeq, LenProperties DEF InOrder
  <2> QED BY <2>1 DEF InOrder
<1> QED BY <1>1, <1>2 DEF Precedes, FrameSamples

\* Sums and differences of whole groups are whole groups.
LEMMA WholeGroups ==
  ASSUME NEW c \in {1, 2}, NEW a \in Int, NEW b \in Int, a % c = 0, b % c = 0
  PROVE  (a + b) % c = 0 /\ (a - b) % c = 0
<1>1. ASSUME a % 1 = 0, b % 1 = 0 PROVE (a + b) % 1 = 0 /\ (a - b) % 1 = 0
  OBVIOUS
<1>2. ASSUME a % 2 = 0, b % 2 = 0 PROVE (a + b) % 2 = 0 /\ (a - b) % 2 = 0
  BY <1>2
<1> QED BY <1>1, <1>2

\* A whole number of groups, rounded up to groups, is itself.
LEMMA GroupsRound ==
  ASSUME NEW c \in {1, 2}, NEW a \in Nat, a % c = 0
  PROVE  ((a + c - 1) \div c) * c = a
<1>1. ((a + 1 - 1) \div 1) * 1 = a
  OBVIOUS
<1>2. ASSUME a % 2 = 0 PROVE ((a + 2 - 1) \div 2) * 2 = a
  BY <1>2
<1> QED BY <1>1, <1>2

LEMMA NoGroups == ASSUME NEW c \in {1, 2} PROVE 0 % c = 0 /\ 0 * c = 0
<1>1. 0 % 1 = 0 /\ 0 * 1 = 0 /\ 0 % 2 = 0 /\ 0 * 2 = 0
  OBVIOUS
<1> QED BY <1>1

\* The samples of a frame are whole groups.
LEMMA FrameIsGroups ==
  /\ FrameSamples \in Nat \ {0} /\ FrameSamples % Channels = 0
  /\ MaxSamples \in Nat /\ MaxSamples % Channels = 0 /\ FrameSamples <= MaxSamples
  /\ Channels \in {1, 2}
<1>1. /\ FrameLen \in Nat \ {0} /\ Channels \in {1, 2} /\ FrameLen * Channels <= MaxSamples
      /\ MaxSamples % Channels = 0
  BY AudioAssumption
<1>2. MaxSamples \in Nat
  BY AudioAssumption
<1>3. CASE Channels = 1
  BY <1>1, <1>2, <1>3 DEF FrameSamples
<1>4. CASE Channels = 2
  BY <1>1, <1>2, <1>4 DEF FrameSamples
<1> QED BY <1>1, <1>3, <1>4

\* Whole groups taken from the front leave the rest in order, with its end.
LEMMA BufferEaten ==
  ASSUME NEW s, InOrder(s), NEW n \in Nat, n % Channels = 0
  PROVE  LET t == SubSeq(s, n + 1, Len(s))
         IN  /\ InOrder(t) /\ Len(t) = IF n <= Len(s) THEN Len(s) - n ELSE 0
             /\ t # <<>> => s # <<>> /\ t[Len(t)] = s[Len(s)]
<1> DEFINE t == SubSeq(s, n + 1, Len(s))
           m == IF n <= Len(s) THEN Len(s) - n ELSE 0
<1>1. s \in Seq(PcmSample) /\ Len(s) \in Nat
  BY LenProperties DEF InOrder
<1>2. t \in Seq(PcmSample) /\ Len(t) = m /\ \A k \in 1..m : t[k] = s[n + k]
  <2>1. \A i \in n + 1..Len(s) : s[i] \in PcmSample
    BY <1>1, ElementOfSeq
  <2>2. /\ t \in Seq(PcmSample)
        /\ Len(t) = IF n + 1 <= Len(s) THEN Len(s) - (n + 1) + 1 ELSE 0
        /\ \A k \in 1 .. Len(s) - (n + 1) + 1 : t[k] = s[n + 1 + k - 1]
    BY <1>1, <2>1, SubSeqProperties
  <2> HIDE DEF t
  <2>3. Len(t) = m
    BY <1>1, <2>2
  <2>4. \A k \in 1..m : k \in 1 .. Len(s) - (n + 1) + 1 /\ n + 1 + k - 1 = n + k
    BY <1>1
  <2> QED BY <2>2, <2>3, <2>4
<1> HIDE DEF t
<1>3. m \in Nat /\ \A k \in 1..m : n + k \in 1..Len(s)
  BY <1>1
<1>4. m % Channels = 0
  <2>1. Len(s) % Channels = 0
    BY DEF InOrder
  <2>2. Channels \in {1, 2} /\ n \in Int /\ Len(s) \in Int
    BY <1>1, FrameIsGroups
  <2>3. (Len(s) - n) % Channels = 0 /\ 0 % Channels = 0
    BY <2>1, <2>2, WholeGroups, NoGroups
  <2> QED BY <2>3
<1>5. ASSUME NEW k \in 1..m PROVE (t[k][3] - k) % Channels = 0
  <2> DEFINE x == s[n + k][3]
  <2>1. (x - (n + k)) % Channels = 0 /\ t[k][3] = x
    BY <1>2, <1>3 DEF InOrder
  <2>2. x \in Int
    <3>1. s[n + k] \in PcmSample
      BY <1>1, <1>3, ElementOfSeq
    <3> QED BY <3>1 DEF PcmSample
  <2> HIDE DEF x
  <2>3. Channels \in {1, 2} /\ k \in Int /\ n \in Int /\ x - (n + k) \in Int
    BY <1>3, <2>2, FrameIsGroups
  <2>4. (x - (n + k) + n) % Channels = 0
    BY <2>1, <2>3, WholeGroups
  <2>5. x - (n + k) + n = x - k
    BY <2>2, <2>3
  <2> QED BY <2>1, <2>4, <2>5
<1>6. ASSUME NEW k \in 1..m - 1 PROVE Precedes(t[k], t[k + 1])
  <2>1. k \in 1..m /\ k + 1 \in 1..m /\ n + k \in 1..Len(s) - 1 /\ n + (k + 1) = (n + k) + 1
    BY <1>1, <1>3
  <2>2. t[k] = s[n + k] /\ t[k + 1] = s[n + k + 1]
    BY <1>2, <2>1
  <2> QED BY <2>1, <2>2 DEF InOrder
<1>7. InOrder(t)
  BY <1>2, <1>4, <1>5, <1>6 DEF InOrder
<1>8. ASSUME t # <<>> PROVE s # <<>> /\ t[Len(t)] = s[Len(s)]
  <2>1. Len(t) # 0
    BY <1>2, <1>8, EmptySeq
  <2>2. m \in 1..m /\ n + m = Len(s) /\ Len(s) # 0
    BY <1>1, <1>2, <2>1
  <2>3. s # <<>>
    BY <1>1, <2>2, EmptySeq
  <2> QED BY <1>2, <2>2, <2>3
<1> HIDE DEF m
<1> QED BY <1>2, <1>7, <1>8 DEF t, m

\* A frame behind a buffer whose last sample ends an earlier one.
LEMMA FrameAdded ==
  ASSUME NEW s, InOrder(s), NEW f \in Nat \X Nat,
         s # <<>> => /\ s[Len(s)][3] = FrameSamples
                     /\ s[Len(s)][1] = f[1] => s[Len(s)][2] < f[2]
  PROVE  LET t == s \o Decoded(f)
         IN  /\ InOrder(t) /\ Len(t) = Len(s) + FrameSamples
             /\ t # <<>> /\ t[Len(t)] = <<f[1], f[2], FrameSamples>>
<1> DEFINE g == Decoded(f)
           t == s \o g
           N == FrameSamples
           m == Len(s)
<1>1. s \in Seq(PcmSample) /\ m \in Nat
  BY LenProperties DEF InOrder
<1>2. N \in Nat \ {0} /\ N % Channels = 0 /\ Channels \in {1, 2}
  BY FrameIsGroups
<1>3. g \in Seq(PcmSample) /\ Len(g) = N /\ \A i \in 1..N : g[i] = <<f[1], f[2], i>>
  <2>1. g = [i \in 1..N |-> <<f[1], f[2], i>>]
    BY DEF Decoded, FrameSamples
  <2>2. \A i \in 1..N : <<f[1], f[2], i>> \in PcmSample
    BY <1>2 DEF PcmSample
  <2> DEFINE e(i) == <<f[1], f[2], i>>
  <2>3. \A i \in 1..N : e(i) \in PcmSample
    BY <2>2
  <2> HIDE DEF g, e
  <2>4. g = [i \in 1..N |-> e(i)]
    BY <2>1 DEF e
  <2>5. g \in Seq(PcmSample)
    BY <1>2, <2>3, <2>4, IsASeq
  <2>6. DOMAIN g = 1..N /\ \A i \in 1..N : g[i] = e(i)
    BY <2>4
  <2>7. Len(g) = N
    BY <1>2, <2>5, <2>6, LenProperties
  <2> QED BY <2>5, <2>6, <2>7 DEF e
<1> HIDE DEF g, N
<1>4. /\ t \in Seq(PcmSample) /\ Len(t) = m + N
      /\ \A i \in 1..m + N : t[i] = IF i <= m THEN s[i] ELSE g[i - m]
  BY <1>1, <1>3, ConcatProperties
<1> HIDE DEF t, m
<1>5. Len(t) % Channels = 0
  <2>1. m % Channels = 0
    BY DEF InOrder, m
  <2>2. m \in Int /\ N \in Int
    BY <1>1, <1>2
  <2>3. (m + N) % Channels = 0
    BY <1>2, <2>1, <2>2, WholeGroups
  <2> QED BY <1>4, <2>3
<1>6. ASSUME NEW k \in 1..m + N, k <= m PROVE t[k] = s[k]
  BY <1>4, <1>6
<1>7. ASSUME NEW k \in 1..m + N, ~(k <= m), k - m \in 1..N
       PROVE  t[k] = <<f[1], f[2], k - m>>
  <2>1. t[k] = g[k - m]
    BY <1>4, <1>7
  <2>2. g[k - m] = <<f[1], f[2], k - m>>
    BY <1>3, <1>7
  <2> QED BY <2>1, <2>2
<1>8. ASSUME NEW k \in 1..m + N PROVE (t[k][3] - k) % Channels = 0
  <2>1. CASE k <= m
    <3>1. k \in 1..m /\ t[k] = s[k]
      BY <1>1, <1>6, <2>1
    <3> QED BY <3>1 DEF InOrder, m
  <2>2. CASE k > m
    <3>1. k - m \in 1..N /\ ~(k <= m)
      BY <1>1, <1>2, <2>2
    <3>2. t[k] = <<f[1], f[2], k - m>>
      BY <1>7, <3>1
    <3>3. t[k][3] - k = -m
      BY <1>1, <3>2
    <3>4. m % Channels = 0
      BY DEF InOrder, m
    <3>5. (0 - m) % Channels = 0 /\ 0 - m = -m
      <4>1. 0 \in Int /\ m \in Int /\ 0 % Channels = 0 /\ 0 - m = -m
        BY <1>1, <1>2, NoGroups
      <4> QED BY <1>2, <3>4, <4>1, WholeGroups
    <3> QED BY <3>3, <3>5
  <2> QED BY <1>1, <1>2, <2>1, <2>2
<1>9. ASSUME NEW k \in 1..m + N - 1 PROVE Precedes(t[k], t[k + 1])
  <2>1. CASE k < m
    <3>1. k \in 1..m - 1 /\ k <= m /\ k + 1 <= m /\ k \in 1..m + N /\ k + 1 \in 1..m + N
      BY <1>1, <1>2, <2>1
    <3>2. t[k] = s[k] /\ t[k + 1] = s[k + 1]
      BY <1>6, <3>1
    <3> QED BY <3>1, <3>2 DEF InOrder, m
  <2>2. CASE k = m
    <3>1. /\ k <= m /\ ~(k + 1 <= m) /\ k \in 1..m + N /\ k + 1 \in 1..m + N
          /\ (k + 1) - m = 1 /\ (k + 1) - m \in 1..N
      BY <1>1, <1>2, <2>2
    <3>2. t[k] = s[k] /\ t[k + 1] = <<f[1], f[2], (k + 1) - m>>
      <4>1. t[k] = s[k]
        BY <1>6, <3>1
      <4>2. t[k + 1] = <<f[1], f[2], (k + 1) - m>>
        BY <1>7, <3>1, Zenon
      <4> QED BY <4>1, <4>2
    <3>3. s # <<>>
      BY <1>1, <2>2, EmptySeq DEF m
    <3>4. s[m][3] = N /\ (s[m][1] = f[1] => s[m][2] < f[2])
      BY <3>3 DEF m, N
    <3>5. ~(N < N)
      BY <1>2
    <3>6. t[k] = s[m] /\ t[k + 1] = <<f[1], f[2], 1>>
      BY <2>2, <3>1, <3>2
    <3> QED BY <3>4, <3>5, <3>6 DEF Precedes, N
  <2>3. CASE k > m
    <3>1. ~(k <= m) /\ ~(k + 1 <= m) /\ k - m \in 1..N /\ (k + 1) - m \in 1..N
          /\ (k + 1) - m = k - m + 1 /\ k - m < N /\ k \in 1..m + N /\ k + 1 \in 1..m + N
      BY <1>1, <1>2, <2>3
    <3>2. t[k] = <<f[1], f[2], k - m>>
      BY <1>7, <3>1, Zenon
    <3>3. t[k + 1] = <<f[1], f[2], (k + 1) - m>>
      BY <1>7, <3>1, Zenon
    <3> QED BY <3>1, <3>2, <3>3 DEF Precedes, N
  <2> QED BY <1>1, <1>2, <2>1, <2>2, <2>3
<1>10. InOrder(t)
  <2>1. /\ \A k \in 1..Len(t) : (t[k][3] - k) % Channels = 0
        /\ \A k \in 1..Len(t) - 1 : Precedes(t[k], t[k + 1])
    <3>1. 1..Len(t) = 1..m + N /\ 1..Len(t) - 1 = 1..m + N - 1
      BY <1>1, <1>2, <1>4
    <3> QED BY <1>8, <1>9, <3>1, Zenon
  <2> QED BY <1>4, <1>5, <2>1 DEF InOrder
<1>11. t # <<>> /\ t[Len(t)] = <<f[1], f[2], N>>
  <2>1. /\ m + N \in 1..m + N /\ ~(m + N <= m) /\ (m + N) - m = N /\ (m + N) - m \in 1..N
        /\ m + N # 0
    BY <1>1, <1>2
  <2>2. t[m + N] = <<f[1], f[2], (m + N) - m>>
    BY <1>7, <2>1, Zenon
  <2> QED BY <1>4, <2>1, <2>2, EmptySeq
<1> QED BY <1>4, <1>10, <1>11 DEF t, g, m, N


\* What is trimmed leaves room for the frame.
LEMMA TrimmedFits ==
  ASSUME NEW s, InOrder(s), Len(s) <= MaxSamples
  PROVE  LET t == Trimmed(s, FrameSamples)
         IN  /\ InOrder(t) /\ Len(t) <= MaxSamples - FrameSamples
             /\ t # <<>> => s # <<>> /\ t[Len(t)] = s[Len(s)]
<1> DEFINE N == FrameSamples
           over == Len(s) + N - MaxSamples
           groups == IF over > 0 THEN (over + Channels - 1) \div Channels ELSE 0
           n == groups * Channels
<1>1. Len(s) \in Nat /\ Len(s) % Channels = 0
  BY LenProperties DEF InOrder
<1>2. /\ N \in Nat \ {0} /\ N % Channels = 0 /\ MaxSamples \in Nat /\ MaxSamples % Channels = 0
      /\ N <= MaxSamples /\ Channels \in {1, 2}
  BY FrameIsGroups
<1>3. Trimmed(s, N) = SubSeq(s, n + 1, Len(s))
  BY DEF Trimmed
<1> HIDE DEF N
<1>4. n = (IF over > 0 THEN over ELSE 0) /\ n % Channels = 0
  <2>1. /\ Len(s) \in Int /\ N \in Int /\ MaxSamples \in Int /\ Len(s) + N \in Int
        /\ over \in Int
    BY <1>1, <1>2
  <2>2. (Len(s) + N) % Channels = 0
    BY <1>1, <1>2, <2>1, WholeGroups
  <2>3. over % Channels = 0
    <3> DEFINE a == Len(s) + N
    <3>1. a \in Int /\ MaxSamples \in Int /\ a % Channels = 0
      BY <2>1, <2>2
    <3>2. over = a - MaxSamples
      BY <2>1
    <3> HIDE DEF over, a
    <3> QED BY <1>2, <3>1, <3>2, WholeGroups
  <2> HIDE DEF over
  <2>4. CASE over > 0
    <3>1. over \in Nat /\ groups = (over + Channels - 1) \div Channels
      BY <2>1, <2>4
    <3>2. n = over
      BY <1>2, <2>3, <3>1, GroupsRound
    <3> QED BY <2>3, <2>4, <3>2
  <2>5. CASE ~(over > 0)
    BY <1>2, <2>5, NoGroups
  <2> QED BY <2>4, <2>5
<1>5. n \in Nat /\ n <= Len(s) /\ Len(s) - n <= MaxSamples - N
  BY <1>1, <1>2, <1>4
<1> HIDE DEF n
<1> DEFINE t == SubSeq(s, n + 1, Len(s))
<1>6. /\ InOrder(t) /\ Len(t) = IF n <= Len(s) THEN Len(s) - n ELSE 0
      /\ t # <<>> => s # <<>> /\ t[Len(t)] = s[Len(s)]
  BY <1>4, <1>5, BufferEaten
<1> HIDE DEF t
<1>7. Len(t) <= MaxSamples - N
  BY <1>5, <1>6
<1> QED BY <1>3, <1>6, <1>7 DEF N, t

----------------------------------------------------------------------------
(* AudioPath: the invariant.                                                *)

HalfSpace == SequenceModulus \div 2

\* The frames that are on the network or wait to be decoded.
FlyingIn(datagrams, queued) ==
  {d.packet.payload : d \in {e \in datagrams : e.packet.kind = "audio"}}
    \cup {queued[k] : k \in DOMAIN queued}

Flying == FlyingIn(net, packets)

\* What the host has captured, and what was sent by it or by its former runs.
CaptureOK == captured \in Seq(1..MaxChunk)

NetworkOK == \A d \in net : Sendable(d)

PacketsOK == packets \in Seq(Nat \X Nat)

FramesOK ==
  \A f \in Flying :
    /\ f \in Nat \X Nat /\ f[1] <= hostRun
    /\ f[1] = hostRun => f[2] < sequence /\ sequence - f[2] <= HalfSpace

\* No frame about is half the sequence space behind another of its host.
WindowOK ==
  \A f \in Flying, g \in Flying : f[1] = g[1] => f[2] + 1 - g[2] <= HalfSpace

\* The last frame decoded is one that was sent, the number behind it is
\* expected, and of its host no frame is half the space from it.
LastOK ==
  expected # AnyNumber =>
    /\ lastDecoded \in Nat \X Nat /\ lastDecoded[1] <= hostRun
    /\ lastDecoded[1] = hostRun => lastDecoded[2] < sequence
    /\ expected = (lastDecoded[2] + 1) % SequenceModulus
    /\ \A f \in Flying : f[1] = lastDecoded[1] =>
         /\ lastDecoded[2] + 1 - f[2] <= HalfSpace
         /\ f[2] - lastDecoded[2] <= HalfSpace

\* The buffer ends with the end of the last frame decoded, and every sample
\* stands in it on its own channel.
BufferOK ==
  /\ InOrder(samples)
  /\ samples # <<>> =>
       /\ expected # AnyNumber
       /\ samples[Len(samples)] = <<lastDecoded[1], lastDecoded[2], FrameSamples>>

AudioInv ==
  /\ AudioTypeOK /\ CaptureOK /\ NetworkOK /\ PacketsOK
  /\ FramesOK /\ WindowOK /\ LastOK /\ BufferOK

\* Fewer frames about, of the same run of the host.
LEMMA FewerFrames ==
  ASSUME FramesOK, WindowOK, Flying' \subseteq Flying, UNCHANGED <<hostRun, sequence>>
  PROVE  FramesOK' /\ WindowOK'
<1>1. FramesOK'
  BY DEF FramesOK
<1>2. WindowOK'
  BY DEF WindowOK
<1> QED BY <1>1, <1>2

LEMMA FewerAroundLast ==
  ASSUME LastOK, Flying' \subseteq Flying, UNCHANGED <<hostRun, sequence, threadVars>>
  PROVE  LastOK'
BY DEF LastOK, threadVars

LEMMA SameBuffer ==
  ASSUME BufferOK, UNCHANGED <<samples, threadVars>>
  PROVE  BufferOK'
BY DEF BufferOK, threadVars

\* Fewer datagrams and none that waits but was about before.
LEMMA FlyingShrinks ==
  ASSUME NEW n, NEW w, NEW m, NEW v,
         \A d \in m : d.packet.kind = "audio" => d.packet.payload \in FlyingIn(n, w),
         \A k \in DOMAIN v : v[k] \in FlyingIn(n, w)
  PROVE  FlyingIn(m, v) \subseteq FlyingIn(n, w)
<1> SUFFICES ASSUME NEW f \in FlyingIn(m, v) PROVE f \in FlyingIn(n, w)
  OBVIOUS
<1>1. CASE \E d \in m : d.packet.kind = "audio" /\ f = d.packet.payload
  BY <1>1
<1>2. CASE \E k \in DOMAIN v : f = v[k]
  BY <1>2
<1> QED BY <1>1, <1>2 DEF FlyingIn

LEMMA FlyingOf ==
  ASSUME NEW n, NEW w
  PROVE  /\ \A d \in n : d.packet.kind = "audio" => d.packet.payload \in FlyingIn(n, w)
         /\ \A k \in DOMAIN w : w[k] \in FlyingIn(n, w)
BY DEF FlyingIn

\* The rest of a queue.
LEMMA TailWaits ==
  ASSUME PacketsOK, packets # <<>>
  PROVE  /\ Tail(packets) \in Seq(Nat \X Nat) /\ Len(Tail(packets)) = Len(packets) - 1
         /\ \A k \in DOMAIN Tail(packets) : Tail(packets)[k] \in Flying
         /\ Head(packets) \in Nat \X Nat /\ Head(packets) \in Flying
<1>1. packets \in Seq(Nat \X Nat) /\ Len(packets) \in Nat \ {0} /\ DOMAIN packets = 1..Len(packets)
  BY LenProperties, EmptySeq DEF PacketsOK
<1>2. /\ Tail(packets) \in Seq(Nat \X Nat) /\ Len(Tail(packets)) = Len(packets) - 1
      /\ \A k \in 1..Len(Tail(packets)) : Tail(packets)[k] = packets[k + 1]
      /\ Head(packets) \in Nat \X Nat /\ Head(packets) = packets[1]
  BY <1>1, HeadTailProperties
<1>3. 1 \in DOMAIN packets
  BY <1>1
<1>4. ASSUME NEW k \in DOMAIN Tail(packets) PROVE Tail(packets)[k] \in Flying
  <2>1. k \in 1..Len(Tail(packets)) /\ k + 1 \in DOMAIN packets
    <3>1. DOMAIN Tail(packets) = 1..Len(packets) - 1
      BY <1>2, LenProperties
    <3> DEFINE n == Len(packets)
    <3>2. n \in Nat /\ k \in 1..n - 1
      BY <1>1, <3>1
    <3> HIDE DEF n
    <3>3. k \in 1..n - 1 /\ k + 1 \in 1..n
      BY <3>2
    <3> QED BY <1>1, <1>2, <3>3 DEF n
  <2>2. packets[k + 1] \in Flying
    BY <2>1, FlyingOf DEF Flying
  <2> QED BY <1>2, <2>1, <2>2
<1> QED BY <1>2, <1>3, <1>4, FlyingOf DEF Flying

LEMMA EmptyBuffer == InOrder(<<>>)
<1>1. <<>> \in Seq(PcmSample) /\ Len(<<>>) = 0 /\ 0 % Channels = 0
  BY FrameIsGroups
<1> QED BY <1>1 DEF InOrder

\* The limits of the queues and the buffer, and the ratio of the rates.
LEMMA AudioLimits ==
  /\ CaptureQueue \in Nat /\ PacketQueue \in Nat /\ MaxSamples \in Nat
  /\ FrameLen \in Nat \ {0} /\ RatioNum \in Nat /\ RatioDen \in Nat \ {0}
BY AudioAssumption

LEMMA AudioInitOK ==
  ASSUME AudioInit
  PROVE  AudioInv
<1>1. AudioTypeOK
  <2>1. /\ Len(MaxFrame) \in Nat \ {0} /\ MaxFrame[1] \in Nat
    <3>1. MaxFrame \in Seq(Nat) /\ MaxFrame # <<>>
      BY AudioAssumption
    <3>2. Len(MaxFrame) \in Nat \ {0}
      BY <3>1, LenProperties, EmptySeq
    <3> QED BY <3>1, <3>2, ElementOfSeq
  <2>2. hostRun = 0 /\ hostRun + 1 = 1 /\ partial = 0 /\ sequence = 0 /\ phase = 0
    BY DEF AudioInit
  <2>3. Len(captured) = 0 /\ Len(packets) = 0 /\ Len(samples) = 0
    BY DEF AudioInit
  <2>4. /\ Len(captured) <= CaptureQueue /\ Len(packets) <= PacketQueue
        /\ Len(samples) <= MaxSamples
    BY <2>3, AudioLimits
  <2>5. /\ hostRun \in 0..(Len(MaxFrame) - 1) /\ sequence \in 0..MaxFrame[hostRun + 1]
        /\ partial \in 0..(FrameLen - 1) /\ phase \in 0..(RatioDen - 1)
    BY <2>1, <2>2, AudioLimits
  <2>6. /\ peer \in {"none", "viewer"} /\ configured \in BOOLEAN /\ started \in BOOLEAN
        /\ playing \in {"no", "running", "failed"}
        /\ expected \in {AnyNumber} \cup 0..(SequenceModulus - 1)
    BY DEF AudioInit
  <2> QED BY <2>4, <2>5, <2>6 DEF AudioTypeOK
<1>2. CaptureOK /\ NetworkOK /\ PacketsOK
  BY DEF AudioInit, CaptureOK, NetworkOK, PacketsOK
<1>3. Flying = {}
  BY DEF Flying, FlyingIn, AudioInit
<1>4. FramesOK /\ WindowOK /\ LastOK
  BY <1>3 DEF AudioInit, FramesOK, WindowOK, LastOK
<1>5. BufferOK
  BY EmptyBuffer DEF AudioInit, BufferOK
<1> QED BY <1>1, <1>2, <1>4, <1>5 DEF AudioInv

LEMMA SetPeerKeeps ==
  ASSUME AudioInv, SetPeer
  PROVE  AudioInv'
<1>1. /\ UNCHANGED <<hostRun, captured, partial, sequence, configured, playing, packets,
                     threadVars, outputVars>>
      /\ peer' \in {"none", "viewer"}
      /\ net' \subseteq net \cup {Datagram(ConfigPacket)}
  BY DEF SetPeer
<1>2. AudioTypeOK'
  BY <1>1 DEF AudioInv, AudioTypeOK, threadVars, outputVars
<1>3. CaptureOK' /\ PacketsOK'
  BY <1>1 DEF AudioInv, CaptureOK, PacketsOK
<1>4. Sendable(Datagram(ConfigPacket)) /\ Datagram(ConfigPacket).packet.kind = "config"
  <2>1. <<0>> \in Seq(Int)
    OBVIOUS
  <2>2. ConfigPacket \in [kind : Texts, payload : Seq(Int)] /\ ConfigPacket.kind = "config"
    BY <2>1 DEF ConfigPacket, Texts
  <2>3. WellFormed(ConfigPacket)
    BY <2>2 DEF WellFormed
  <2> HIDE DEF ConfigPacket
  <2> QED BY <2>2, <2>3 DEF Datagram, Sendable
<1>5. NetworkOK'
  BY <1>1, <1>4 DEF AudioInv, NetworkOK
<1>6. Flying' \subseteq Flying
  <2>1. \A d \in net' : d.packet.kind = "audio" => d.packet.payload \in Flying
    BY <1>1, <1>4, FlyingOf DEF Flying
  <2>2. \A k \in DOMAIN packets' : packets'[k] \in Flying
    BY <1>1, FlyingOf DEF Flying
  <2> QED BY <2>1, <2>2, FlyingShrinks DEF Flying
<1>7. FramesOK' /\ WindowOK'
  BY <1>1, <1>6, FewerFrames DEF AudioInv
<1>8. LastOK'
  BY <1>1, <1>6, FewerAroundLast DEF AudioInv
<1>9. BufferOK'
  BY <1>1, SameBuffer DEF AudioInv, outputVars
<1> QED BY <1>2, <1>3, <1>5, <1>7, <1>8, <1>9 DEF AudioInv

\* What the host captures and throws away is not about yet.
LEMMA CaptureKeeps ==
  ASSUME AudioInv, CaptureOK', AudioTypeOK',
         UNCHANGED <<hostRun, sequence, net, packets, threadVars, outputVars>>
  PROVE  AudioInv'
<1>1. PacketsOK' /\ NetworkOK'
  BY DEF AudioInv, PacketsOK, NetworkOK
<1>2. Flying' \subseteq Flying
  BY DEF Flying
<1>3. FramesOK' /\ WindowOK'
  BY <1>2, FewerFrames DEF AudioInv
<1>4. LastOK'
  BY <1>2, FewerAroundLast DEF AudioInv
<1>5. BufferOK'
  BY SameBuffer DEF AudioInv, outputVars
<1> QED BY <1>1, <1>3, <1>4, <1>5 DEF AudioInv

LEMMA CapturedTail ==
  ASSUME CaptureOK, captured # <<>>
  PROVE  /\ Tail(captured) \in Seq(1..MaxChunk) /\ Len(Tail(captured)) = Len(captured) - 1
         /\ Head(captured) \in 1..MaxChunk /\ Len(captured) \in Nat
BY HeadTailProperties, LenProperties DEF CaptureOK

LEMMA CaptureCallbackKeeps ==
  ASSUME AudioInv, CaptureCallback
  PROVE  AudioInv'
<1>1. PICK groups \in 1..MaxChunk :
        captured' = IF Len(captured) < CaptureQueue THEN Append(captured, groups) ELSE captured
  BY DEF CaptureCallback
<1>2. UNCHANGED <<hostRun, peer, partial, sequence, net, configured, playing, packets,
                  threadVars, outputVars>>
  BY DEF CaptureCallback
<1>3. captured \in Seq(1..MaxChunk) /\ Len(captured) \in Nat
  BY LenProperties DEF AudioInv, CaptureOK
<1>4. captured' \in Seq(1..MaxChunk) /\ Len(captured') <= CaptureQueue
  <2>1. CaptureQueue \in Nat /\ Len(captured) <= CaptureQueue
    BY AudioLimits DEF AudioInv, AudioTypeOK
  <2> DEFINE more == Append(captured, groups)
  <2>2. more \in Seq(1..MaxChunk) /\ Len(more) = Len(captured) + 1
    BY <1>3, AppendProperties
  <2>3. captured' = captured \/ (Len(captured) < CaptureQueue /\ captured' = more)
    BY <1>1
  <2> HIDE DEF more
  <2>4. CASE captured' = captured
    BY <1>3, <2>1, <2>4
  <2>5. CASE Len(captured) < CaptureQueue /\ captured' = more
    BY <1>3, <2>1, <2>2, <2>5
  <2> QED BY <2>3, <2>4, <2>5
<1>5. AudioTypeOK'
  BY <1>2, <1>4 DEF AudioInv, AudioTypeOK, threadVars, outputVars
<1>6. CaptureOK'
  BY <1>4 DEF CaptureOK
<1> QED BY <1>2, <1>5, <1>6, CaptureKeeps

LEMMA CaptureUnheardKeeps ==
  ASSUME AudioInv, CaptureUnheard
  PROVE  AudioInv'
<1>1. /\ captured # <<>> /\ captured' = Tail(captured) /\ partial' = 0
      /\ UNCHANGED <<hostRun, peer, sequence, net, configured, playing, packets,
                     threadVars, outputVars>>
  BY DEF CaptureUnheard
<1>2. /\ captured' \in Seq(1..MaxChunk) /\ Len(captured') = Len(captured) - 1
      /\ Len(captured) \in Nat
  BY <1>1, CapturedTail DEF AudioInv
<1>3. Len(captured') <= CaptureQueue /\ partial' \in 0..FrameLen - 1
  <2>1. Len(captured) <= CaptureQueue
    BY DEF AudioInv, AudioTypeOK
  <2> QED BY <1>1, <1>2, <2>1, AudioLimits
<1>4. AudioTypeOK'
  BY <1>1, <1>3 DEF AudioInv, AudioTypeOK, threadVars, outputVars
<1>5. CaptureOK'
  BY <1>2 DEF CaptureOK
<1> QED BY <1>1, <1>4, <1>5, CaptureKeeps

LEMMA RestartHostKeeps ==
  ASSUME AudioInv, RestartHost
  PROVE  AudioInv'
<1>1. /\ hostRun + 1 < Len(MaxFrame) /\ hostRun' = hostRun + 1
      /\ peer' = "none" /\ captured' = <<>> /\ partial' = 0 /\ sequence' = 0
      /\ UNCHANGED <<net, configured, playing, packets, threadVars, outputVars>>
  BY DEF RestartHost
<1>2. /\ MaxFrame \in Seq(Nat) /\ Len(MaxFrame) \in Nat /\ hostRun \in Nat
  BY AudioAssumption, LenProperties DEF AudioInv, AudioTypeOK
<1>3. hostRun' \in 0..(Len(MaxFrame) - 1) /\ sequence' \in 0..MaxFrame[hostRun' + 1]
  <2>1. hostRun' + 1 \in 1..Len(MaxFrame)
    BY <1>1, <1>2
  <2>2. MaxFrame[hostRun' + 1] \in Nat
    BY <1>2, <2>1, ElementOfSeq
  <2> QED BY <1>1, <1>2, <2>2
<1>4. Len(captured') = 0 /\ CaptureQueue \in Nat /\ FrameLen \in Nat \ {0}
  BY <1>1, AudioAssumption
<1>5. AudioTypeOK'
  BY <1>1, <1>3, <1>4 DEF AudioInv, AudioTypeOK, threadVars, outputVars
<1>6. CaptureOK' /\ PacketsOK' /\ NetworkOK'
  BY <1>1 DEF AudioInv, CaptureOK, PacketsOK, NetworkOK
<1>7. Flying' = Flying
  BY <1>1 DEF Flying
<1>8. \A f \in Flying : f \in Nat \X Nat /\ f[1] <= hostRun' /\ f[1] # hostRun'
  <2> SUFFICES ASSUME NEW f \in Flying
               PROVE  f \in Nat \X Nat /\ f[1] <= hostRun' /\ f[1] # hostRun'
    OBVIOUS
  <2>1. f \in Nat \X Nat /\ f[1] <= hostRun
    BY DEF AudioInv, FramesOK
  <2>2. f[1] \in Nat
    BY <2>1
  <2> QED BY <1>1, <1>2, <2>1, <2>2
<1>9. FramesOK'
  BY <1>7, <1>8 DEF FramesOK
<1>10. WindowOK'
  BY <1>7 DEF AudioInv, WindowOK
<1>11. LastOK'
  <2>1. UNCHANGED threadVars
    BY <1>1
  <2> SUFFICES ASSUME expected # AnyNumber
               PROVE  /\ lastDecoded \in Nat \X Nat /\ lastDecoded[1] <= hostRun'
                      /\ lastDecoded[1] # hostRun'
                      /\ expected = (lastDecoded[2] + 1) % SequenceModulus
                      /\ \A f \in Flying : f[1] = lastDecoded[1] =>
                           /\ lastDecoded[2] + 1 - f[2] <= HalfSpace
                           /\ f[2] - lastDecoded[2] <= HalfSpace
    BY <1>7, <2>1 DEF LastOK, threadVars
  <2>2. lastDecoded \in Nat \X Nat /\ lastDecoded[1] <= hostRun
    BY DEF AudioInv, LastOK
  <2>3. lastDecoded[1] <= hostRun' /\ lastDecoded[1] # hostRun'
    <3>1. lastDecoded[1] \in Nat
      BY <2>2
    <3> QED BY <1>1, <1>2, <2>2, <3>1
  <2> QED BY <2>2, <2>3 DEF AudioInv, LastOK
<1>12. BufferOK'
  BY <1>1, SameBuffer DEF AudioInv, outputVars
<1> QED BY <1>5, <1>6, <1>9, <1>10, <1>11, <1>12 DEF AudioInv

\* A frame is a datagram that can be sent.
LEMMA AudioIsSendable ==
  ASSUME hostRun \in Nat, NEW n \in Nat
  PROVE  /\ Sendable(Datagram(AudioPacket(n))) /\ Datagram(AudioPacket(n)).packet.kind = "audio"
         /\ Datagram(AudioPacket(n)).packet.payload = <<hostRun, n>>
<1> DEFINE p == AudioPacket(n)
<1>1. <<hostRun, n>> \in Seq(Int) /\ Len(<<hostRun, n>>) = 2
  OBVIOUS
<1>2. n % SequenceModulus \in Int
  BY AudioAssumption, ModParts
<1>3. 2 \in 1..MaxAudioPayload
  BY DatagramAssumption DEF MaxAudioPayload, HeaderLen, AudioHeaderLen, MagicLen
<1>4. /\ p \in [kind : {"audio"}, sequence : Int, timestamp : Int, payload : Seq(Int)]
      /\ p.payload = <<hostRun, n>> /\ p.kind = "audio"
  BY <1>1, <1>2 DEF AudioPacket
<1>5. Len(p.payload) \in 1..MaxAudioPayload
  BY <1>1, <1>3, <1>4
<1> HIDE DEF p
<1>6. WellFormed(p)
  BY <1>4, <1>5 DEF WellFormed
<1>7. Datagram(p).packet = p /\ Datagram(p).leftOut = 0
      /\ Datagram(p) = [packet |-> p, leftOut |-> 0]
  BY DEF Datagram
<1>8. Sendable(Datagram(p))
  BY <1>6, <1>7 DEF Sendable
<1> QED BY <1>4, <1>7, <1>8 DEF p

LEMMA CaptureSendKeeps ==
  ASSUME AudioInv, CaptureSend
  PROVE  AudioInv'
<1> DEFINE all == partial + Head(captured)
           frames == all \div FrameLen
           new == {Datagram(AudioPacket(sequence + k)) : k \in 0..(frames - 1)}
           half == HalfSpace
           last == sequence + frames
<1>1. /\ captured # <<>> /\ last <= MaxFrame[hostRun + 1] /\ InWindow(last)
      /\ partial' = all % FrameLen /\ sequence' = last
      /\ net' \subseteq net \cup new
      /\ captured' = Tail(captured)
      /\ UNCHANGED <<hostRun, peer, configured, playing, packets, threadVars, outputVars>>
  BY DEF CaptureSend
<1>2. /\ Tail(captured) \in Seq(1..MaxChunk) /\ Len(Tail(captured)) = Len(captured) - 1
      /\ Head(captured) \in 1..MaxChunk /\ Len(captured) \in Nat
  BY <1>1, CapturedTail DEF AudioInv
<1>3. /\ frames \in 0..half /\ all % FrameLen \in 0..FrameLen - 1
  <2>1. partial \in 0..FrameLen - 1
    BY DEF AudioInv, AudioTypeOK
  <2> QED BY <1>2, <2>1, FramesOfChunk DEF HalfSpace
<1>4. half \in Nat \ {0} /\ sequence \in Nat /\ hostRun \in Nat
  <2>1. half \in Nat \ {0}
    BY AudioAssumption DEF HalfSpace
  <2> QED BY <2>1 DEF AudioInv, AudioTypeOK
<1> HIDE DEF half, frames, all
<1>5. last \in Nat
  BY <1>3, <1>4
<1>6. AudioTypeOK'
  <2>1. sequence' \in 0..MaxFrame[hostRun + 1]
    <3>1. MaxFrame[hostRun + 1] \in Nat
      <4>1. MaxFrame \in Seq(Nat) /\ Len(MaxFrame) \in Nat
        BY AudioAssumption, LenProperties
      <4>2. hostRun + 1 \in 1..Len(MaxFrame)
        BY <4>1 DEF AudioInv, AudioTypeOK
      <4> QED BY <4>1, <4>2, ElementOfSeq
    <3> QED BY <1>1, <1>5, <3>1
  <2>2. Len(captured') <= CaptureQueue
    <3>1. Len(captured) <= CaptureQueue
      BY DEF AudioInv, AudioTypeOK
    <3>2. Len(captured') = Len(captured) - 1 /\ Len(captured) \in Nat
      BY <1>1, <1>2
    <3> QED BY <3>1, <3>2, AudioLimits
  <2>3. partial' \in 0..FrameLen - 1
    BY <1>1, <1>3
  <2> QED BY <1>1, <2>1, <2>2, <2>3 DEF AudioInv, AudioTypeOK, threadVars, outputVars
<1>7. CaptureOK' /\ PacketsOK'
  BY <1>1, <1>2 DEF AudioInv, CaptureOK, PacketsOK
<1>8. \A d \in new : /\ Sendable(d) /\ d.packet.kind = "audio"
                     /\ \E k \in 0..(frames - 1) : d.packet.payload = <<hostRun, sequence + k>>
  <2> SUFFICES ASSUME NEW k \in 0..(frames - 1), NEW d, d = Datagram(AudioPacket(sequence + k))
               PROVE  /\ Sendable(d) /\ d.packet.kind = "audio"
                      /\ d.packet.payload = <<hostRun, sequence + k>>
    OBVIOUS
  <2>1. sequence + k \in Nat
    BY <1>3, <1>4
  <2> QED BY <1>4, <2>1, AudioIsSendable
<1> HIDE DEF new
<1>9. NetworkOK'
  BY <1>1, <1>8 DEF AudioInv, NetworkOK
<1> DEFINE fresh == {<<hostRun, sequence + k>> : k \in 0..(frames - 1)}
<1>10. Flying' \subseteq Flying \cup fresh
  <2> SUFFICES ASSUME NEW f \in Flying', f \notin Flying PROVE f \in fresh
    OBVIOUS
  <2>1. f \in FlyingIn(net', packets)
    BY <1>1 DEF Flying
  <2>2. f \notin FlyingIn(net, packets)
    BY DEF Flying
  <2>3. PICK d \in net' : d.packet.kind = "audio" /\ f = d.packet.payload
    BY <2>1, <2>2 DEF FlyingIn
  <2>4. d \in new
    BY <1>1, <2>2, <2>3, FlyingOf
  <2> QED BY <1>8, <2>3, <2>4
<1>11. ASSUME NEW f \in fresh
       PROVE  /\ f \in Nat \X Nat /\ f[1] = hostRun /\ f[2] < last /\ last - f[2] <= half
              /\ f[2] >= sequence
  <2>1. PICK k \in 0..(frames - 1) : f = <<hostRun, sequence + k>>
    OBVIOUS
  <2>2. f[1] = hostRun /\ f[2] = sequence + k /\ sequence + k \in Nat
    BY <1>3, <1>4, <2>1
  <2>3. sequence + k < last /\ last - (sequence + k) <= half /\ sequence + k >= sequence
    BY <1>3, <1>4
  <2> QED BY <1>4, <2>1, <2>2, <2>3
<1> HIDE DEF fresh
<1>12. ASSUME NEW f \in Flying
       PROVE  /\ f \in Nat \X Nat /\ f[1] <= hostRun
              /\ f[1] = hostRun => f[2] < sequence /\ last - f[2] <= half
  <2>1. /\ f \in Nat \X Nat /\ f[1] <= hostRun
        /\ f[1] = hostRun => f[2] < sequence
    BY DEF AudioInv, FramesOK
  <2>2. f[1] = hostRun => last - f[2] <= half
    BY <1>1 DEF InWindow, Flying, FlyingIn, half, HalfSpace
  <2> QED BY <2>1, <2>2
<1> HIDE DEF last
<1>13. FramesOK'
  <2> SUFFICES ASSUME NEW f \in Flying'
               PROVE  /\ f \in Nat \X Nat /\ f[1] <= hostRun
                      /\ f[1] = hostRun => f[2] < last /\ last - f[2] <= half
    BY <1>1 DEF FramesOK, half
  <2>1. CASE f \in fresh
    BY <1>4, <1>11, <2>1
  <2>2. CASE f \in Flying
    <3>1. f \in Nat \X Nat /\ f[2] \in Nat
      BY <1>12, <2>2
    <3>2. sequence <= last
      BY <1>3, <1>4 DEF last
    <3> QED BY <1>4, <1>5, <1>12, <2>2, <3>1, <3>2
  <2> QED BY <1>10, <2>1, <2>2
<1>14. WindowOK'
  <2> SUFFICES ASSUME NEW f \in Flying', NEW g \in Flying', f[1] = g[1]
               PROVE  f[2] + 1 - g[2] <= half
    BY DEF WindowOK, half
  <2>1. CASE f \in Flying /\ g \in Flying
    BY <2>1 DEF AudioInv, WindowOK, half
  <2>2. CASE f \in fresh
    <3>1. f[1] = hostRun /\ f[2] \in Nat /\ f[2] < last
      BY <1>11, <2>2
    <3>2. g[2] \in Nat /\ last - g[2] <= half
      BY <1>10, <1>11, <1>12, <3>1
    <3> QED BY <1>4, <1>5, <3>1, <3>2
  <2>3. CASE f \in Flying /\ g \in fresh
    <3>1. g[1] = hostRun /\ g[2] \in Nat /\ g[2] >= sequence
      BY <1>11, <2>3
    <3>2. f[2] \in Nat /\ f[2] < sequence
      BY <1>12, <2>3, <3>1
    <3> QED BY <1>4, <3>1, <3>2
  <2> QED BY <1>10, <2>1, <2>2, <2>3
<1>15. LastOK'
  <2> SUFFICES ASSUME expected # AnyNumber
               PROVE  /\ lastDecoded \in Nat \X Nat /\ lastDecoded[1] <= hostRun
                      /\ lastDecoded[1] = hostRun => lastDecoded[2] < last
                      /\ expected = (lastDecoded[2] + 1) % SequenceModulus
                      /\ \A f \in Flying' : f[1] = lastDecoded[1] =>
                           /\ lastDecoded[2] + 1 - f[2] <= half
                           /\ f[2] - lastDecoded[2] <= half
    BY <1>1 DEF LastOK, threadVars, half
  <2> DEFINE l == lastDecoded[2]
  <2>1. /\ lastDecoded \in Nat \X Nat /\ lastDecoded[1] <= hostRun
        /\ lastDecoded[1] = hostRun => l < sequence
        /\ expected = (l + 1) % SequenceModulus
        /\ \A f \in Flying : f[1] = lastDecoded[1] => l + 1 - f[2] <= half /\ f[2] - l <= half
    BY DEF AudioInv, LastOK, half
  <2>2. lastDecoded[1] = hostRun => last - l <= half + 1
    BY <1>1 DEF InWindow, half, HalfSpace
  <2>3. l \in Nat
    BY <2>1
  <2> HIDE DEF l
  <2>4. lastDecoded[1] = hostRun => l < last
    BY <1>3, <1>4, <2>1, <2>3 DEF last
  <2>5. ASSUME NEW f \in Flying', f[1] = lastDecoded[1]
        PROVE  l + 1 - f[2] <= half /\ f[2] - l <= half
    <3>1. CASE f \in Flying
      BY <2>1, <2>5, <3>1
    <3>2. CASE f \in fresh
      <4>1. f[1] = hostRun /\ f[2] \in Nat /\ f[2] < last /\ f[2] >= sequence
        BY <1>11, <3>2
      <4>2. l < sequence /\ last - l <= half + 1
        BY <2>1, <2>2, <2>5, <4>1
      <4> QED BY <1>4, <1>5, <2>3, <4>1, <4>2
    <3> QED BY <1>10, <3>1, <3>2
  <2> QED BY <2>1, <2>4, <2>5 DEF l
<1>16. BufferOK'
  BY <1>1, SameBuffer DEF AudioInv, outputVars
<1> QED BY <1>6, <1>7, <1>9, <1>13, <1>14, <1>15, <1>16 DEF AudioInv

\* Datagrams that leave, or that carry no sound.
LEMMA NetworkChanges ==
  ASSUME AudioInv, NetworkOK', \A d \in net' : d.packet.kind = "audio" => d \in net,
         UNCHANGED <<hostVars, configured, playing, packets, threadVars, outputVars>>
  PROVE  AudioInv'
<1>1. AudioTypeOK' /\ CaptureOK' /\ PacketsOK'
  BY DEF AudioInv, AudioTypeOK, CaptureOK, PacketsOK, hostVars, threadVars, outputVars
<1>2. Flying' \subseteq Flying
  <2>1. \A d \in net' : d.packet.kind = "audio" => d.packet.payload \in Flying
    BY FlyingOf DEF Flying
  <2>2. \A k \in DOMAIN packets' : packets'[k] \in Flying
    BY FlyingOf DEF Flying
  <2> QED BY <2>1, <2>2, FlyingShrinks DEF Flying
<1>3. FramesOK' /\ WindowOK'
  BY <1>2, FewerFrames DEF AudioInv, hostVars
<1>4. LastOK'
  BY <1>2, FewerAroundLast DEF AudioInv, hostVars
<1>5. BufferOK'
  BY SameBuffer DEF AudioInv, outputVars
<1> QED BY <1>1, <1>3, <1>4, <1>5 DEF AudioInv

LEMMA SendOtherKeeps ==
  ASSUME AudioInv, SendOther
  PROVE  AudioInv'
<1>1. PICK d \in OtherTraffic : net' = {d}
  BY DEF SendOther
<1>2. Sendable(d) /\ d.packet.kind # "audio"
  <2>1. /\ d \in [packet : {d.packet}, leftOut : {0} \cup OlderBy]
        /\ WellFormed(d.packet) /\ d.packet.kind # "audio"
        /\ d.leftOut # 0 => d.packet.kind = "stats"
    BY TrafficAssumption
  <2> QED BY <2>1 DEF Sendable
<1>3. NetworkOK' /\ \A e \in net' : e.packet.kind = "audio" => e \in net
  BY <1>1, <1>2 DEF NetworkOK
<1> QED BY <1>3, NetworkChanges DEF SendOther

LEMMA LoseDatagramKeeps ==
  ASSUME AudioInv, LoseDatagram
  PROVE  AudioInv'
<1>1. net' \subseteq net
  BY DEF LoseDatagram
<1>2. NetworkOK' /\ \A e \in net' : e.packet.kind = "audio" => e \in net
  BY <1>1 DEF AudioInv, NetworkOK
<1> QED BY <1>2, NetworkChanges DEF LoseDatagram

\* The playback is begun anew, or is gone: nothing waits, nothing is buffered
\* and no number is expected.
LEMMA PlaybackForgets ==
  ASSUME AudioInv, net' \subseteq net, UNCHANGED hostVars, configured' \in BOOLEAN,
         playing' \in {"no", "running", "failed"}, packets' = <<>>, expected' = AnyNumber,
         samples' = <<>>, started' = FALSE, phase' = 0
  PROVE  AudioInv'
<1>1. /\ Len(packets') <= PacketQueue /\ Len(samples') <= MaxSamples
      /\ phase' \in 0..(RatioDen - 1)
  <2>1. Len(packets') = 0 /\ Len(samples') = 0
    OBVIOUS
  <2> QED BY <2>1, AudioLimits
<1>2. AudioTypeOK'
  BY <1>1 DEF AudioInv, AudioTypeOK, hostVars
<1>3. CaptureOK' /\ NetworkOK' /\ PacketsOK'
  BY DEF AudioInv, CaptureOK, NetworkOK, PacketsOK, hostVars
<1>4. Flying' \subseteq Flying
  <2>1. \A d \in net' : d.packet.kind = "audio" => d.packet.payload \in Flying
    BY FlyingOf DEF Flying
  <2>2. \A k \in DOMAIN packets' : packets'[k] \in Flying
    OBVIOUS
  <2> QED BY <2>1, <2>2, FlyingShrinks DEF Flying
<1>5. FramesOK' /\ WindowOK'
  BY <1>4, FewerFrames DEF AudioInv, hostVars
<1>6. LastOK'
  BY DEF LastOK
<1>7. BufferOK'
  BY EmptyBuffer DEF BufferOK
<1> QED BY <1>2, <1>3, <1>5, <1>6, <1>7 DEF AudioInv

LEMMA FreshPlaybackKeeps ==
  ASSUME AudioInv, FreshPlayback, net' \subseteq net, UNCHANGED hostVars,
         configured' \in BOOLEAN
  PROVE  AudioInv'
BY PlaybackForgets DEF FreshPlayback

\* A packet that is received is one that is on the network.
LEMMA ReceivedIsSent ==
  ASSUME NetworkOK, NEW d \in net
  PROVE  /\ Decode(SentBytes(d)).kind = d.packet.kind
         /\ d.packet.kind = "audio" => Decode(SentBytes(d)) = d.packet
<1> DEFINE p == d.packet
           q == Decode(SentBytes(d))
<1>1. Sendable(d)
  BY DEF NetworkOK
<1>2. q = Meant(d)
  BY <1>1, DatagramIsRead
<1> HIDE DEF q
<1>3. CASE d.leftOut = 0
  BY <1>2, <1>3 DEF Meant, q
<1>4. CASE d.leftOut # 0
  <2>1. p.kind = "stats" /\ WellFormed(p)
    BY <1>1, <1>4 DEF Sendable
  <2>2. p \in [kind : {"stats"}, stats : [Stat -> Int]]
    BY <2>1 DEF WellFormed, Texts, Numbered, Bare
  <2> DEFINE x == [f \in Stat |-> IF StatsOffsets[f].offset < StatsLen - d.leftOut
                                  THEN p.stats[f] ELSE 0]
  <2>3. q = [p EXCEPT !.stats = x]
    BY <1>2, <1>4 DEF Meant
  <2> HIDE DEF x
  <2>4. [p EXCEPT !.stats = x].kind = p.kind
    BY <2>2
  <2> QED BY <2>1, <2>3, <2>4 DEF q
<1> QED BY <1>3, <1>4

LEMMA ViewerReceiveKeeps ==
  ASSUME AudioInv, ViewerReceive
  PROVE  AudioInv'
<1>1. PICK d \in net :
        LET packet == Decode(SentBytes(d))
        IN  /\ net' \in {net, net \ {d}}
            /\ CASE packet.kind = "config" -> HandleConfig
                 [] packet.kind = "audio" -> HandleAudio(packet)
                 [] OTHER -> UNCHANGED <<configured, playing, packets, threadVars, outputVars>>
  BY DEF ViewerReceive
<1> DEFINE packet == Decode(SentBytes(d))
<1>2. /\ packet.kind = d.packet.kind
      /\ d.packet.kind = "audio" => packet = d.packet
  BY ReceivedIsSent DEF AudioInv
<1> HIDE DEF packet
<1>3. net' \subseteq net /\ UNCHANGED hostVars
  BY <1>1 DEF ViewerReceive
<1>4. NetworkOK'
  BY <1>3 DEF AudioInv, NetworkOK
<1>5. ASSUME UNCHANGED <<configured, playing, packets, threadVars, outputVars>> PROVE AudioInv'
  BY <1>3, <1>4, <1>5, NetworkChanges
<1>6. CASE packet.kind = "config"
  <2>1. HandleConfig
    BY <1>1, <1>6 DEF packet
  <2>2. CASE configured
    <3>1. UNCHANGED <<playing, packets, threadVars, outputVars>> /\ configured' = TRUE
      BY <2>1, <2>2 DEF HandleConfig
    <3>2. configured' = configured
      <4>1. configured \in BOOLEAN
        BY DEF AudioInv, AudioTypeOK
      <4> QED BY <2>2, <3>1, <4>1
    <3> QED BY <1>5, <3>1, <3>2
  <2>3. CASE ~configured
    BY <1>3, <2>1, <2>3, FreshPlaybackKeeps DEF HandleConfig
  <2> QED BY <2>2, <2>3
<1>7. CASE packet.kind = "audio"
  <2> DEFINE f == packet.payload
  <2>1. /\ packets' = IF playing = "running" /\ Len(packets) < PacketQueue
                      THEN Append(packets, f) ELSE packets
        /\ UNCHANGED <<configured, playing, threadVars, outputVars>>
    <3>1. HandleAudio(packet)
      <4>1. packet.kind # "config"
        BY <1>7
      <4> QED BY <1>1, <1>7, <4>1 DEF packet
    <3> QED BY <3>1 DEF HandleAudio
  <2>2. f \in Flying
    BY <1>2, <1>7, FlyingOf DEF Flying
  <2> HIDE DEF f
  <2>3. f \in Nat \X Nat
    BY <2>2 DEF AudioInv, FramesOK
  <2>4. packets \in Seq(Nat \X Nat) /\ Len(packets) \in Nat /\ DOMAIN packets = 1..Len(packets)
    BY LenProperties DEF AudioInv, PacketsOK
  <2>5. CASE packets' = packets
    BY <1>5, <2>1, <2>5
  <2>6. CASE packets' = Append(packets, f) /\ Len(packets) < PacketQueue
    <3>1. /\ packets' \in Seq(Nat \X Nat) /\ Len(packets') = Len(packets) + 1
          /\ \A k \in 1..Len(packets') : packets'[k] = IF k <= Len(packets) THEN packets[k] ELSE f
      BY <2>3, <2>4, <2>6, AppendProperties
    <3>2. Len(packets') <= PacketQueue
      BY <2>4, <2>6, <3>1, AudioAssumption
    <3>3. AudioTypeOK'
      BY <1>3, <2>1, <3>2 DEF AudioInv, AudioTypeOK, hostVars, threadVars, outputVars
    <3>4. CaptureOK' /\ PacketsOK'
      BY <1>3, <3>1 DEF AudioInv, CaptureOK, PacketsOK, hostVars
    <3>5. \A k \in DOMAIN packets' : packets'[k] \in Flying
      <4> SUFFICES ASSUME NEW k \in DOMAIN packets' PROVE packets'[k] \in Flying
        OBVIOUS
      <4>1. k \in 1..Len(packets')
        BY <3>1, LenProperties
      <4>2. CASE k <= Len(packets)
        <5>1. k \in DOMAIN packets /\ packets'[k] = packets[k]
          BY <2>4, <3>1, <4>1, <4>2
        <5> QED BY <5>1, FlyingOf DEF Flying
      <4>3. CASE ~(k <= Len(packets))
        BY <2>2, <3>1, <4>1, <4>3
      <4> QED BY <4>2, <4>3
    <3>6. Flying' \subseteq Flying
      <4>1. \A e \in net' : e.packet.kind = "audio" => e.packet.payload \in Flying
        BY <1>3, FlyingOf DEF Flying
      <4> QED BY <3>5, <4>1, FlyingShrinks DEF Flying
    <3>7. FramesOK' /\ WindowOK'
      BY <1>3, <3>6, FewerFrames DEF AudioInv, hostVars
    <3>8. LastOK'
      BY <1>3, <2>1, <3>6, FewerAroundLast DEF AudioInv, hostVars
    <3>9. BufferOK'
      BY <2>1, SameBuffer DEF AudioInv, outputVars
    <3> QED BY <1>4, <3>3, <3>4, <3>7, <3>8, <3>9 DEF AudioInv
  <2> QED BY <2>1, <2>5, <2>6
<1>8. CASE packet.kind # "config" /\ packet.kind # "audio"
  <2>1. UNCHANGED <<configured, playing, packets, threadVars, outputVars>>
    BY <1>1, <1>8 DEF packet
  <2> QED BY <1>5, <2>1
<1> QED BY <1>6, <1>7, <1>8

LEMMA ChangeDeviceKeeps ==
  ASSUME AudioInv, ChangeDevice
  PROVE  AudioInv'
<1>1. /\ FreshPlayback /\ UNCHANGED <<hostVars, net, configured>>
  BY DEF ChangeDevice
<1>2. configured' \in BOOLEAN
  BY <1>1 DEF AudioInv, AudioTypeOK
<1> QED BY <1>1, <1>2, FreshPlaybackKeeps

LEMMA PlaybackFailsKeeps ==
  ASSUME AudioInv, PlaybackFails
  PROVE  AudioInv'
<1>1. UNCHANGED <<hostVars, net, configured>>
  BY DEF PlaybackFails
<1>2. configured' \in BOOLEAN
  BY <1>1 DEF AudioInv, AudioTypeOK
<1> QED BY <1>1, <1>2, PlaybackForgets DEF PlaybackFails

\* The first frame that waits is dropped: it is late, or cannot be decoded.
LEMMA FrameDropped ==
  ASSUME AudioInv, packets # <<>>, packets' = Tail(packets),
         UNCHANGED <<hostVars, net, configured, playing, threadVars, outputVars>>
  PROVE  AudioInv'
<1>1. /\ Tail(packets) \in Seq(Nat \X Nat) /\ Len(Tail(packets)) = Len(packets) - 1
      /\ \A k \in DOMAIN Tail(packets) : Tail(packets)[k] \in Flying
  BY TailWaits DEF AudioInv
<1>2. Len(packets') <= PacketQueue
  <2>1. Len(packets) \in Nat /\ Len(packets) <= PacketQueue /\ PacketQueue \in Nat
    BY AudioAssumption, LenProperties DEF AudioInv, AudioTypeOK, PacketsOK
  <2> QED BY <1>1, <2>1
<1>3. AudioTypeOK'
  BY <1>2 DEF AudioInv, AudioTypeOK, hostVars, threadVars, outputVars
<1>4. CaptureOK' /\ NetworkOK' /\ PacketsOK'
  BY <1>1 DEF AudioInv, CaptureOK, NetworkOK, PacketsOK, hostVars
<1>5. Flying' \subseteq Flying
  <2>1. \A d \in net' : d.packet.kind = "audio" => d.packet.payload \in Flying
    BY FlyingOf DEF Flying
  <2>2. \A k \in DOMAIN packets' : packets'[k] \in Flying
    BY <1>1
  <2> QED BY <2>1, <2>2, FlyingShrinks DEF Flying
<1>6. FramesOK' /\ WindowOK'
  BY <1>5, FewerFrames DEF AudioInv, hostVars
<1>7. LastOK'
  BY <1>5, FewerAroundLast DEF AudioInv, hostVars
<1>8. BufferOK'
  BY SameBuffer DEF AudioInv, outputVars
<1> QED BY <1>3, <1>4, <1>6, <1>7, <1>8 DEF AudioInv

\* Of one host, a frame is behind exactly when it is no later than the last one.
LEMMA BehindIsLate ==
  ASSUME AudioInv, packets # <<>>, expected # AnyNumber,
         Head(packets)[1] = lastDecoded[1]
  PROVE  Behind(Head(packets)) <=> Head(packets)[2] <= lastDecoded[2]
<1> DEFINE f == Head(packets)
           n == f[2]
           l == lastDecoded[2]
           M == SequenceModulus
<1>1. f \in Nat \X Nat /\ f \in Flying
  BY TailWaits DEF AudioInv
<1>2. /\ lastDecoded \in Nat \X Nat /\ expected = (l + 1) % M
      /\ l + 1 - n <= HalfSpace /\ n - l <= HalfSpace
  BY <1>1 DEF AudioInv, LastOK
<1>3. Behind(f) <=> ((n % M) - ((l + 1) % M)) % M > (M - 1) \div 2
  BY <1>2 DEF Behind, Wire
<1>4. n \in Nat /\ l \in Nat /\ M \in Nat \ {0, 1}
  BY <1>1, <1>2, AudioAssumption
<1>5. HalfSpace = M \div 2
  BY DEF HalfSpace
<1> HIDE DEF n, l, M, f
<1>6. CASE n > l
  <2>1. ~(n <= l)
    BY <1>4, <1>6
  <2> QED BY <1>2, <1>3, <1>4, <1>5, <1>6, <2>1, LaterIsAhead DEF f, n, l
<1>7. CASE n <= l
  BY <1>2, <1>3, <1>4, <1>5, <1>7, LaterIsAhead DEF f, n, l
<1> QED BY <1>4, <1>6, <1>7

\* The number behind a number, on the wire.
LEMMA NextOnWire ==
  ASSUME NEW x \in Nat, NEW M \in Nat \ {0}
  PROVE  ((x % M) + 1) % M = (x + 1) % M
<1> DEFINE a == x % M
           p == x \div M
           b == (x + 1) % M
           q == (x + 1) \div M
<1>1. a \in 0..M - 1 /\ x = M * p + a /\ p \in Int
  BY ModParts
<1>2. b \in 0..M - 1 /\ x + 1 = M * q + b /\ q \in Int
  BY x + 1 \in Int, ModParts
<1> HIDE DEF a, p, b, q
<1>3. a + 1 \in Int /\ q - p \in Int /\ a + 1 = M * (q - p) + b
  BY <1>1, <1>2
<1>4. (a + 1) % M = b
  BY <1>2, <1>3, Remainder
<1> QED BY <1>4 DEF a, b

LEMMA PlaybackDecodeKeeps ==
  ASSUME AudioInv, PlaybackDecode
  PROVE  AudioInv'
<1> DEFINE f == Head(packets)
           t == Trimmed(samples, FrameSamples)
<1>1. /\ packets # <<>> /\ ~Behind(f) /\ packets' = Tail(packets)
      /\ expected' = ((f[2] % SequenceModulus) + 1) % SequenceModulus /\ lastDecoded' = f
      /\ samples' = Trimmed(samples, Len(Decoded(f))) \o Decoded(f)
      /\ UNCHANGED <<hostVars, net, configured, playing, started, phase>>
  BY DEF PlaybackDecode, Wire
<1>2. /\ Tail(packets) \in Seq(Nat \X Nat) /\ Len(Tail(packets)) = Len(packets) - 1
      /\ \A k \in DOMAIN Tail(packets) : Tail(packets)[k] \in Flying
      /\ f \in Nat \X Nat /\ f \in Flying
  BY <1>1, TailWaits DEF AudioInv
<1>3. Len(Decoded(f)) = FrameSamples
  <2>1. FrameSamples \in Nat /\ Decoded(f) = [i \in 1..FrameSamples |-> <<f[1], f[2], i>>]
    BY FrameIsGroups DEF Decoded, FrameSamples
  <2> QED BY <2>1
<1> HIDE DEF f
<1>4. f[2] \in Nat /\ SequenceModulus \in Nat \ {0} /\ f[2] + 1 \in Int
  BY <1>2, AudioAssumption
<1>5. /\ expected' = (f[2] + 1) % SequenceModulus
      /\ expected' \in 0..SequenceModulus - 1
  <2>1. expected' = (f[2] + 1) % SequenceModulus
    BY <1>1, <1>4, NextOnWire
  <2>2. (f[2] + 1) % SequenceModulus \in 0..SequenceModulus - 1
    BY <1>4, ModParts
  <2> QED BY <2>1, <2>2
<1>6. /\ InOrder(samples) /\ Len(samples) <= MaxSamples
      /\ samples # <<>> =>
           /\ expected # AnyNumber
           /\ samples[Len(samples)] = <<lastDecoded[1], lastDecoded[2], FrameSamples>>
  BY DEF AudioInv, BufferOK, AudioTypeOK
<1>7. /\ InOrder(t) /\ Len(t) <= MaxSamples - FrameSamples
      /\ t # <<>> => samples # <<>> /\ t[Len(t)] = samples[Len(samples)]
  BY <1>6, TrimmedFits
<1>8. samples' = t \o Decoded(f)
  BY <1>1, <1>3
<1> HIDE DEF t
<1>9. t # <<>> => /\ t[Len(t)][3] = FrameSamples
                  /\ t[Len(t)][1] = f[1] => t[Len(t)][2] < f[2]
  <2> SUFFICES ASSUME t # <<>>
               PROVE  /\ t[Len(t)][3] = FrameSamples
                      /\ t[Len(t)][1] = f[1] => t[Len(t)][2] < f[2]
    OBVIOUS
  <2>1. t[Len(t)] = <<lastDecoded[1], lastDecoded[2], FrameSamples>> /\ expected # AnyNumber
    BY <1>6, <1>7
  <2>2. lastDecoded[1] = f[1] => lastDecoded[2] < f[2]
    <3>1. lastDecoded[2] \in Nat
      BY <2>1 DEF AudioInv, LastOK
    <3>2. lastDecoded[1] = f[1] => ~(f[2] <= lastDecoded[2])
      BY <1>1, <2>1, BehindIsLate DEF f
    <3> QED BY <1>4, <3>1, <3>2
  <2> QED BY <2>1, <2>2
<1>10. /\ InOrder(samples') /\ Len(samples') = Len(t) + FrameSamples
       /\ samples' # <<>> /\ samples'[Len(samples')] = <<f[1], f[2], FrameSamples>>
  BY <1>2, <1>7, <1>8, <1>9, FrameAdded
<1>11. Len(samples') <= MaxSamples
  <2>1. Len(t) \in Nat
    BY <1>7, LenProperties DEF InOrder
  <2> QED BY <1>7, <1>10, <2>1, FrameIsGroups
<1>12. Len(packets') <= PacketQueue
  <2>1. Len(packets) \in Nat /\ Len(packets) <= PacketQueue /\ PacketQueue \in Nat
    BY AudioAssumption, LenProperties DEF AudioInv, AudioTypeOK, PacketsOK
  <2> QED BY <1>1, <1>2, <2>1
<1>13. AudioTypeOK'
  BY <1>1, <1>5, <1>11, <1>12 DEF AudioInv, AudioTypeOK, hostVars
<1>14. CaptureOK' /\ NetworkOK' /\ PacketsOK'
  BY <1>1, <1>2 DEF AudioInv, CaptureOK, NetworkOK, PacketsOK, hostVars
<1>15. Flying' \subseteq Flying
  <2>1. \A d \in net' : d.packet.kind = "audio" => d.packet.payload \in Flying
    BY <1>1, FlyingOf DEF Flying
  <2>2. \A k \in DOMAIN packets' : packets'[k] \in Flying
    BY <1>1, <1>2
  <2> QED BY <2>1, <2>2, FlyingShrinks DEF Flying
<1>16. FramesOK' /\ WindowOK'
  BY <1>1, <1>15, FewerFrames DEF AudioInv, hostVars
<1>17. LastOK'
  <2>1. f[1] <= hostRun /\ (f[1] = hostRun => f[2] < sequence)
    BY <1>2 DEF AudioInv, FramesOK
  <2>2. ASSUME NEW g \in Flying', g[1] = f[1]
        PROVE  f[2] + 1 - g[2] <= HalfSpace /\ g[2] - f[2] <= HalfSpace
    <3>1. g \in Flying
      BY <1>15
    <3>2. f[2] + 1 - g[2] <= HalfSpace /\ g[2] + 1 - f[2] <= HalfSpace
      BY <1>2, <2>2, <3>1 DEF AudioInv, WindowOK
    <3>3. g[2] \in Nat /\ HalfSpace \in Nat /\ f[2] \in Nat
      <4>1. g \in Nat \X Nat
        BY <3>1 DEF AudioInv, FramesOK
      <4>2. SequenceModulus \in Nat
        BY AudioAssumption
      <4>3. HalfSpace \in Nat
        BY <4>2 DEF HalfSpace
      <4> QED BY <1>4, <4>1, <4>3
    <3> DEFINE x == f[2]
               y == g[2]
               z == HalfSpace
    <3>4. x \in Nat /\ y \in Nat /\ z \in Nat /\ x + 1 - y <= z /\ y + 1 - x <= z
      BY <3>2, <3>3
    <3> HIDE DEF x, y, z
    <3>5. x + 1 - y <= z /\ y - x <= z
      BY <3>4
    <3> QED BY <3>5 DEF x, y, z
  <2> QED BY <1>1, <1>2, <1>5, <2>1, <2>2 DEF LastOK, hostVars
<1>18. BufferOK'
  <2>1. expected' # AnyNumber
    BY <1>4, <1>5 DEF AnyNumber
  <2> QED BY <1>1, <1>10, <2>1 DEF BufferOK
<1> QED BY <1>13, <1>14, <1>16, <1>17, <1>18 DEF AudioInv

LEMMA OutputKeeps ==
  ASSUME AudioInv, WriteOutput
  PROVE  AudioInv'
<1>1. UNCHANGED <<hostVars, net, configured, playing, packets, threadVars>>
  BY DEF WriteOutput, OutputSilence, OutputPlay
<1>2. started' \in BOOLEAN /\ phase' \in 0..RatioDen - 1
  <2>1. phase \in 0..RatioDen - 1 /\ started \in BOOLEAN
    BY DEF AudioInv, AudioTypeOK
  <2>2. RatioDen \in Nat \ {0} /\ RatioNum \in Nat
    BY AudioAssumption
  <2>3. CASE OutputSilence
    <3>1. started' = FALSE /\ (phase' = 0 \/ phase' = phase)
      BY <2>3 DEF OutputSilence
    <3>2. 0 \in 0..RatioDen - 1 /\ phase' \in 0..RatioDen - 1
      BY <2>1, <2>2, <3>1
    <3>3. started' \in BOOLEAN
      BY <3>1
    <3> QED BY <3>2, <3>3
  <2>4. CASE OutputPlay
    <3> DEFINE from == IF started THEN phase ELSE 0
    <3>1. from \in Int /\ from + RatioNum \in Int
      BY <2>1, <2>2
    <3>2. (from + RatioNum) % RatioDen \in 0..RatioDen - 1
      BY <2>2, <3>1, ModParts
    <3>3. started' \in BOOLEAN /\ (phase' = 0 \/ phase' = (from + RatioNum) % RatioDen)
      BY <2>4 DEF OutputPlay
    <3> DEFINE left == (from + RatioNum) % RatioDen
    <3>4. left \in 0..(RatioDen - 1) /\ (phase' = 0 \/ phase' = left)
      BY <3>2, <3>3
    <3> HIDE DEF left
    <3> QED BY <2>2, <3>3, <3>4
  <2> QED BY <2>3, <2>4 DEF WriteOutput
<1>3. \E n \in Nat : n % Channels = 0
                     /\ (samples' = samples \/ samples' = SubSeq(samples, n + 1, Len(samples)))
  <2>1. CASE samples' = samples
    BY <2>1, FrameIsGroups
  <2>2. CASE OutputPlay /\ samples' # samples
    <3> DEFINE from == IF started THEN phase ELSE 0
               consumed == (from + RatioNum) \div RatioDen
    <3>1. samples' = SubSeq(samples, consumed * Channels + 1, Len(samples))
      BY <2>2 DEF OutputPlay
    <3>2. consumed \in Nat
      <4>1. phase \in 0..RatioDen - 1 /\ RatioDen \in Nat \ {0} /\ RatioNum \in Nat
        BY AudioAssumption DEF AudioInv, AudioTypeOK
      <4>2. from + RatioNum \in Nat
        BY <4>1
      <4> DEFINE x == from + RatioNum
                 d == x \div RatioDen
                 m == x % RatioDen
      <4>3. m \in 0..RatioDen - 1 /\ x = RatioDen * d + m /\ d \in Int
        <5>1. x \in Int
          BY <4>2
        <5> HIDE DEF x
        <5> QED BY <4>1, <5>1, ModParts
      <4>4. d \in Nat
        <5> HIDE DEF x, d, m
        <5> SUFFICES ASSUME d <= -1 PROVE FALSE
          BY <4>3
        <5>1. RatioDen * d <= -RatioDen /\ RatioDen * d \in Int
          BY <4>1, <4>3
        <5> QED BY <4>1, <4>2, <4>3, <5>1 DEF x
      <4> QED BY <4>4
    <3> HIDE DEF consumed
    <3>3. consumed * Channels \in Nat /\ (consumed * Channels) % Channels = 0
      <4>1. CASE Channels = 1
        BY <3>2, <4>1
      <4>2. CASE Channels = 2
        BY <3>2, <4>2
      <4> QED BY <4>1, <4>2, FrameIsGroups
    <3> QED BY <3>1, <3>3
  <2>3. CASE OutputSilence
    BY <2>1, <2>3 DEF OutputSilence
  <2> QED BY <2>1, <2>2, <2>3 DEF WriteOutput
<1>4. /\ InOrder(samples') /\ Len(samples') <= Len(samples)
      /\ samples' # <<>> => samples # <<>> /\ samples'[Len(samples')] = samples[Len(samples)]
  <2>1. InOrder(samples) /\ Len(samples) \in Nat
    BY LenProperties DEF AudioInv, BufferOK, InOrder
  <2>2. PICK n \in Nat : n % Channels = 0
          /\ (samples' = samples \/ samples' = SubSeq(samples, n + 1, Len(samples)))
    BY <1>3
  <2>3. CASE samples' = samples
    BY <2>1, <2>3
  <2>4. CASE samples' = SubSeq(samples, n + 1, Len(samples))
    <3> DEFINE t == SubSeq(samples, n + 1, Len(samples))
    <3>1. /\ InOrder(t) /\ Len(t) = IF n <= Len(samples) THEN Len(samples) - n ELSE 0
          /\ t # <<>> => samples # <<>> /\ t[Len(t)] = samples[Len(samples)]
      BY <2>1, <2>2, BufferEaten
    <3> HIDE DEF t
    <3>2. Len(t) <= Len(samples)
      BY <2>1, <2>2, <3>1
    <3> QED BY <2>4, <3>1, <3>2 DEF t
  <2> QED BY <2>2, <2>3, <2>4
<1>5. Len(samples') <= MaxSamples
  <2>1. Len(samples) \in Nat /\ Len(samples') \in Nat /\ Len(samples) <= MaxSamples
        /\ MaxSamples \in Nat
    BY <1>4, LenProperties, AudioAssumption DEF AudioInv, BufferOK, InOrder, AudioTypeOK
  <2> QED BY <1>4, <2>1
<1>6. AudioTypeOK'
  BY <1>1, <1>2, <1>5 DEF AudioInv, AudioTypeOK, hostVars, threadVars
<1>7. CaptureOK' /\ NetworkOK' /\ PacketsOK'
  BY <1>1 DEF AudioInv, CaptureOK, NetworkOK, PacketsOK, hostVars
<1>8. Flying' \subseteq Flying
  BY <1>1 DEF Flying
<1>9. FramesOK' /\ WindowOK'
  BY <1>1, <1>8, FewerFrames DEF AudioInv, hostVars
<1>10. LastOK'
  BY <1>1, <1>8, FewerAroundLast DEF AudioInv, hostVars
<1>11. BufferOK'
  BY <1>1, <1>4 DEF AudioInv, BufferOK, threadVars
<1> QED BY <1>6, <1>7, <1>9, <1>10, <1>11 DEF AudioInv

LEMMA AudioStutters ==
  ASSUME AudioInv, UNCHANGED audioVars
  PROVE  AudioInv'
<1>1. UNCHANGED <<hostVars, net, configured, playing, packets, threadVars, outputVars>>
  BY DEF audioVars
<1>2. NetworkOK'
  BY <1>1 DEF AudioInv, NetworkOK
<1> QED BY <1>1, <1>2, NetworkChanges

\* Every step keeps the invariant.
LEMMA AudioSteps ==
  ASSUME AudioInv, [AudioNext]_audioVars
  PROVE  AudioInv'
<1>1. CASE UNCHANGED audioVars
  BY <1>1, AudioStutters
<1>2. CASE Host
  BY <1>2, SetPeerKeeps, CaptureCallbackKeeps, CaptureUnheardKeeps, CaptureSendKeeps,
     RestartHostKeeps DEF Host
<1>3. CASE Network
  BY <1>3, SendOtherKeeps, LoseDatagramKeeps, ViewerReceiveKeeps DEF Network
<1>4. CASE Playback
  <2>1. CASE PlaybackSkip
    BY <2>1, FrameDropped DEF PlaybackSkip
  <2>2. CASE DecodeFails
    BY <2>2, FrameDropped DEF DecodeFails
  <2> QED BY <1>4, <2>1, <2>2, ChangeDeviceKeeps, PlaybackFailsKeeps, PlaybackDecodeKeeps
      DEF Playback
<1>5. CASE WriteOutput
  BY <1>5, OutputKeeps
<1> QED BY <1>1, <1>2, <1>3, <1>4, <1>5 DEF AudioNext

LEMMA AudioInvariant == AudioSpec => []AudioInv
<1>1. AudioInit => AudioInv
  BY AudioInitOK
<1>2. AudioInv /\ [AudioNext]_audioVars => AudioInv'
  BY AudioSteps
<1> QED BY <1>1, <1>2, PTL DEF AudioSpec

\* Every queue of the sound's path stays within its bound and every number
\* within its range, whatever the callbacks, the threads and the network do.
THEOREM AudioTypes == AudioSpec => []AudioTypeOK
<1>1. AudioInv => AudioTypeOK
  BY DEF AudioInv
<1> QED BY <1>1, AudioInvariant, PTL

\* What the output callback plays is the sound that was captured: forward in
\* time, each sample once and on its own channel, for every length of frame,
\* size of buffer and ratio of rates.
THEOREM SoundIsInOrder == AudioSpec => []PlayedInOrder
<1>1. AudioInv => PlayedInOrder
  <2> SUFFICES ASSUME AudioInv PROVE PlayedInOrder
    OBVIOUS
  <2>1. InOrder(samples)
    BY DEF AudioInv, BufferOK
  <2>2. /\ PlayedForward /\ (samples # <<>> => (samples[1][3] - 1) % Channels = 0)
    BY <2>1, InOrderIsPlayed DEF PlayedForward
  <2>3. Len(samples) % Channels = 0
    BY <2>1 DEF InOrder
  <2> QED BY <2>2, <2>3 DEF PlayedInOrder, ChannelsAligned
<1> QED BY <1>1, AudioInvariant, PTL

\* A frame of the host that is playing is left out only when a later one was
\* decoded before it, also where the number on the wire wraps around.
THEOREM OnlyLateIsSkipped == AudioSpec => []SkippedIsLate
<1>1. AudioInv => SkippedIsLate
  <2> SUFFICES ASSUME AudioInv, packets # <<>>, Behind(Head(packets)),
                      Head(packets)[1] = lastDecoded[1]
               PROVE  Head(packets)[2] <= lastDecoded[2]
    BY DEF SkippedIsLate
  <2>1. expected # AnyNumber
    BY DEF Behind
  <2> QED BY <2>1, BehindIsLate
<1> QED BY <1>1, AudioInvariant, PTL

\* Whatever packet is on the network, of any kind and with any numbers in it, the
\* parser reads what its sender wrote; an older host's shorter statistics are
\* read as the fields it sent, with zeros for the rest.
THEOREM PacketsAreReadBack == AudioSpec => []ReceivedAsSent
<1>1. AudioInv => ReceivedAsSent
  BY DatagramIsRead DEF AudioInv, NetworkOK, ReceivedAsSent
<1> QED BY <1>1, AudioInvariant, PTL

----------------------------------------------------------------------------
(* MacVideo.                                                               *)


USE InFlightAssumption

\* Nothing of VideoToolbox outlives the hardware pipeline.
FallbackIsEmpty == stage # "hardware" => vt = <<>> /\ out = <<>>

\* A frame goes to a former viewer only while the present one was sent nothing.
StrayIsGap == pc = "stray" => receiver = "gap"

\* Once the encoder refers to what was not sent, no keyframe of before is
\* left to be received.
BrokenHasNoKey == chain = "broken" => \A i \in DOMAIN out : out[i].kind # "key"

MacInv ==
  /\ MacTypeOK /\ OutstandingExact
  /\ FallbackIsEmpty /\ StrayIsGap /\ BrokenHasNoKey /\ DropIsRepaired

\* MacTypeOK in two parts.
Flags ==
  /\ running \in BOOLEAN /\ watched \in BOOLEAN /\ asking \in BOOLEAN
  /\ force \in BOOLEAN /\ slot \in BOOLEAN /\ progress \in BOOLEAN
  /\ submittedAny \in BOOLEAN /\ intra \in BOOLEAN /\ slip \in BOOLEAN

Shapes ==
  /\ stage \in {"hardware", "software", "ended"}
  /\ pc \in {"open", "top", "receive", "take", "loop", "bottom", "complete", "last", "start",
             "idle", "wait", "encode", "stray", "done", "ended"}
  /\ outstanding \in 0..InFlight
  /\ vt \in Seq(BOOLEAN)
  /\ out \in Seq(Output)
  /\ chain \in {"none", "whole", "broken"} /\ receiver \in {"whole", "gap", "old", "uncertain"}
  /\ capture \in {"none", "build", "top", "grab", "ended"}

\* The two parts are the whole,
LEMMA TypeParts == MacTypeOK <=> Flags /\ Shapes
BY Zenon DEF MacTypeOK, Flags, Shapes

\* also in the next state.
LEMMA TypePartsNext == MacTypeOK' <=> Flags' /\ Shapes'
BY Zenon DEF MacTypeOK, Flags, Shapes

----------------------------------------------------------------------------
(* Sequences.                                                              *)

\* What Lose leaves: the same frames of the same kinds, and a chain that is
\* broken unless a keyframe is among them.
LEMMA LoseShape ==
  ASSUME NEW rest \in Seq(Output), chain \in {"none", "whole", "broken"}, Lose(rest)
  PROVE  /\ out' \in Seq(Output) /\ Len(out') = Len(rest)
         /\ chain' \in {"none", "whole", "broken"}
         /\ \A i \in DOMAIN out' : i \in DOMAIN rest /\ out'[i].kind = rest[i].kind
         /\ chain' = "broken" =>
              chain = "broken" \/ \A i \in DOMAIN rest : rest[i].kind # "key"
<1> DEFINE Keys == {i \in DOMAIN rest : rest[i].kind = "key"}
           Marked(i) == IF rest[i].kind = "delta" /\ ~\E k \in Keys : k < i
                        THEN [rest[i] EXCEPT !.broken = TRUE] ELSE rest[i]
<1>1. out' = [i \in DOMAIN rest |-> Marked(i)]
      /\ chain' = IF Keys = {} THEN "broken" ELSE chain
  BY Zenon DEF Lose
<1>2. DOMAIN rest = 1..Len(rest) /\ Len(rest) \in Nat
  OBVIOUS
<1>3. \A i \in DOMAIN rest : rest[i] \in Output
  OBVIOUS
<1>4. ASSUME NEW i \in DOMAIN rest
      PROVE  Marked(i) \in Output /\ Marked(i).kind = rest[i].kind
  <2>1. rest[i] \in Output
    BY <1>3
  <2>2. [rest[i] EXCEPT !.broken = TRUE] \in Output
        /\ [rest[i] EXCEPT !.broken = TRUE].kind = rest[i].kind
    BY <2>1 DEF Output
  <2> QED
    BY <2>1, <2>2
<1> HIDE DEF Marked
<1>5. out' \in [1..Len(rest) -> Output]
  BY <1>1, <1>2, <1>4
<1>6. out' \in Seq(Output) /\ Len(out') = Len(rest)
  BY <1>5, <1>2
<1>7. \A i \in DOMAIN out' : i \in DOMAIN rest /\ out'[i].kind = rest[i].kind
  BY <1>1, <1>4
<1> QED
  BY <1>1, <1>6, <1>7

\* What the tail of a sequence holds.
LEMMA TailShape ==
  ASSUME NEW S, NEW s \in Seq(S), s # <<>>
  PROVE  /\ Tail(s) \in Seq(S) /\ Len(Tail(s)) = Len(s) - 1 /\ Len(s) \in Nat \ {0}
         /\ Head(s) = s[1] /\ Head(s) \in S
         /\ DOMAIN s = 1..Len(s) /\ DOMAIN Tail(s) = 1..(Len(s) - 1)
         /\ \A i \in DOMAIN Tail(s) : i + 1 \in DOMAIN s /\ Tail(s)[i] = s[i + 1]
         /\ \A i \in DOMAIN s : i = 1 \/ (i - 1 \in DOMAIN Tail(s) /\ Tail(s)[i - 1] = s[i])
OBVIOUS

\* What a sequence with one more element holds.
LEMMA AppendShape ==
  ASSUME NEW S, NEW s \in Seq(S), NEW e \in S
  PROVE  /\ Append(s, e) \in Seq(S) /\ Len(Append(s, e)) = Len(s) + 1 /\ Len(s) \in Nat
         /\ Len(s) + 1 \in DOMAIN Append(s, e) /\ Append(s, e)[Len(s) + 1] = e
         /\ \A i \in DOMAIN s : i \in DOMAIN Append(s, e) /\ Append(s, e)[i] = s[i]
         /\ \A i \in DOMAIN Append(s, e) : i = Len(s) + 1 \/ (i \in DOMAIN s /\ Append(s, e)[i] = s[i])
OBVIOUS

----------------------------------------------------------------------------
(* One lemma per group of actions.                                         *)

\* The network thread and the capture callback move no frame.
LEMMA ControlStep ==
  ASSUME MacInv, Connect \/ AskKeyframe \/ Disconnect \/ Stop \/ Sample
  PROVE  MacInv'
<1> USE DEF control, encoder, history
<1>1. UNCHANGED <<outstanding, vt, out, chain, intra, stage, submittedAny, slip>>
  BY DEF Connect, AskKeyframe, Disconnect, Stop, Sample
<1>2. \/ pc' = pc /\ receiver' = receiver /\ (force' = force \/ force' = TRUE)
      \/ pc' \in {pc, "stray"} /\ receiver' = "gap" /\ force' = force
         /\ (pc' # pc => pc = "encode")
  <2>1. CASE Connect
    BY <2>1 DEF Connect
  <2>2. CASE AskKeyframe \/ Disconnect \/ Stop \/ Sample
    BY <2>2 DEF AskKeyframe, Disconnect, Stop, Sample
  <2> QED
    BY <2>1, <2>2
<1>3. MacTypeOK'
  <2>1. /\ running' \in BOOLEAN /\ watched' \in BOOLEAN /\ asking' \in BOOLEAN
        /\ force' \in BOOLEAN /\ slot' \in BOOLEAN /\ progress' \in BOOLEAN
    <3>1. /\ running \in BOOLEAN /\ watched \in BOOLEAN /\ asking \in BOOLEAN
          /\ force \in BOOLEAN /\ slot \in BOOLEAN /\ progress \in BOOLEAN
      BY DEF MacInv, MacTypeOK
    <3>2. CASE Connect
      BY <3>1, <3>2 DEF Connect
    <3>3. CASE AskKeyframe
      BY <3>1, <3>3 DEF AskKeyframe
    <3>4. CASE Disconnect
      BY <3>1, <3>4 DEF Disconnect
    <3>5. CASE Stop
      BY <3>1, <3>5 DEF Stop
    <3>6. CASE Sample
      BY <3>1, <3>6 DEF Sample
    <3> QED
      BY <3>2, <3>3, <3>4, <3>5, <3>6
  <2>2. capture' = capture
    BY DEF Connect, AskKeyframe, Disconnect, Stop, Sample
  <2> QED
    BY <1>1, <1>2, <2>1, <2>2 DEF MacInv, MacTypeOK
<1>4. OutstandingExact' /\ FallbackIsEmpty' /\ BrokenHasNoKey'
  BY <1>1 DEF MacInv, OutstandingExact, FallbackIsEmpty, BrokenHasNoKey
<1>5. StrayIsGap'
  BY <1>2 DEF MacInv, StrayIsGap
<1>6. DropIsRepaired'
  BY <1>1, <1>2, Zenon DEF MacInv, DropIsRepaired, RepairUnderWay
<1> QED
  BY <1>3, <1>4, <1>5, <1>6 DEF MacInv

\* The answer for the oldest frame: what VideoToolbox holds and what its
\* channel holds are as many as before, and an IDR that was asked for is a
\* keyframe in the channel, or the channel says that nothing came of it.
LEMMA CallbackStep ==
  ASSUME MacInv, Callback
  PROVE  MacInv'
<1> USE DEF control, encoder, history
<1>1. /\ vt # <<>> /\ vt' = Tail(vt)
      /\ UNCHANGED <<control, force, slot, stage, pc, progress, outstanding, submittedAny,
                     intra, capture, history>>
  BY DEF Callback
<1>2. PICK answer \in {"key", "delta", "empty", "error"} :
        /\ Answer(answer)
        /\ answer = "delta" => ~(Head(vt) \/ chain = "none")
        /\ answer = "key" => Head(vt) \/ chain = "none"
  BY DEF Callback
<1> DEFINE frame == [kind |-> answer, broken |-> answer = "delta" /\ chain = "broken"]
<1>3. frame \in Output /\ frame.kind = answer
  BY DEF Output
<1>4. out' = Append(out, frame) /\ chain' = IF answer = "key" THEN "whole" ELSE chain
  BY <1>2 DEF Answer
<1> HIDE DEF frame
<1>5. vt \in Seq(BOOLEAN) /\ out \in Seq(Output)
  BY DEF MacInv, MacTypeOK
<1>6. /\ vt' \in Seq(BOOLEAN) /\ Len(vt') = Len(vt) - 1 /\ Len(vt) \in Nat
      /\ Head(vt) = vt[1]
      /\ \A i \in DOMAIN vt : i = 1 \/ (i - 1 \in DOMAIN vt' /\ vt'[i - 1] = vt[i])
  BY <1>1, <1>5, TailShape
<1>7. /\ out' \in Seq(Output) /\ Len(out') = Len(out) + 1 /\ Len(out) \in Nat
      /\ Len(out) + 1 \in DOMAIN out' /\ out'[Len(out) + 1] = frame
      /\ \A i \in DOMAIN out : i \in DOMAIN out' /\ out'[i] = out[i]
      /\ \A i \in DOMAIN out' : i = Len(out) + 1 \/ (i \in DOMAIN out /\ out'[i] = out[i])
  BY <1>3, <1>4, <1>5, AppendShape
<1>8. MacTypeOK'
  BY <1>1, <1>4, <1>6, <1>7 DEF MacInv, MacTypeOK
<1>9. OutstandingExact'
  BY <1>1, <1>6, <1>7 DEF MacInv, OutstandingExact
<1>10. FallbackIsEmpty' /\ StrayIsGap'
  BY <1>1 DEF MacInv, FallbackIsEmpty, StrayIsGap
<1>11. BrokenHasNoKey'
  <2> SUFFICES ASSUME chain' = "broken", NEW i \in DOMAIN out', out'[i].kind = "key"
               PROVE  FALSE
    BY DEF BrokenHasNoKey
  <2>1. answer # "key" /\ chain = "broken"
    BY <1>4
  <2>2. i # Len(out) + 1
    BY <1>3, <1>7, <2>1
  <2>3. i \in DOMAIN out /\ out[i].kind = "key"
    BY <1>7, <2>2
  <2> QED
    BY <2>1, <2>3 DEF MacInv, BrokenHasNoKey
<1>12. DropIsRepaired'
  <2> SUFFICES ASSUME chain' = "broken", pc' # "last"
               PROVE  RepairUnderWay' \/ receiver' = "gap" \/ slip'
    BY DEF DropIsRepaired
  <2>1. answer # "key" /\ chain = "broken" /\ pc # "last"
    BY <1>1, <1>4
  <2>2. CASE answer \in {"empty", "error"}
    BY <1>3, <1>7, <2>2 DEF RepairUnderWay
  <2>3. CASE answer = "delta"
    <3>1. ~Head(vt)
      BY <1>2, <2>3
    <3>2. CASE \E i \in DOMAIN vt : vt[i]
      <4>1. PICK i \in DOMAIN vt : vt[i]
        BY <3>2
      <4>2. i # 1
        BY <1>6, <3>1, <4>1
      <4>3. i - 1 \in DOMAIN vt' /\ vt'[i - 1]
        BY <1>6, <4>1, <4>2
      <4> QED
        BY <4>3 DEF RepairUnderWay
    <3>3. CASE \E i \in DOMAIN out : out[i].kind \in {"empty", "error"}
      BY <1>7, <3>3 DEF RepairUnderWay
    <3>4. CASE force \/ intra \/ receiver = "gap" \/ slip
      BY <1>1, <3>4 DEF RepairUnderWay
    <3> QED
      BY <2>1, <3>2, <3>3, <3>4 DEF MacInv, DropIsRepaired, RepairUnderWay
  <2> QED
    BY <2>1, <2>2, <2>3
<1> QED
  BY <1>8, <1>9, <1>10, <1>11, <1>12 DEF MacInv

\* With the pipeline goes all that it knew of its encoder.
LEMMA ClosedStep ==
  ASSUME MacInv, Failed \/ PipelineEnds
  PROVE  MacInv'
<1> USE DEF control, history
<1>1. /\ vt' = <<>> /\ out' = <<>> /\ outstanding' = 0 /\ progress' = FALSE
      /\ slot' = FALSE /\ submittedAny' = FALSE /\ chain' = "none"
      /\ UNCHANGED <<control, force, intra, slip>>
      /\ stage' \in {"software", "ended"} /\ pc' \in {"start", "ended"}
      /\ capture' \in {capture, "build"} /\ receiver' \in {receiver, "old"}
  BY DEF Failed, PipelineEnds, Close
<1>2. MacTypeOK'
  <2>1. <<>> \in Seq(BOOLEAN) /\ <<>> \in Seq(Output)
    OBVIOUS
  <2>2. Flags'
    BY <1>1, TypeParts DEF MacInv, Flags
  <2>3. Shapes'
    BY <1>1, <2>1, TypeParts DEF MacInv, Shapes
  <2> QED
    BY <2>2, <2>3, TypePartsNext
<1>3. OutstandingExact'
  <2>1. Len(<<>>) = 0
    OBVIOUS
  <2> QED
    BY <1>1, <2>1 DEF OutstandingExact
<1>4. FallbackIsEmpty' /\ StrayIsGap' /\ BrokenHasNoKey' /\ DropIsRepaired'
  BY <1>1 DEF FallbackIsEmpty, StrayIsGap, BrokenHasNoKey, DropIsRepaired
<1> QED
  BY <1>2, <1>3, <1>4 DEF MacInv

\* Steps of the pipeline thread that move no frame.
LEMMA PacingStep ==
  ASSUME MacInv, Open \/ LoopTop \/ ReceivedAll \/ TakeNothing \/ Loop \/ WaitOver \/ Complete
  PROVE  MacInv'
<1> USE DEF control, encoder, history, hardwareOnly
<1>1. CASE Failed
  BY <1>1, ClosedStep
<1>2. CASE ~Failed
  <2>1. /\ UNCHANGED <<control, stage, vt, intra, capture, slip, outstanding, submittedAny,
                       chain, out, receiver>>
        /\ force' \in {force, TRUE} /\ slot' \in {slot, FALSE} /\ progress' \in {progress, TRUE, FALSE}
        /\ pc # "last"
        /\ pc' \in {"top", "receive", "take", "loop", "bottom", "complete", "last"}
    <3>1. CASE Open
      BY <1>2, <3>1 DEF Open
    <3>2. CASE LoopTop
      BY <3>2 DEF LoopTop
    <3>3. CASE ReceivedAll
      BY <3>3 DEF ReceivedAll
    <3>4. CASE TakeNothing
      BY <3>4 DEF TakeNothing
    <3>5. CASE Loop
      BY <3>5 DEF Loop
    <3>6. CASE WaitOver
      BY <3>6 DEF WaitOver
    <3>7. CASE Complete
      BY <1>2, <3>7 DEF Complete
    <3> QED
      BY <3>1, <3>2, <3>3, <3>4, <3>5, <3>6, <3>7
  <2>2. MacTypeOK'
    <3>1. Flags'
      BY <2>1, TypeParts DEF MacInv, Flags
    <3>2. Shapes'
      BY <2>1, TypeParts DEF MacInv, Shapes
    <3> QED
      BY <3>1, <3>2, TypePartsNext
  <2>3. OutstandingExact' /\ FallbackIsEmpty' /\ BrokenHasNoKey'
    BY <2>1 DEF MacInv, OutstandingExact, FallbackIsEmpty, BrokenHasNoKey
  <2>4. StrayIsGap'
    BY <2>1 DEF StrayIsGap
  <2>5. DropIsRepaired'
    <3>1. RepairUnderWay => RepairUnderWay'
      BY <2>1 DEF RepairUnderWay
    <3> QED
      BY <2>1, <3>1 DEF MacInv, DropIsRepaired
  <2> QED
    BY <2>2, <2>3, <2>4, <2>5 DEF MacInv
<1> QED
  BY <1>1, <1>2

\* A request that is taken is taken by the frame that is submitted with it.
LEMMA SubmitStep ==
  ASSUME MacInv, Submit
  PROVE  MacInv'
<1> USE DEF control, encoder, history
<1>1. CASE Failed
  BY <1>1, ClosedStep
<1>2. CASE ~Failed
  <2> DEFINE idr == force \/ ~submittedAny
  <2>1. /\ stage = "hardware" /\ pc = "take" /\ outstanding < InFlight
        /\ vt' = Append(vt, idr) /\ force' = FALSE
        /\ slot' = FALSE /\ progress' = TRUE /\ submittedAny' = TRUE
        /\ outstanding' = outstanding + 1 /\ pc' = "loop"
        /\ UNCHANGED <<control, stage, intra, capture, history, chain, out>>
    BY <1>2 DEF Submit
  <2>2. vt \in Seq(BOOLEAN) /\ idr \in BOOLEAN
    BY DEF MacInv, MacTypeOK
  <2>3. force => idr
    OBVIOUS
  <2> HIDE DEF idr
  <2>4. /\ vt' \in Seq(BOOLEAN) /\ Len(vt') = Len(vt) + 1 /\ Len(vt) \in Nat
        /\ Len(vt) + 1 \in DOMAIN vt' /\ vt'[Len(vt) + 1] = idr
        /\ \A i \in DOMAIN vt : i \in DOMAIN vt' /\ vt'[i] = vt[i]
    BY <2>1, <2>2, AppendShape
  <2>5. MacTypeOK'
    <3>1. Flags'
      BY <2>1, TypeParts DEF MacInv, Flags
    <3>2. Shapes'
      BY <2>1, <2>4, TypeParts DEF MacInv, Shapes
    <3> QED
      BY <3>1, <3>2, TypePartsNext
  <2>6. OutstandingExact'
    <3>1. Len(out) \in Nat /\ out' = out
      BY <2>1 DEF MacInv, MacTypeOK
    <3> QED
      BY <2>1, <2>4, <3>1 DEF MacInv, OutstandingExact
  <2>7. FallbackIsEmpty' /\ StrayIsGap' /\ BrokenHasNoKey'
    BY <2>1 DEF MacInv, FallbackIsEmpty, StrayIsGap, BrokenHasNoKey
  <2>8. RepairUnderWay => RepairUnderWay'
    <3>1. CASE force
      BY <2>3, <2>4, <3>1 DEF RepairUnderWay
    <3>2. CASE \E i \in DOMAIN vt : vt[i]
      BY <2>4, <3>2 DEF RepairUnderWay
    <3>3. CASE intra \/ \E i \in DOMAIN out : out[i].kind \in {"empty", "error"}
      BY <2>1, <3>3 DEF RepairUnderWay
    <3> QED
      BY <3>1, <3>2, <3>3 DEF RepairUnderWay
  <2>9. DropIsRepaired'
    BY <2>1, <2>8 DEF MacInv, DropIsRepaired
  <2> QED
    BY <2>5, <2>6, <2>7, <2>9 DEF MacInv
<1> QED
  BY <1>1, <1>2

\* A frame that is received is sent, or lost and an IDR asked for. One that is
\* sent while the chain is broken is no keyframe, so a gap is still seen.
LEMMA ReceiveStep ==
  ASSUME MacInv, Receive \/ Unpackable
  PROVE  MacInv'
<1> USE DEF control, history, hardwareOnly
<1>1. CASE Failed
  BY <1>1, ClosedStep
<1>2. CASE ~Failed
  <2> DEFINE frame == Head(out)
             rest == Tail(out)
  <2>1. /\ stage = "hardware" /\ pc \in {"receive", "bottom"} /\ outstanding > 0
        /\ out # <<>> /\ frame.kind # "error" /\ outstanding' = outstanding - 1
        /\ Process(frame, rest)
        /\ pc' \in {"receive", "top"} /\ progress' = (pc = "receive")
        /\ UNCHANGED <<control, stage, vt, intra, capture, slip, slot, submittedAny>>
    BY <1>2 DEF Receive, Unpackable
  <2>2. out \in Seq(Output) /\ chain \in {"none", "whole", "broken"} /\ Len(vt) \in Nat
        /\ receiver \in {"whole", "gap", "old", "uncertain"}
    BY DEF MacInv, MacTypeOK
  <2>3. /\ rest \in Seq(Output) /\ Len(rest) = Len(out) - 1 /\ Len(out) \in Nat
        /\ frame = out[1] /\ frame \in Output /\ 1 \in DOMAIN out
        /\ \A i \in DOMAIN rest : i + 1 \in DOMAIN out /\ rest[i] = out[i + 1]
        /\ \A i \in DOMAIN out : i = 1 \/ (i - 1 \in DOMAIN rest /\ rest[i - 1] = out[i])
    BY <2>1, <2>2, TailShape
  <2>4. \/ force' = TRUE /\ out' = rest /\ chain' = chain /\ receiver' = receiver
        \/ force' = TRUE /\ Lose(rest) /\ receiver' \in {receiver, "gap", "old"}
        \/ /\ frame.kind # "empty" /\ out' = rest /\ force' = force /\ chain' = chain
           /\ Sent(frame)
    BY <2>1 DEF Process, Gap
  <2> HIDE DEF frame, rest
  <2>5. /\ out' \in Seq(Output) /\ Len(out') = Len(rest)
        /\ chain' \in {"none", "whole", "broken"} /\ force' \in {force, TRUE}
        /\ \A i \in DOMAIN out' : i \in DOMAIN rest /\ out'[i].kind = rest[i].kind
        /\ chain' = "broken" => chain = "broken" \/ \A i \in DOMAIN rest : rest[i].kind # "key"
    BY <2>2, <2>3, <2>4, LoseShape
  <2>6. receiver' \in {"whole", "gap", "old", "uncertain"}
    BY <2>2, <2>4 DEF Sent
  <2>7. MacTypeOK'
    <3>1. Flags'
      BY <2>1, <2>5, TypeParts DEF MacInv, Flags
    <3>2. outstanding' \in 0..InFlight
      BY <2>1, TypeParts DEF MacInv, Shapes
    <3>3. Shapes'
      BY <2>1, <2>5, <2>6, <3>2, TypeParts DEF MacInv, Shapes
    <3> QED
      BY <3>1, <3>3, TypePartsNext
  <2>8. OutstandingExact'
    BY <2>1, <2>2, <2>3, <2>5 DEF MacInv, OutstandingExact
  <2>9. FallbackIsEmpty' /\ StrayIsGap'
    BY <2>1 DEF FallbackIsEmpty, StrayIsGap
  <2>10. BrokenHasNoKey'
    <3> SUFFICES ASSUME chain' = "broken", NEW i \in DOMAIN out'
                 PROVE  out'[i].kind # "key"
      BY DEF BrokenHasNoKey
    <3>1. CASE chain = "broken"
      BY <2>3, <2>5, <3>1 DEF MacInv, BrokenHasNoKey
    <3> QED
      BY <2>5, <3>1
  <2>11. DropIsRepaired'
    <3>1. CASE force'
      BY <3>1 DEF DropIsRepaired, RepairUnderWay
    <3>2. CASE ~force'
      <4> SUFFICES ASSUME chain' = "broken"
                   PROVE  RepairUnderWay' \/ receiver' = "gap" \/ slip'
        BY DEF DropIsRepaired
      <4>1. /\ frame.kind # "empty" /\ out' = rest /\ force' = force /\ chain = "broken"
            /\ Sent(frame)
        BY <2>4, <3>2
      <4>2. frame.kind # "key"
        BY <2>3, <4>1 DEF MacInv, BrokenHasNoKey
      <4>3. receiver = "gap" => receiver' = "gap"
        BY <4>1, <4>2 DEF Sent
      <4>4. ASSUME NEW i \in DOMAIN out, out[i].kind \in {"empty", "error"}
            PROVE  RepairUnderWay'
        <5>1. i # 1
          BY <2>1, <2>3, <4>1, <4>4
        <5>2. i - 1 \in DOMAIN out' /\ out'[i - 1].kind \in {"empty", "error"}
          BY <2>3, <4>1, <4>4, <5>1
        <5> QED
          BY <5>2 DEF RepairUnderWay
      <4>5. RepairUnderWay => RepairUnderWay'
        <5>1. CASE intra \/ \E i \in DOMAIN vt : vt[i]
          BY <2>1, <5>1 DEF RepairUnderWay
        <5> QED
          BY <3>2, <4>1, <4>4, <5>1 DEF RepairUnderWay
      <4> QED
        BY <2>1, <4>1, <4>3, <4>5 DEF MacInv, DropIsRepaired
    <3> QED
      BY <3>1, <3>2
  <2> QED
    BY <2>7, <2>8, <2>9, <2>10, <2>11 DEF MacInv
<1> QED
  BY <1>1, <1>2

\* After the end of the session frames are received and not sent.
LEMMA LastStep ==
  ASSUME MacInv, LastReceived
  PROVE  MacInv'
<1> USE DEF control, history, hardwareOnly
<1>1. CASE Failed \/ PipelineEnds
  BY <1>1, ClosedStep
<1>2. CASE ~(Failed \/ PipelineEnds)
  <2>1. /\ stage = "hardware" /\ pc = "last" /\ outstanding > 0 /\ out # <<>>
        /\ outstanding' = outstanding - 1 /\ out' = Tail(out)
        /\ UNCHANGED <<control, stage, vt, intra, capture, slip, force, slot, pc, progress,
                       submittedAny, chain, receiver>>
    BY <1>2 DEF LastReceived
  <2>2. out \in Seq(Output) /\ Len(vt) \in Nat
    BY DEF MacInv, MacTypeOK
  <2>3. /\ out' \in Seq(Output) /\ Len(out') = Len(out) - 1 /\ Len(out) \in Nat
        /\ \A i \in DOMAIN out' : i + 1 \in DOMAIN out /\ out'[i] = out[i + 1]
    BY <2>1, <2>2, TailShape
  <2>4. MacTypeOK'
    <3>1. Flags'
      BY <2>1, TypeParts DEF MacInv, Flags
    <3>2. Shapes'
      BY <2>1, <2>3, TypeParts DEF MacInv, Shapes
    <3> QED
      BY <3>1, <3>2, TypePartsNext
  <2>5. OutstandingExact'
    BY <2>1, <2>2, <2>3 DEF MacInv, OutstandingExact
  <2>6. FallbackIsEmpty' /\ StrayIsGap' /\ DropIsRepaired'
    BY <2>1 DEF FallbackIsEmpty, StrayIsGap, DropIsRepaired
  <2>7. BrokenHasNoKey'
    BY <2>1, <2>3 DEF MacInv, BrokenHasNoKey
  <2> QED
    BY <2>4, <2>5, <2>6, <2>7 DEF MacInv
<1> QED
  BY <1>1, <1>2

\* The fallback sends what it codes at once; what it loses it repairs with
\* the next frame, or the viewer sees the gap, or it is the deviation slip.
LEMMA SoftwareStep ==
  ASSUME MacInv, Software
  PROVE  MacInv'
<1> USE DEF control, encoder, history, softwareIdle
<1>1. stage = "software" /\ vt = <<>> /\ out = <<>>
  BY DEF MacInv, FallbackIsEmpty, Software, SoftwareEncoder, CaptureTop, Grab, EncoderTop,
         NoSample, SkipSample, StartEncode, Coding, EncodeNothing, EncodeLate, EncodeFrame,
         SoftwareEnds
<1>2. /\ UNCHANGED <<control, progress, outstanding, vt, out>>
      /\ stage' \in {"software", "ended"}
  BY <1>1 DEF Software, SoftwareEncoder, CaptureTop, Grab, EncoderTop, NoSample, SkipSample,
              StartEncode, EncodeNothing, EncodeLate, EncodeFrame, SoftwareEnds
<1>3. OutstandingExact' /\ FallbackIsEmpty' /\ BrokenHasNoKey'
  BY <1>1, <1>2 DEF MacInv, OutstandingExact, FallbackIsEmpty, BrokenHasNoKey
<1>4. Flags /\ Shapes
  BY TypeParts DEF MacInv
<1>5. CASE CaptureTop \/ Grab \/ EncoderTop \/ NoSample \/ SkipSample \/ StartEncode
             \/ EncodeNothing \/ SoftwareEnds
  <2>1. /\ UNCHANGED <<submittedAny, chain, receiver, slip>>
        /\ pc' \in {pc, "idle", "wait", "encode", "done", "ended"}
        /\ slot' \in {slot, TRUE, FALSE}
        /\ capture' \in {capture, "top", "grab", "ended"} /\ (pc = "last" => pc' = "last")
        /\ \/ force' \in {force, TRUE} /\ intra' = intra
           \/ force' = FALSE /\ intra' = (intra \/ force)
    <3>1. CASE CaptureTop \/ Grab
      BY <3>1 DEF CaptureTop, Grab
    <3>2. CASE EncoderTop \/ NoSample \/ SkipSample
      BY <3>2 DEF EncoderTop, NoSample, SkipSample
    <3>3. CASE StartEncode
      <4>1. /\ pc = "wait" /\ pc' = "encode" /\ slot' = FALSE
            /\ UNCHANGED <<submittedAny, chain, receiver, slip, capture>>
        BY <3>3 DEF StartEncode
      <4>2. \/ force' = force /\ intra' = intra
            \/ force' = FALSE /\ intra' = (intra \/ force)
        BY <3>3 DEF StartEncode
      <4> QED
        BY <4>1, <4>2
    <3>4. CASE EncodeNothing
      BY <3>4 DEF EncodeNothing, Coding
    <3>5. CASE SoftwareEnds
      BY <3>5 DEF SoftwareEnds
    <3> QED
      BY <1>5, <3>1, <3>2, <3>3, <3>4, <3>5
  <2>2. Flags'
    BY <1>2, <1>4, <2>1 DEF Flags
  <2>3. Shapes'
    BY <1>2, <1>4, <2>1 DEF Shapes
  <2>4. StrayIsGap'
    BY <2>1 DEF MacInv, StrayIsGap
  <2>5. RepairUnderWay => RepairUnderWay'
    BY <1>2, <2>1 DEF RepairUnderWay
  <2>6. DropIsRepaired'
    BY <2>1, <2>5 DEF MacInv, DropIsRepaired
  <2> QED
    BY <1>3, <2>2, <2>3, <2>4, <2>6, TypePartsNext DEF MacInv
<1>6. CASE EncodeLate
  <2>1. /\ pc' = "idle" /\ force' = TRUE /\ chain' = "broken" /\ intra' = FALSE
        /\ UNCHANGED <<slot, submittedAny, capture, receiver, slip>>
    BY <1>6 DEF EncodeLate
  <2>2. Flags'
    BY <1>2, <1>4, <2>1 DEF Flags
  <2>3. Shapes'
    BY <1>2, <1>4, <2>1 DEF Shapes
  <2>4. StrayIsGap' /\ DropIsRepaired'
    BY <2>1 DEF StrayIsGap, DropIsRepaired, RepairUnderWay
  <2> QED
    BY <1>3, <2>2, <2>3, <2>4, TypePartsNext DEF MacInv
<1>7. CASE EncodeFrame
  <2> DEFINE key == intra \/ chain = "none"
  <2>1. /\ pc \in {"encode", "stray"} /\ pc' = "idle" /\ UNCHANGED <<slot, capture>>
        /\ intra' = FALSE /\ force' = (submittedAny /\ force) /\ submittedAny' = TRUE
    BY <1>7 DEF EncodeFrame, Coding
  <2>2. \/ /\ chain' = IF key THEN "whole" ELSE chain
           /\ IF pc = "stray" THEN receiver' = receiver
              ELSE Sent([kind |-> IF key THEN "key" ELSE "delta", broken |-> chain = "broken"])
           /\ slip' = (~key /\ (slip \/ (chain = "broken" /\ ~submittedAny)))
        \/ /\ chain' = "broken" /\ slip' = (slip \/ receiver = "old")
           /\ receiver' = IF pc = "stray" THEN receiver ELSE Gap
        \/ chain' = "broken" /\ slip' = TRUE /\ receiver' = receiver
    BY <1>7, Zenon DEF EncodeFrame
  <2>3. key \in BOOLEAN /\ (~key => ~intra)
    BY <1>4 DEF Flags
  <2> HIDE DEF key
  <2>4. chain' \in {"none", "whole", "broken"} /\ slip' \in BOOLEAN
    BY <1>4, <2>2, <2>3 DEF Shapes, Flags
  <2>5. receiver' \in {"whole", "gap", "old", "uncertain"}
    BY <1>4, <2>2 DEF Shapes, Sent, Gap
  <2>6. Flags'
    BY <1>2, <1>4, <2>1, <2>4 DEF Flags
  <2>7. Shapes'
    BY <1>2, <1>4, <2>1, <2>4, <2>5 DEF Shapes
  <2>8. StrayIsGap'
    BY <2>1 DEF StrayIsGap
  <2>9. DropIsRepaired'
    <3> SUFFICES ASSUME chain' = "broken", ~slip', receiver' # "gap"
                 PROVE  force'
      BY DEF DropIsRepaired, RepairUnderWay
    <3>1. /\ ~key /\ chain = "broken" /\ ~slip /\ submittedAny
          /\ IF pc = "stray" THEN receiver' = receiver
             ELSE Sent([kind |-> "delta", broken |-> TRUE])
      <4>1. pc = "stray" => receiver = "gap"
        BY DEF MacInv, StrayIsGap
      <4> QED
        BY <1>4, <2>1, <2>2, <4>1 DEF Gap, Flags
    <3>2. receiver # "gap"
      BY <3>1 DEF Sent
    <3>3. force
      BY <1>1, <2>1, <2>3, <3>1, <3>2 DEF MacInv, DropIsRepaired, RepairUnderWay
    <3> QED
      BY <2>1, <3>1, <3>3
  <2> QED
    BY <1>3, <2>6, <2>7, <2>8, <2>9, TypePartsNext DEF MacInv
<1> QED
  BY <1>5, <1>6, <1>7 DEF Software, SoftwareEncoder

----------------------------------------------------------------------------
(* The theorems about MacVideo.                                            *)

\* The invariant holds at first,
LEMMA MacInitIsInv == MacInit => MacInv
<1> SUFFICES ASSUME MacInit PROVE MacInv
  OBVIOUS
<1>1. vt = <<>> /\ <<>> \in Seq(BOOLEAN) /\ out = <<>> /\ <<>> \in Seq(Output) /\ Len(<<>>) = 0
  BY DEF MacInit
<1>2. Flags
  BY DEF MacInit, Flags
<1>3. Shapes
  BY <1>1 DEF MacInit, Shapes
<1>4. OutstandingExact
  BY <1>1 DEF MacInit, OutstandingExact
<1>5. FallbackIsEmpty /\ StrayIsGap /\ BrokenHasNoKey /\ DropIsRepaired
  BY <1>1 DEF MacInit, FallbackIsEmpty, StrayIsGap, BrokenHasNoKey, DropIsRepaired
<1> QED
  BY <1>2, <1>3, <1>4, <1>5, TypeParts DEF MacInv

\* and every step keeps it.
LEMMA MacNextKeepsInv == MacInv /\ [MacNext]_macVars => MacInv'
<1> SUFFICES ASSUME MacInv, [MacNext]_macVars PROVE MacInv'
  OBVIOUS
<1>1. CASE Connect \/ AskKeyframe \/ Disconnect \/ Stop \/ Sample
  BY <1>1, ControlStep
<1>2. CASE Callback
  BY <1>2, CallbackStep
<1>3. CASE Hardware
  BY <1>3, PacingStep, SubmitStep, ReceiveStep, LastStep DEF Hardware
<1>4. CASE Software
  BY <1>4, SoftwareStep
<1>5. CASE UNCHANGED macVars
  <2>1. UNCHANGED <<running, watched, asking, force, slot, stage, pc, progress, outstanding,
                    submittedAny, vt, chain, intra, out, capture, receiver, slip>>
    BY <1>5 DEF macVars, control, encoder, history
  <2>2. Flags' /\ Shapes'
    BY <2>1, TypeParts DEF MacInv, Flags, Shapes
  <2> QED
    BY <2>1, <2>2, TypePartsNext
       DEF MacInv, OutstandingExact, FallbackIsEmpty, StrayIsGap, BrokenHasNoKey,
           DropIsRepaired, RepairUnderWay
<1> QED
  BY <1>1, <1>2, <1>3, <1>4, <1>5 DEF MacNext

\* Whatever the number of frames in flight: the variables keep their types, and
\* outstanding is what VideoToolbox and its channel hold, so that
\* HARDWARE_ENCODER_IN_FLIGHT is never exceeded and no wait is for nothing.
THEOREM OutstandingIsExact == MacSpec => [](MacTypeOK /\ OutstandingExact)
<1>1. MacInv => MacTypeOK /\ OutstandingExact
  BY DEF MacInv
<1> QED
  BY <1>1, MacInitIsInv, MacNextKeepsInv, PTL DEF MacSpec

\* "the next submitted frame must be an IDR" (process()): whenever the next
\* frame of the encoder would refer to one that was lost, an IDR is under way
\* or the viewer sees the gap, but for what the fallback loses (slip).
THEOREM DropsAreRepaired == MacSpec => []DropIsRepaired
<1>1. MacInv => DropIsRepaired
  BY DEF MacInv
<1> QED
  BY <1>1, MacInitIsInv, MacNextKeepsInv, PTL DEF MacSpec

=============================================================================
