------------------------- MODULE VLLMConnectorProofs -------------------------
(***************************************************************************)
(* Proofs about VLLMConnector, for every set of requests, prompts, ids and *)
(* blocks and every number of blocks to a chunk.                           *)
(***************************************************************************)
EXTENDS VLLMConnector, FiniteSetTheorems, SequenceTheorems, TLAPS

-----------------------------------------------------------------------------
(***************************************************************************)
(* Chunks: block j is the k-th of chunk i, for one i and k only.           *)
(***************************************************************************)
ChunkOf(j) == ((j - 1) \div BlocksPerChunk) + 1
PlaceOf(j) == ((j - 1) % BlocksPerChunk) + 1

LEMMA Division ==
  ASSUME NEW n \in Nat, NEW b \in Nat \ {0}
  PROVE  /\ n \div b \in Nat /\ n % b \in Nat /\ n % b < b
         /\ n = (n \div b) * b + (n % b)
OBVIOUS

LEMMA ChunkOfBlock ==
  ASSUME NEW j \in Nat \ {0}
  PROVE  /\ ChunkOf(j) \in Nat \ {0} /\ PlaceOf(j) \in 1 .. BlocksPerChunk
         /\ j = (ChunkOf(j) - 1) * BlocksPerChunk + PlaceOf(j)
<1>1. j - 1 \in Nat
  OBVIOUS
<1>2. /\ (j - 1) \div BlocksPerChunk \in Nat /\ (j - 1) % BlocksPerChunk \in Nat
      /\ (j - 1) % BlocksPerChunk < BlocksPerChunk
      /\ j - 1 = ((j - 1) \div BlocksPerChunk) * BlocksPerChunk + ((j - 1) % BlocksPerChunk)
  BY <1>1, BlocksAssumption, Division
<1> DEFINE q == (j - 1) \div BlocksPerChunk
           r == (j - 1) % BlocksPerChunk
<1>3. ChunkOf(j) = q + 1 /\ PlaceOf(j) = r + 1
  BY DEF ChunkOf, PlaceOf
<1>4. q \in Nat /\ r \in Nat /\ r < BlocksPerChunk /\ j - 1 = q * BlocksPerChunk + r
  BY <1>2
<1> HIDE DEF q, r
<1>5. (q + 1) - 1 = q
  BY <1>4
<1> QED
  BY <1>3, <1>4, <1>5, BlocksAssumption

\* Whole chunks further on start after whole chunks.
LEMMA Whole ==
  ASSUME NEW m \in Nat, NEW n \in Nat, m < n
  PROVE  /\ m * BlocksPerChunk \in Nat /\ n * BlocksPerChunk \in Nat
         /\ m * BlocksPerChunk + BlocksPerChunk <= n * BlocksPerChunk
<1>1. PICK d \in Nat : n = m + 1 + d
  <2>1. n - m - 1 \in Nat /\ n = m + 1 + (n - m - 1)
    OBVIOUS
  <2> QED
    BY <2>1
<1>2. n * BlocksPerChunk = m * BlocksPerChunk + BlocksPerChunk + d * BlocksPerChunk
  BY <1>1, BlocksAssumption
<1>3. m * BlocksPerChunk \in Nat /\ d * BlocksPerChunk \in Nat
  BY <1>1, BlocksAssumption
<1> QED
  BY <1>2, <1>3, BlocksAssumption

\* A block is in one chunk only, at one place.
LEMMA OneChunk ==
  ASSUME NEW i \in Nat \ {0}, NEW k \in 1 .. BlocksPerChunk,
         NEW m \in Nat \ {0}, NEW n \in 1 .. BlocksPerChunk,
         (i - 1) * BlocksPerChunk + k = (m - 1) * BlocksPerChunk + n
  PROVE  i = m /\ k = n
<1>1. /\ i - 1 \in Nat /\ m - 1 \in Nat
      /\ (i - 1) * BlocksPerChunk \in Nat /\ (m - 1) * BlocksPerChunk \in Nat
  BY BlocksAssumption
<1>2. ~(i - 1 < m - 1)
  BY <1>1, Whole, BlocksAssumption
<1>3. ~(m - 1 < i - 1)
  BY <1>1, Whole, BlocksAssumption
<1>4. i = m
  BY <1>1, <1>2, <1>3
<1> QED
  BY <1>1, <1>4, BlocksAssumption

\* As many chunks as it takes, the last of them not empty.
LEMMA ChunkCount ==
  ASSUME NEW n \in Nat \ {0}
  PROVE  /\ NumChunks(n) \in Nat \ {0} /\ (NumChunks(n) - 1) * BlocksPerChunk \in Nat
         /\ NumChunks(n) * BlocksPerChunk \in Nat
         /\ (NumChunks(n) - 1) * BlocksPerChunk < n /\ n <= NumChunks(n) * BlocksPerChunk
<1>1. NumChunks(n) = ChunkOf(n)
  <2>1. n + BlocksPerChunk - 1 = (n - 1) + BlocksPerChunk
    BY BlocksAssumption
  <2>2. ((n - 1) + BlocksPerChunk) \div BlocksPerChunk = ((n - 1) \div BlocksPerChunk) + 1
    BY BlocksAssumption
  <2> QED
    BY <2>1, <2>2 DEF NumChunks, ChunkOf
<1>2. /\ ChunkOf(n) \in Nat \ {0} /\ PlaceOf(n) \in 1 .. BlocksPerChunk
      /\ n = (ChunkOf(n) - 1) * BlocksPerChunk + PlaceOf(n)
  BY ChunkOfBlock
<1>3. /\ (ChunkOf(n) - 1) * BlocksPerChunk \in Nat /\ ChunkOf(n) * BlocksPerChunk \in Nat
      /\ (ChunkOf(n) - 1) * BlocksPerChunk + BlocksPerChunk <= ChunkOf(n) * BlocksPerChunk
  BY <1>2, Whole
<1> QED
  BY <1>1, <1>2, <1>3, BlocksAssumption

LEMMA NoChunks == NumChunks(0) = 0
<1>1. 0 + BlocksPerChunk - 1 \in Nat /\ 0 + BlocksPerChunk - 1 < BlocksPerChunk
  BY BlocksAssumption
<1> QED
  BY <1>1, BlocksAssumption DEF NumChunks

\* The number of chunks is known by where they end.
LEMMA CountedChunks ==
  ASSUME NEW m \in Nat \ {0}, NEW n \in Nat \ {0},
         (m - 1) * BlocksPerChunk < n, n <= m * BlocksPerChunk
  PROVE  NumChunks(n) = m
<1> DEFINE q == NumChunks(n)
<1>1. /\ q \in Nat \ {0} /\ (q - 1) * BlocksPerChunk \in Nat /\ q * BlocksPerChunk \in Nat
      /\ (q - 1) * BlocksPerChunk < n /\ n <= q * BlocksPerChunk
  BY ChunkCount
<1> HIDE DEF q
<1>2. /\ m * BlocksPerChunk \in Nat /\ (m - 1) * BlocksPerChunk \in Nat /\ m - 1 \in Nat /\ q - 1 \in Nat
  BY <1>1, BlocksAssumption
<1>3. ~(q < m)
  <2> SUFFICES ASSUME q < m PROVE FALSE
    OBVIOUS
  <2>1. q <= m - 1 /\ (q = m - 1 \/ q < m - 1)
    BY <1>1
  <2>2. q * BlocksPerChunk <= (m - 1) * BlocksPerChunk
    BY <1>1, <1>2, <2>1, Whole, BlocksAssumption
  <2> QED
    BY <1>1, <1>2, <2>2
<1>4. ~(m < q)
  <2> SUFFICES ASSUME m < q PROVE FALSE
    OBVIOUS
  <2>1. m <= q - 1 /\ (m = q - 1 \/ m < q - 1)
    BY <1>1
  <2>2. m * BlocksPerChunk <= (q - 1) * BlocksPerChunk
    BY <1>1, <1>2, <2>1, Whole, BlocksAssumption
  <2> QED
    BY <1>1, <1>2, <2>2
<1> QED
  BY <1>1, <1>3, <1>4 DEF q

\* The blocks of a chunk.
LEMMA ChunkBlocksFacts ==
  ASSUME NEW S, NEW s \in Seq(S), NEW i \in 1 .. NumChunks(Len(s)), s # <<>>
  PROVE  LET w == Least(i * BlocksPerChunk, Len(s)) - (i - 1) * BlocksPerChunk
         IN  /\ w \in 1 .. BlocksPerChunk
             /\ ChunkBlocks(s, i) \in Seq(S) /\ Len(ChunkBlocks(s, i)) = w
             /\ DOMAIN ChunkBlocks(s, i) = 1 .. w
             /\ \A k \in 1 .. w : /\ (i - 1) * BlocksPerChunk + k \in 1 .. Len(s)
                                  /\ ChunkBlocks(s, i)[k] = s[(i - 1) * BlocksPerChunk + k]
<1> DEFINE a == (i - 1) * BlocksPerChunk
           b == i * BlocksPerChunk
           n == Len(s)
           w == Least(b, n) - a
<1>1. n \in Nat \ {0}
  OBVIOUS
<1>2. /\ NumChunks(n) \in Nat \ {0} /\ (NumChunks(n) - 1) * BlocksPerChunk \in Nat
      /\ (NumChunks(n) - 1) * BlocksPerChunk < n
  BY <1>1, ChunkCount
<1>3. i \in Nat \ {0} /\ i - 1 \in Nat
  BY <1>2
<1>4. a \in Nat /\ b \in Nat /\ b = a + BlocksPerChunk
  <2>1. i * BlocksPerChunk = (i - 1) * BlocksPerChunk + BlocksPerChunk
    BY <1>3, BlocksAssumption
  <2> QED
    BY <1>3, <2>1, BlocksAssumption
<1>5. a < n
  <2>1. CASE i = NumChunks(n)
    BY <1>2, <2>1
  <2>2. CASE i < NumChunks(n)
    <3>1. i - 1 < NumChunks(n) - 1 /\ NumChunks(n) - 1 \in Nat
      BY <1>2, <1>3, <2>2
    <3>2. a + BlocksPerChunk <= (NumChunks(n) - 1) * BlocksPerChunk
      BY <1>3, <3>1, Whole
    <3> QED
      BY <1>1, <1>2, <1>4, <3>2, BlocksAssumption
  <2> QED
    BY <1>2, <2>1, <2>2
<1>6. ChunkBlocks(s, i) = SubSeq(s, a + 1, Least(b, n))
  BY DEF ChunkBlocks
<1> HIDE DEF a, b, n
<1>7. Least(b, n) \in Nat /\ Least(b, n) <= n /\ w \in 1 .. BlocksPerChunk
  BY <1>1, <1>4, <1>5, BlocksAssumption DEF Least
<1>8. \A j \in a + 1 .. Least(b, n) : j \in 1 .. n /\ s[j] \in S
  BY <1>1, <1>4, <1>7 DEF n
<1>9. /\ SubSeq(s, a + 1, Least(b, n)) \in Seq(S)
      /\ Len(SubSeq(s, a + 1, Least(b, n))) = IF a + 1 <= Least(b, n) THEN Least(b, n) - (a + 1) + 1 ELSE 0
      /\ \A k \in 1 .. Least(b, n) - (a + 1) + 1 : SubSeq(s, a + 1, Least(b, n))[k] = s[a + 1 + k - 1]
  <2>1. a + 1 \in Int /\ Least(b, n) \in Int
    BY <1>4, <1>7
  <2> QED
    BY <1>8, <2>1, SubSeqProperties
<1>10. Least(b, n) - (a + 1) + 1 = w /\ w \in Nat
  BY <1>4, <1>7
<1>11. Len(ChunkBlocks(s, i)) = w
  BY <1>4, <1>6, <1>7, <1>9, <1>10, BlocksAssumption
<1>12. \A k \in 1 .. w : a + k \in 1 .. n /\ ChunkBlocks(s, i)[k] = s[a + k]
  <2> SUFFICES ASSUME NEW k \in 1 .. w PROVE a + k \in 1 .. n /\ ChunkBlocks(s, i)[k] = s[a + k]
    OBVIOUS
  <2>1. k \in Nat \ {0} /\ k <= w
    BY <1>10
  <2>2. a + 1 + k - 1 = a + k
    BY <1>4, <2>1
  <2>3. ChunkBlocks(s, i)[k] = s[a + k]
    BY <1>6, <1>9, <1>10, <2>2
  <2>4. a + k \in 1 .. n
    BY <1>1, <1>4, <1>7, <2>1
  <2> QED
    BY <2>3, <2>4
<1>13. ChunkBlocks(s, i) \in Seq(S)
  BY <1>6, <1>9
<1>14. DOMAIN ChunkBlocks(s, i) = 1 .. w
  BY <1>11, <1>13
<1> QED
  BY <1>7, <1>11, <1>12, <1>13, <1>14 DEF a, b, n
\* The blocks of the first n are in the chunks that n blocks make.
LEMMA ChunkOfFirst ==
  ASSUME NEW n \in Nat \ {0}, NEW j \in 1 .. n
  PROVE  ChunkOf(j) \in 1 .. NumChunks(n)
<1>1. /\ NumChunks(n) \in Nat \ {0} /\ NumChunks(n) * BlocksPerChunk \in Nat
      /\ n <= NumChunks(n) * BlocksPerChunk
  BY ChunkCount
<1>2. /\ ChunkOf(j) \in Nat \ {0} /\ PlaceOf(j) \in 1 .. BlocksPerChunk
      /\ j = (ChunkOf(j) - 1) * BlocksPerChunk + PlaceOf(j)
  BY ChunkOfBlock
<1>3. ChunkOf(j) - 1 \in Nat /\ (ChunkOf(j) - 1) * BlocksPerChunk \in Nat
  BY <1>2, BlocksAssumption
<1>4. ~(NumChunks(n) < ChunkOf(j))
  <2> SUFFICES ASSUME NumChunks(n) < ChunkOf(j) PROVE FALSE
    OBVIOUS
  <2>1. NumChunks(n) = ChunkOf(j) - 1 \/ NumChunks(n) < ChunkOf(j) - 1
    BY <1>1, <1>2
  <2>2. NumChunks(n) * BlocksPerChunk <= (ChunkOf(j) - 1) * BlocksPerChunk
    BY <1>1, <1>3, <2>1, Whole, BlocksAssumption
  <2> QED
    BY <1>1, <1>2, <1>3, <2>2, BlocksAssumption
<1> QED
  BY <1>1, <1>2, <1>4

LEMMA BlockInChunk ==
  ASSUME NEW S, NEW s \in Seq(S), NEW j \in 1 .. Len(s)
  PROVE  /\ ChunkOf(j) \in 1 .. NumChunks(Len(s))
         /\ PlaceOf(j) \in DOMAIN ChunkBlocks(s, ChunkOf(j))
         /\ PlaceOf(j) \in 1 .. BlocksPerChunk
         /\ ChunkBlocks(s, ChunkOf(j))[PlaceOf(j)] = s[j]
<1> DEFINE i == ChunkOf(j)
           k == PlaceOf(j)
           w == Least(i * BlocksPerChunk, Len(s)) - (i - 1) * BlocksPerChunk
<1>1. Len(s) \in Nat \ {0} /\ s # <<>> /\ j \in Nat \ {0}
  OBVIOUS
<1>2. i \in 1 .. NumChunks(Len(s))
  BY <1>1, ChunkOfFirst
<1>3. /\ i \in Nat \ {0} /\ k \in 1 .. BlocksPerChunk /\ j = (i - 1) * BlocksPerChunk + k
  BY <1>1, ChunkOfBlock
<1>4. /\ DOMAIN ChunkBlocks(s, i) = 1 .. w
      /\ \A n \in 1 .. w : ChunkBlocks(s, i)[n] = s[(i - 1) * BlocksPerChunk + n]
  <2> HIDE DEF i
  <2> QED
    BY <1>1, <1>2, ChunkBlocksFacts
<1>5. (i - 1) * BlocksPerChunk \in Nat /\ i * BlocksPerChunk = (i - 1) * BlocksPerChunk + BlocksPerChunk
  <2> HIDE DEF i
  <2>1. i - 1 \in Nat
    BY <1>3
  <2> QED
    BY <1>3, <2>1, BlocksAssumption
<1>6. k \in 1 .. w
  <2> HIDE DEF i, k
  <2> QED
    BY <1>1, <1>3, <1>5, BlocksAssumption DEF Least
<1> HIDE DEF i, k, w
<1>7. ChunkBlocks(s, i)[k] = s[j]
  BY <1>3, <1>4, <1>6
<1> QED
  BY <1>2, <1>3, <1>4, <1>6, <1>7 DEF i, k

\* A set of numbers that has with each one all smaller ones.
LEMMA InitialNumbers ==
  ASSUME NEW n \in Nat, NEW T, T \subseteq 1 .. n, \A i \in T : 1 .. i \subseteq T
  PROVE  \E m \in 0 .. n : T = 1 .. m /\ Cardinality(T) = m
<1> DEFINE U == (1 .. n + 1) \ T
           R == StrictSubsetOrdering(Nat)
           V == {1 .. u : u \in U}
<1>1. n + 1 \in U
  OBVIOUS
<1>2. V \subseteq FiniteSubsetsOf(Nat) /\ V # {}
  <2>1. \A u \in U : 1 .. u \in SUBSET Nat /\ IsFiniteSet(1 .. u)
    <3> SUFFICES ASSUME NEW u \in U PROVE 1 .. u \in SUBSET Nat /\ IsFiniteSet(1 .. u)
      OBVIOUS
    <3>1. 1 \in Int /\ u \in Int
      OBVIOUS
    <3> HIDE DEF U
    <3> QED
      BY <3>1, FS_Interval
  <2> HIDE DEF U
  <2> QED
    BY <1>1, <2>1 DEF FiniteSubsetsOf
<1>3. \E x \in V : \A y \in V : <<y, x>> \notin R
  <2> HIDE DEF U, V
  <2>1. IsWellFoundedOn(R, FiniteSubsetsOf(Nat))
    BY FS_StrictSubsetOrderingWellFounded
  <2> HIDE DEF R
  <2> QED
    BY <1>2, <2>1, WFMin
<1>4. PICK u \in U : \A v \in U : <<1 .. v, 1 .. u>> \notin R
  <2> HIDE DEF U, R
  <2> QED
    BY <1>3
<1>5. \A v \in U : ~(v < u)
  <2> SUFFICES ASSUME NEW v \in U, v < u PROVE FALSE
    OBVIOUS
  <2>1. 1 .. v \subseteq 1 .. u /\ u \in 1 .. u /\ u \notin 1 .. v /\ 1 .. v \in SUBSET Nat /\ 1 .. u \in SUBSET Nat
    OBVIOUS
  <2>2. 1 .. v # 1 .. u
    BY <2>1
  <2>3. <<1 .. v, 1 .. u>> \in R
    <3> HIDE DEF U
    <3> QED
      BY <2>1, <2>2 DEF StrictSubsetOrdering
  <2> HIDE DEF R, U
  <2> QED
    BY <1>4, <2>3
<1>6. u \in 1 .. n + 1 /\ u \notin T /\ u - 1 \in 0 .. n
  OBVIOUS
<1>7. T = 1 .. u - 1
  <2>1. ASSUME NEW i \in T PROVE i \in 1 .. u - 1
    <3>1. i \in 1 .. n /\ 1 .. i \subseteq T
      OBVIOUS
    <3>2. u \notin 1 .. i
      BY <1>6, <3>1
    <3> HIDE DEF U
    <3> QED
      BY <1>6, <3>1, <3>2
  <2>2. ASSUME NEW i \in 1 .. u - 1 PROVE i \in T
    <3>1. i < u /\ i \in 1 .. n + 1
      BY <1>6
    <3>2. i \notin U
      BY <1>5, <3>1
    <3> QED
      BY <3>1, <3>2
  <2> QED
    BY <2>1, <2>2
<1>8. Cardinality(1 .. u - 1) = u - 1
  <2>1. 1 \in Int /\ u - 1 \in Int
    BY <1>6
  <2>2. Cardinality(1 .. u - 1) = IF 1 > u - 1 THEN 0 ELSE (u - 1) - 1 + 1
    BY <2>1, FS_Interval
  <2> HIDE DEF U
  <2> QED
    BY <1>6, <2>2
<1> QED
  BY <1>6, <1>7, <1>8

-----------------------------------------------------------------------------
(***************************************************************************)
(* What lookup finds: the first e blocks of the two prompts, in chunks     *)
(* that are the same.                                                      *)
(***************************************************************************)
LEMMA MatchedFacts ==
  ASSUME NEW p \in Seq(Content) \ {<<>>}, NEW q \in Seq(Content) \ {<<>>}
  PROVE  LET e == Matched(p, q)
             m == NumChunks(e)
         IN  /\ e \in 0 .. Len(p) /\ e <= Len(q)
             /\ m \in 0 .. NumChunks(Len(p)) /\ m <= NumChunks(Len(q))
             /\ \A i \in 1 .. m : Chunks(p)[i] = Chunks(q)[i]
<1> DEFINE np == NumChunks(Len(p))
           nq == NumChunks(Len(q))
           same == {i \in DOMAIN Chunks(p) \intersect DOMAIN Chunks(q) :
                       \A j \in 1 .. i : Chunks(p)[j] = Chunks(q)[j]}
<1>1. DOMAIN Chunks(p) = 1 .. np /\ DOMAIN Chunks(q) = 1 .. nq
  BY DEF Chunks
<1>2. /\ Len(p) \in Nat \ {0} /\ Len(q) \in Nat \ {0} /\ p \in Seq(Content) /\ q \in Seq(Content)
      /\ p # <<>> /\ q # <<>>
  OBVIOUS
<1>3. /\ np \in Nat \ {0} /\ (np - 1) * BlocksPerChunk \in Nat /\ np * BlocksPerChunk \in Nat
      /\ (np - 1) * BlocksPerChunk < Len(p) /\ Len(p) <= np * BlocksPerChunk
      /\ nq \in Nat \ {0} /\ (nq - 1) * BlocksPerChunk \in Nat /\ nq * BlocksPerChunk \in Nat
      /\ (nq - 1) * BlocksPerChunk < Len(q) /\ Len(q) <= nq * BlocksPerChunk
  BY <1>2, ChunkCount
<1> HIDE DEF np, nq
<1>4. PICK m \in 0 .. np : same = 1 .. m /\ Cardinality(same) = m
  <2>1. same \subseteq 1 .. np
    BY <1>1
  <2>2. \A i \in same : 1 .. i \subseteq same
    <3> SUFFICES ASSUME NEW i \in same, NEW j \in 1 .. i PROVE j \in same
      OBVIOUS
    <3>1. i \in 1 .. np /\ i \in 1 .. nq /\ \A h \in 1 .. i : Chunks(p)[h] = Chunks(q)[h]
      BY <1>1
    <3>2. j \in 1 .. np /\ j \in 1 .. nq /\ 1 .. j \subseteq 1 .. i
      BY <1>3, <3>1
    <3> QED
      BY <1>1, <3>1, <3>2
  <2>3. np \in Nat
    BY <1>3
  <2> HIDE DEF same
  <2> QED
    BY <2>1, <2>2, <2>3, InitialNumbers
<1>5. \A i \in 1 .. m : i \in 1 .. np /\ i \in 1 .. nq /\ Chunks(p)[i] = Chunks(q)[i]
  <2> SUFFICES ASSUME NEW i \in 1 .. m PROVE i \in 1 .. np /\ i \in 1 .. nq /\ Chunks(p)[i] = Chunks(q)[i]
    OBVIOUS
  <2>1. i \in same
    BY <1>4
  <2>2. i \in 1 .. i
    BY <1>4
  <2> QED
    BY <1>1, <2>1, <2>2
<1>6. Matched(p, q) = IF same = 1 .. nq THEN Len(q) ELSE m * BlocksPerChunk
  BY <1>1, <1>4 DEF Matched
<1> HIDE DEF same
<1>7. m \in Nat /\ m <= np /\ m <= nq
  <2>1. CASE m = 0
    BY <1>3, <2>1
  <2>2. CASE m # 0
    <3>1. m \in 1 .. m
      BY <1>4, <2>2
    <3> QED
      BY <1>4, <1>5, <3>1
  <2> QED
    BY <2>1, <2>2
<1> DEFINE a == (m - 1) * BlocksPerChunk
           b == m * BlocksPerChunk
\* The last of the chunks that are the same has one length.
<1>8. m # 0 => Least(b, Len(p)) = Least(b, Len(q)) /\ a \in Nat /\ b = a + BlocksPerChunk
  <2> SUFFICES ASSUME m # 0
               PROVE  Least(b, Len(p)) = Least(b, Len(q)) /\ a \in Nat /\ b = a + BlocksPerChunk
    OBVIOUS
  <2>1. m \in 1 .. np /\ m \in 1 .. nq /\ m \in 1 .. m
    BY <1>3, <1>7
  <2>2. Len(ChunkBlocks(p, m)) = Least(b, Len(p)) - a
    BY <1>2, <2>1, ChunkBlocksFacts DEF np
  <2>3. Len(ChunkBlocks(q, m)) = Least(b, Len(q)) - a
    BY <1>2, <2>1, ChunkBlocksFacts DEF nq
  <2>4. ChunkBlocks(p, m) = ChunkBlocks(q, m)
    <3>1. Chunks(p)[m] = ChunkBlocks(p, m) /\ Chunks(q)[m] = ChunkBlocks(q, m)
      BY <2>1 DEF Chunks, np, nq
    <3> QED
      BY <1>5, <2>1, <3>1
  <2>5. a \in Nat /\ b = a + BlocksPerChunk
    <3>1. m - 1 \in Nat
      BY <1>7
    <3> QED
      BY <1>7, <3>1, BlocksAssumption
  <2>6. b \in Nat
    BY <2>5, BlocksAssumption
  <2> HIDE DEF a, b
  <2>7. Least(b, Len(p)) \in Nat /\ Least(b, Len(q)) \in Nat
    BY <1>2, <2>6 DEF Least
  <2>8. Least(b, Len(p)) - a = Least(b, Len(q)) - a
    BY <2>2, <2>3, <2>4
  <2> QED
    BY <2>5, <2>7, <2>8
<1>9. CASE same = 1 .. nq
  <2>1. m = nq
    BY <1>3, <1>4, <1>7, <1>9
  <2>2. Matched(p, q) = Len(q) /\ NumChunks(Matched(p, q)) = m
    BY <1>6, <1>9, <2>1 DEF nq
  <2>3. Len(q) <= Len(p)
    <3>1. Least(b, Len(q)) = Len(q) /\ Least(b, Len(p)) <= Len(p)
      BY <1>2, <1>3, <2>1 DEF Least
    <3> HIDE DEF a, b
    <3> QED
      BY <1>3, <1>8, <2>1, <3>1
  <2> QED
    BY <1>2, <1>3, <1>5, <1>7, <2>2, <2>3 DEF np, nq
<1>10. CASE same # 1 .. nq
  <2>1. m < nq
    BY <1>3, <1>4, <1>7, <1>10
  <2>2. m * BlocksPerChunk \in Nat /\ m * BlocksPerChunk < Len(q)
    <3>1. m <= nq - 1 /\ (m = nq - 1 \/ m < nq - 1) /\ nq - 1 \in Nat
      BY <1>3, <1>7, <2>1
    <3>2. m * BlocksPerChunk <= (nq - 1) * BlocksPerChunk /\ m * BlocksPerChunk \in Nat
      BY <1>3, <1>7, <3>1, Whole, BlocksAssumption
    <3> QED
      BY <1>2, <1>3, <3>2
  <2>3. m * BlocksPerChunk <= Len(p)
    <3>1. CASE m = 0
      BY <1>2, <3>1, BlocksAssumption
    <3>2. CASE m # 0
      <4>1. b \in Nat /\ b < Len(q)
        BY <2>2
      <4>2. Least(b, Len(p)) = Least(b, Len(q))
        BY <1>8, <3>2
      <4> HIDE DEF b
      <4>3. b <= Len(p)
        BY <1>2, <4>1, <4>2 DEF Least
      <4> QED
        BY <4>3 DEF b
    <3> QED
      BY <3>1, <3>2
  <2>4. NumChunks(m * BlocksPerChunk) = m
    <3>1. CASE m = 0
      <4>1. m * BlocksPerChunk = 0
        BY <3>1, BlocksAssumption
      <4> QED
        BY <3>1, <4>1, NoChunks
    <3>2. CASE m # 0
      <4>1. m \in Nat \ {0} /\ b \in Nat /\ a \in Nat /\ b = a + BlocksPerChunk
        BY <1>7, <1>8, <2>2, <3>2
      <4>2. b \in Nat \ {0} /\ a < b
        <5> HIDE DEF a, b
        <5> QED
          BY <4>1, BlocksAssumption
      <4> QED
        BY <4>1, <4>2, CountedChunks
    <3> QED
      BY <3>1, <3>2
  <2>5. Matched(p, q) = m * BlocksPerChunk
    BY <1>6, <1>10
  <2> QED
    BY <1>2, <1>5, <1>7, <2>2, <2>3, <2>4, <2>5 DEF np, nq
<1> QED
  BY <1>9, <1>10
\* The k-th block of chunk i of a sequence.
LEMMA BlockOfChunk ==
  ASSUME NEW S, NEW s \in Seq(S), s # <<>>, NEW i \in 1 .. NumChunks(Len(s)),
         NEW k \in DOMAIN ChunkBlocks(s, i)
  PROVE  \E j \in 1 .. Len(s) : /\ j = (i - 1) * BlocksPerChunk + k
                                /\ ChunkOf(j) = i /\ PlaceOf(j) = k
                                /\ ChunkBlocks(s, i)[k] = s[j]
<1> DEFINE w == Least(i * BlocksPerChunk, Len(s)) - (i - 1) * BlocksPerChunk
           j == (i - 1) * BlocksPerChunk + k
<1>1. /\ w \in 1 .. BlocksPerChunk /\ DOMAIN ChunkBlocks(s, i) = 1 .. w
      /\ \A n \in 1 .. w : /\ (i - 1) * BlocksPerChunk + n \in 1 .. Len(s)
                           /\ ChunkBlocks(s, i)[n] = s[(i - 1) * BlocksPerChunk + n]
  BY ChunkBlocksFacts
<1> HIDE DEF w
<1>2. k \in 1 .. BlocksPerChunk /\ j \in 1 .. Len(s) /\ ChunkBlocks(s, i)[k] = s[j]
  BY <1>1, BlocksAssumption
<1>3. j \in Nat \ {0} /\ i \in Nat \ {0}
  <2>1. NumChunks(Len(s)) \in Nat \ {0}
    BY ChunkCount
  <2> HIDE DEF j
  <2> QED
    BY <1>2, <2>1
<1>4. /\ ChunkOf(j) \in Nat \ {0} /\ PlaceOf(j) \in 1 .. BlocksPerChunk
      /\ j = (ChunkOf(j) - 1) * BlocksPerChunk + PlaceOf(j)
  <2> HIDE DEF j
  <2> QED
    BY <1>3, ChunkOfBlock
<1>5. ChunkOf(j) = i /\ PlaceOf(j) = k
  <2>1. (ChunkOf(j) - 1) * BlocksPerChunk + PlaceOf(j) = (i - 1) * BlocksPerChunk + k
    BY <1>4
  <2> HIDE DEF j
  <2> QED
    BY <1>2, <1>3, <1>4, <2>1, OneChunk
<1> QED
  BY <1>2, <1>5

\* KV is a matter of the tokens before it.
LEMMA SameBlocks ==
  ASSUME NEW p \in Seq(Content), NEW q \in Seq(Content), NEW j \in Nat \ {0},
         \A h \in 1 .. j : p[h] \in Content /\ q[h] \in Content /\ p[h] = q[h]
  PROVE  KV(p, j) = KV(q, j)
<1>1. 1 \in Int /\ j \in Int
  OBVIOUS
<1>2. /\ KV(p, j) \in Seq(Content) /\ Len(KV(p, j)) = (IF 1 <= j THEN j - 1 + 1 ELSE 0)
      /\ \A h \in 1 .. j - 1 + 1 : KV(p, j)[h] = p[1 + h - 1]
  BY <1>1, SubSeqProperties DEF KV
<1>3. /\ KV(q, j) \in Seq(Content) /\ Len(KV(q, j)) = (IF 1 <= j THEN j - 1 + 1 ELSE 0)
      /\ \A h \in 1 .. j - 1 + 1 : KV(q, j)[h] = q[1 + h - 1]
  BY <1>1, SubSeqProperties DEF KV
<1>4. Len(KV(p, j)) = Len(KV(q, j)) /\ Len(KV(p, j)) = j
  BY <1>2, <1>3
<1>5. \A h \in 1 .. j : KV(p, j)[h] = KV(q, j)[h]
  <2> SUFFICES ASSUME NEW h \in 1 .. j PROVE KV(p, j)[h] = KV(q, j)[h]
    OBVIOUS
  <2>1. 1 + h - 1 = h /\ j - 1 + 1 = j
    OBVIOUS
  <2> QED
    BY <1>2, <1>3, <2>1
<1> QED
  BY <1>2, <1>3, <1>4, <1>5, SeqEqual

\* The first blocks of two prompts that match have the same KV.
LEMMA SameKV ==
  ASSUME NEW p \in Seq(Content) \ {<<>>}, NEW q \in Seq(Content) \ {<<>>},
         NEW j \in 1 .. Matched(p, q)
  PROVE  KV(p, j) = KV(q, j)
<1> DEFINE e == Matched(p, q)
<1>1. /\ p \in Seq(Content) /\ q \in Seq(Content)
      /\ Len(p) \in Nat /\ Len(q) \in Nat
  OBVIOUS
<1>2. /\ e \in 0 .. Len(p) /\ e <= Len(q)
      /\ NumChunks(e) \in 0 .. NumChunks(Len(p)) /\ NumChunks(e) <= NumChunks(Len(q))
      /\ \A i \in 1 .. NumChunks(e) : Chunks(p)[i] = Chunks(q)[i]
  BY MatchedFacts
<1> HIDE DEF e
<1>3. e \in Nat \ {0} /\ j \in 1 .. e
  BY <1>1, <1>2 DEF e
<1>4. \A h \in 1 .. j : p[h] \in Content /\ q[h] \in Content /\ p[h] = q[h]
  <2> SUFFICES ASSUME NEW h \in 1 .. j PROVE p[h] \in Content /\ q[h] \in Content /\ p[h] = q[h]
    OBVIOUS
  <2>1. h \in 1 .. e /\ h \in 1 .. Len(p) /\ h \in 1 .. Len(q)
    BY <1>1, <1>2, <1>3
  <2>2. ChunkOf(h) \in 1 .. NumChunks(e)
    BY <1>3, <2>1, ChunkOfFirst
  <2>3. /\ ChunkOf(h) \in 1 .. NumChunks(Len(p)) /\ ChunkOf(h) \in 1 .. NumChunks(Len(q))
        /\ ChunkBlocks(p, ChunkOf(h))[PlaceOf(h)] = p[h]
        /\ ChunkBlocks(q, ChunkOf(h))[PlaceOf(h)] = q[h]
    BY <1>1, <2>1, BlockInChunk
  <2>4. Chunks(p)[ChunkOf(h)] = ChunkBlocks(p, ChunkOf(h)) /\ Chunks(q)[ChunkOf(h)] = ChunkBlocks(q, ChunkOf(h))
    BY <2>3 DEF Chunks
  <2>5. p[h] = q[h]
    BY <1>2, <2>2, <2>3, <2>4
  <2> QED
    BY <1>1, <2>1, <2>5
<1> QED
  BY <1>1, <1>3, <1>4, SameBlocks

-----------------------------------------------------------------------------
(***************************************************************************)
(* The transfer.                                                           *)
(***************************************************************************)
Injective(blocks) == \A i, j \in DOMAIN blocks : blocks[i] = blocks[j] => i = j

\* load_into writes the blocks of the first n chunks, each from its place in its payload.
LEMMA Loads ==
  ASSUME NEW buf, NEW blocks \in Seq(Block), blocks # <<>>, Injective(blocks), NEW n \in Nat,
         n <= NumChunks(Len(blocks)), NEW payloads, DOMAIN payloads = 1 .. n,
         NEW b \in DOMAIN buf
  PROVE  /\ \A j \in 1 .. Len(blocks) : blocks[j] = b /\ ChunkOf(j) <= n =>
              LoadInto(buf, blocks, payloads)[b] =
                 Split(payloads[ChunkOf(j)], Len(ChunkBlocks(blocks, ChunkOf(j))))[PlaceOf(j)]
         /\ (\A j \in 1 .. Len(blocks) : blocks[j] = b => ChunkOf(j) > n) =>
              LoadInto(buf, blocks, payloads)[b] = buf[b]
<1> DEFINE at == {s \in (1 .. n) \X (1 .. BlocksPerChunk) :
                     s[2] \in DOMAIN ChunkBlocks(blocks, s[1]) /\ ChunkBlocks(blocks, s[1])[s[2]] = b}
           top == CHOOSE s \in at : \A r \in at : r[1] <= s[1]
<1>1. LoadInto(buf, blocks, payloads)[b] =
         IF at = {} THEN buf[b]
         ELSE Split(payloads[top[1]], Len(ChunkBlocks(blocks, top[1])))[top[2]]
  BY DEF LoadInto
<1>2. Len(blocks) \in Nat \ {0} /\ DOMAIN blocks = 1 .. Len(blocks) /\ NumChunks(Len(blocks)) \in Nat \ {0}
  <2>1. Len(blocks) \in Nat \ {0} /\ DOMAIN blocks = 1 .. Len(blocks)
    OBVIOUS
  <2> QED
    BY <2>1, ChunkCount
<1>3. ASSUME NEW s \in at
      PROVE  \E j \in 1 .. Len(blocks) :
                blocks[j] = b /\ ChunkOf(j) = s[1] /\ PlaceOf(j) = s[2] /\ s = <<s[1], s[2]>> /\ s[1] \in 1 .. n
  <2>1. /\ s[1] \in 1 .. n /\ s[1] \in 1 .. NumChunks(Len(blocks)) /\ s = <<s[1], s[2]>>
        /\ s[2] \in DOMAIN ChunkBlocks(blocks, s[1]) /\ ChunkBlocks(blocks, s[1])[s[2]] = b
    BY <1>2
  <2>2. PICK j \in 1 .. Len(blocks) : /\ ChunkOf(j) = s[1] /\ PlaceOf(j) = s[2]
                                      /\ ChunkBlocks(blocks, s[1])[s[2]] = blocks[j]
    BY <2>1, BlockOfChunk
  <2> QED
    BY <2>1, <2>2
<1>4. ASSUME NEW j \in 1 .. Len(blocks), blocks[j] = b, ChunkOf(j) <= n
      PROVE  at = {<<ChunkOf(j), PlaceOf(j)>>}
  <2>1. /\ ChunkOf(j) \in 1 .. NumChunks(Len(blocks)) /\ PlaceOf(j) \in DOMAIN ChunkBlocks(blocks, ChunkOf(j))
        /\ PlaceOf(j) \in 1 .. BlocksPerChunk /\ ChunkBlocks(blocks, ChunkOf(j))[PlaceOf(j)] = b
    BY <1>4, BlockInChunk
  <2>2. <<ChunkOf(j), PlaceOf(j)>> \in at
    BY <1>2, <1>4, <2>1
  <2>3. ASSUME NEW s \in at PROVE s = <<ChunkOf(j), PlaceOf(j)>>
    <3>1. PICK i \in 1 .. Len(blocks) :
             blocks[i] = b /\ ChunkOf(i) = s[1] /\ PlaceOf(i) = s[2] /\ s = <<s[1], s[2]>>
      BY <1>3
    <3>2. i = j
      BY <1>2, <1>4, <3>1 DEF Injective
    <3> QED
      BY <3>1, <3>2
  <2> QED
    BY <2>2, <2>3
<1>5. ASSUME NEW j \in 1 .. Len(blocks), blocks[j] = b, ChunkOf(j) <= n
      PROVE  LoadInto(buf, blocks, payloads)[b] =
                 Split(payloads[ChunkOf(j)], Len(ChunkBlocks(blocks, ChunkOf(j))))[PlaceOf(j)]
  <2>1. at = {<<ChunkOf(j), PlaceOf(j)>>} /\ j \in Nat \ {0}
    BY <1>2, <1>4, <1>5
  <2>2. ChunkOf(j) \in Nat
    BY <2>1, ChunkOfBlock
  <2> HIDE DEF at
  <2>3. \A r \in at : r[1] <= <<ChunkOf(j), PlaceOf(j)>>[1]
    BY <2>1, <2>2
  <2>4. top = <<ChunkOf(j), PlaceOf(j)>> /\ at # {}
    BY <2>1, <2>3
  <2> HIDE DEF top
  <2>5. top[1] = ChunkOf(j) /\ top[2] = PlaceOf(j)
    BY <2>4
  <2> QED
    BY <1>1, <2>4, <2>5, Zenon
<1>6. ASSUME \A j \in 1 .. Len(blocks) : blocks[j] = b => ChunkOf(j) > n PROVE at = {}
  <2> SUFFICES ASSUME NEW s \in at PROVE FALSE
    OBVIOUS
  <2>1. PICK j \in 1 .. Len(blocks) : blocks[j] = b /\ ChunkOf(j) = s[1] /\ s[1] \in 1 .. n
    BY <1>3
  <2>2. ChunkOf(j) > n
    BY <1>6, <2>1
  <2> QED
    BY <2>1, <2>2
<1> HIDE DEF at, top
<1> QED
  BY <1>1, <1>5, <1>6

LEMMA Loaded ==
  ASSUME NEW buf, NEW blocks \in Seq(Block), blocks # <<>>, Injective(blocks), NEW n \in Nat,
         n <= NumChunks(Len(blocks)), NEW payloads, DOMAIN payloads = 1 .. n,
         NEW j \in 1 .. Len(blocks), blocks[j] \in DOMAIN buf, ChunkOf(j) <= n
  PROVE  LoadInto(buf, blocks, payloads)[blocks[j]] =
            Split(payloads[ChunkOf(j)], Len(ChunkBlocks(blocks, ChunkOf(j))))[PlaceOf(j)]
<1>1. PICK b \in DOMAIN buf : b = blocks[j]
  OBVIOUS
<1> QED
  BY <1>1, Loads

\* The payload of a chunk is as long as the chunk.
LEMMA ChunkKVFacts ==
  ASSUME NEW p \in Seq(Content) \ {<<>>}, NEW i \in 1 .. NumChunks(Len(p))
  PROVE  /\ Chunks(p)[i] = ChunkBlocks(p, i)
         /\ Len(ChunkKV(p, i)) = Len(ChunkBlocks(p, i))
         /\ \A S, s : s \in Seq(S) /\ Len(s) = Len(p) =>
               /\ Len(ChunkBlocks(s, i)) = Len(ChunkBlocks(p, i))
               /\ DOMAIN ChunkBlocks(s, i) = DOMAIN Chunks(p)[i]
<1> DEFINE w == Least(i * BlocksPerChunk, Len(p)) - (i - 1) * BlocksPerChunk
<1>1. p \in Seq(Content) /\ p # <<>>
  OBVIOUS
<1>2. w \in 1 .. BlocksPerChunk /\ DOMAIN ChunkBlocks(p, i) = 1 .. w /\ Len(ChunkBlocks(p, i)) = w
  BY <1>1, ChunkBlocksFacts
<1>3. Chunks(p)[i] = ChunkBlocks(p, i)
  BY DEF Chunks
<1>4. Len(ChunkKV(p, i)) = w
  <2> HIDE DEF w
  <2>1. w \in Nat
    BY <1>2, BlocksAssumption
  <2> QED
    BY <1>2, <1>3, <2>1 DEF ChunkKV
<1>5. ASSUME NEW S, NEW s \in Seq(S), Len(s) = Len(p)
      PROVE  Len(ChunkBlocks(s, i)) = w /\ DOMAIN ChunkBlocks(s, i) = 1 .. w
  <2>1. s # <<>> /\ i \in 1 .. NumChunks(Len(s))
    BY <1>1, <1>5
  <2> QED
    BY <1>5, <2>1, ChunkBlocksFacts
<1> QED
  BY <1>2, <1>3, <1>4, <1>5

\* The chunks of a prompt that leads another are its chunks, and hold the same KV.
LEMMA LeadChunks ==
  ASSUME NEW p \in Seq(Content) \ {<<>>}, NEW q \in Seq(Content) \ {<<>>}, Leads(q, p),
         NEW i \in 1 .. NumChunks(Len(q))
  PROVE  i \in 1 .. NumChunks(Len(p)) /\ Chunks(q)[i] = Chunks(p)[i]
<1>1. DOMAIN Chunks(q) = 1 .. NumChunks(Len(q)) /\ DOMAIN Chunks(p) = 1 .. NumChunks(Len(p))
  BY DEF Chunks
<1> QED
  BY <1>1 DEF Leads

LEMMA LeadKV ==
  ASSUME NEW p \in Seq(Content) \ {<<>>}, NEW q \in Seq(Content) \ {<<>>}, Leads(q, p),
         NEW j \in 1 .. Len(q)
  PROVE  KV(q, j) = KV(p, j)
<1>1. /\ p \in Seq(Content) /\ q \in Seq(Content) /\ p # <<>> /\ q # <<>>
      /\ Len(p) \in Nat \ {0} /\ Len(q) \in Nat \ {0} /\ j \in Nat \ {0}
  OBVIOUS
<1>2. ASSUME NEW h \in 1 .. j PROVE p[h] \in Content /\ q[h] \in Content /\ p[h] = q[h]
  <2>1. h \in 1 .. Len(q) /\ h \in Nat \ {0}
    BY <1>1
  <2>2. /\ ChunkOf(h) \in 1 .. NumChunks(Len(q)) /\ PlaceOf(h) \in DOMAIN ChunkBlocks(q, ChunkOf(h))
        /\ ChunkBlocks(q, ChunkOf(h))[PlaceOf(h)] = q[h]
    BY <1>1, <2>1, BlockInChunk
  <2>3. ChunkOf(h) \in 1 .. NumChunks(Len(p)) /\ Chunks(q)[ChunkOf(h)] = Chunks(p)[ChunkOf(h)]
    BY <2>2, LeadChunks
  <2>4. ChunkBlocks(q, ChunkOf(h)) = ChunkBlocks(p, ChunkOf(h))
    BY <2>2, <2>3 DEF Chunks
  <2>5. PICK m \in 1 .. Len(p) : /\ m = (ChunkOf(h) - 1) * BlocksPerChunk + PlaceOf(h)
                                 /\ ChunkBlocks(p, ChunkOf(h))[PlaceOf(h)] = p[m]
    BY <1>1, <2>2, <2>3, <2>4, BlockOfChunk
  <2>6. m = h
    BY <2>1, <2>5, ChunkOfBlock
  <2> QED
    BY <1>1, <2>1, <2>2, <2>4, <2>5, <2>6, ElementOfSeq
<1> QED
  BY <1>1, <1>2, SameBlocks

LEMMA LeadPayloads ==
  ASSUME NEW p \in Seq(Content) \ {<<>>}, NEW q \in Seq(Content) \ {<<>>}, Leads(q, p),
         NEW i \in 1 .. NumChunks(Len(q))
  PROVE  i \in 1 .. NumChunks(Len(p)) /\ ChunkKV(q, i) = ChunkKV(p, i)
<1>1. i \in 1 .. NumChunks(Len(p)) /\ Chunks(q)[i] = Chunks(p)[i]
  BY LeadChunks
<1>2. Chunks(q)[i] = ChunkBlocks(q, i) /\ q \in Seq(Content) /\ q # <<>>
  BY DEF Chunks
<1>3. ASSUME NEW k \in DOMAIN Chunks(q)[i]
      PROVE  KV(q, (i - 1) * BlocksPerChunk + k) = KV(p, (i - 1) * BlocksPerChunk + k)
  <2>1. PICK j \in 1 .. Len(q) : j = (i - 1) * BlocksPerChunk + k
    BY <1>2, <1>3, BlockOfChunk
  <2>2. KV(q, j) = KV(p, j)
    BY LeadKV
  <2> QED
    BY <2>1, <2>2
<1> QED
  BY <1>1, <1>3 DEF ChunkKV

LEMMA LeadsOn ==
  ASSUME NEW p, NEW q, NEW s, Leads(s, q), Leads(q, p)
  PROVE  Leads(s, p) /\ Leads(p, p)
BY DEF Leads

HoldChunks(payloads, p, n) == DOMAIN payloads = 1 .. n /\ \A i \in 1 .. n : payloads[i] = ChunkKV(p, i)
HoldsFirst(buf, blocks, p, n) == \A j \in 1 .. n : buf[blocks[j]] = KV(p, j)

\* Loading what matched makes the first blocks right.
LEMMA LoadIsRight ==
  ASSUME NEW p \in Seq(Content) \ {<<>>}, NEW q \in Seq(Content) \ {<<>>},
         NEW blocks \in Seq(Block), Len(blocks) = Len(p), Injective(blocks),
         NEW buf, DOMAIN buf = Block,
         NEW payloads, HoldChunks(payloads, q, NumChunks(Matched(p, q)))
  PROVE  HoldsFirst(LoadInto(buf, blocks, payloads), blocks, p, Matched(p, q))
<1> SUFFICES ASSUME NEW j \in 1 .. Matched(p, q)
             PROVE  LoadInto(buf, blocks, payloads)[blocks[j]] = KV(p, j)
  BY DEF HoldsFirst
<1> DEFINE e == Matched(p, q)
           n == NumChunks(Matched(p, q))
           i == ChunkOf(j)
           k == PlaceOf(j)
<1>1. /\ e \in 0 .. Len(p) /\ e <= Len(q) /\ n \in 0 .. NumChunks(Len(p)) /\ n <= NumChunks(Len(q))
      /\ \A h \in 1 .. n : Chunks(p)[h] = Chunks(q)[h]
  BY MatchedFacts
<1>2. /\ p \in Seq(Content) /\ q \in Seq(Content) /\ p # <<>> /\ q # <<>> /\ blocks # <<>>
      /\ Len(p) \in Nat \ {0} /\ Len(q) \in Nat \ {0}
  OBVIOUS
<1>3. NumChunks(Len(p)) \in Nat /\ NumChunks(Len(q)) \in Nat
  BY <1>2, ChunkCount
<1>4. n = NumChunks(e) /\ DOMAIN payloads = 1 .. n /\ \A h \in 1 .. n : payloads[h] = ChunkKV(q, h)
  BY DEF HoldChunks
<1>5. j \in 1 .. e
  OBVIOUS
<1> HIDE DEF e, n
<1>6. e \in Nat \ {0} /\ j \in 1 .. Len(p) /\ j \in 1 .. Len(q) /\ n \in Nat /\ j \in Nat \ {0}
  BY <1>1, <1>2, <1>3, <1>5
<1>7. i \in 1 .. n /\ i <= n /\ i \in 1 .. NumChunks(Len(p)) /\ i \in 1 .. NumChunks(Len(q))
  <2>1. i \in 1 .. n
    BY <1>4, <1>5, <1>6, ChunkOfFirst
  <2> HIDE DEF i
  <2> QED
    BY <1>1, <1>3, <1>6, <2>1
<1>8. k \in DOMAIN ChunkBlocks(q, i) /\ j = (i - 1) * BlocksPerChunk + k
  <2>1. k \in DOMAIN ChunkBlocks(q, i)
    BY <1>2, <1>6, BlockInChunk
  <2> QED
    BY <1>6, <2>1, ChunkOfBlock
<1>9. blocks[j] \in Block
  BY <1>6
<1>10. LoadInto(buf, blocks, payloads)[blocks[j]] = Split(payloads[i], Len(ChunkBlocks(blocks, i)))[k]
  <2>1. n <= NumChunks(Len(blocks)) /\ j \in 1 .. Len(blocks) /\ ChunkOf(j) <= n
    BY <1>1, <1>3, <1>6, <1>7
  <2> HIDE DEF i, k
  <2>2. n \in Nat /\ blocks # <<>> /\ blocks[j] \in DOMAIN buf /\ DOMAIN payloads = 1 .. n
    BY <1>2, <1>4, <1>6, <1>9
  <2>3. LoadInto(buf, blocks, payloads)[blocks[j]] =
           Split(payloads[ChunkOf(j)], Len(ChunkBlocks(blocks, ChunkOf(j))))[PlaceOf(j)]
    BY <2>1, <2>2, Loaded
  <2> QED
    BY <2>3 DEF i, k
<1> HIDE DEF i, k
<1>11. payloads[i] = ChunkKV(q, i)
  BY <1>4, <1>7
<1>12. Len(ChunkKV(q, i)) = Len(ChunkBlocks(q, i)) /\ Chunks(q)[i] = ChunkBlocks(q, i)
  BY <1>7, ChunkKVFacts
<1>13. Len(ChunkBlocks(blocks, i)) = Len(ChunkBlocks(p, i)) /\ Chunks(p)[i] = ChunkBlocks(p, i)
  BY <1>7, ChunkKVFacts
<1>14. ChunkBlocks(p, i) = ChunkBlocks(q, i)
  BY <1>1, <1>7, <1>12, <1>13
<1>15. Split(payloads[i], Len(ChunkBlocks(blocks, i))) = ChunkKV(q, i)
  BY <1>11, <1>12, <1>13, <1>14 DEF Split
<1>16. ChunkKV(q, i)[k] = KV(q, j)
  BY <1>8, <1>12 DEF ChunkKV
<1>17. KV(p, j) = KV(q, j)
  BY <1>5, SameKV DEF e
<1> QED
  BY <1>10, <1>15, <1>16, <1>17

\* What save_from makes of blocks that are right.
LEMMA SaveIsRight ==
  ASSUME NEW p \in Seq(Content) \ {<<>>}, NEW blocks \in Seq(Block), Len(blocks) = Len(p),
         NEW buf, \A j \in 1 .. Len(p) : buf[blocks[j]] = KV(p, j),
         NEW i \in 1 .. NumChunks(Len(p))
  PROVE  SaveFrom(buf, blocks, NumChunks(Len(p)))[i] = ChunkKV(p, i)
<1>1. /\ Chunks(p)[i] = ChunkBlocks(p, i) /\ DOMAIN ChunkBlocks(blocks, i) = DOMAIN Chunks(p)[i]
  BY ChunkKVFacts
<1>2. blocks # <<>> /\ i \in 1 .. NumChunks(Len(blocks))
  OBVIOUS
<1>3. ASSUME NEW k \in DOMAIN ChunkBlocks(blocks, i)
      PROVE  buf[ChunkBlocks(blocks, i)[k]] = KV(p, (i - 1) * BlocksPerChunk + k)
  <2>1. PICK j \in 1 .. Len(blocks) : /\ j = (i - 1) * BlocksPerChunk + k
                                      /\ ChunkBlocks(blocks, i)[k] = blocks[j]
    BY <1>2, BlockOfChunk
  <2> QED
    BY <2>1
<1>4. SaveFrom(buf, blocks, NumChunks(Len(p)))[i] =
         [k \in DOMAIN ChunkBlocks(blocks, i) |-> buf[ChunkBlocks(blocks, i)[k]]]
  BY DEF SaveFrom
<1> QED
  BY <1>1, <1>3, <1>4 DEF ChunkKV
-----------------------------------------------------------------------------
(***************************************************************************)
(* The invariant: where the requests are, the plans made for them, the     *)
(* phase of the step, and what is stored.                                  *)
(***************************************************************************)
Position == [at : {"waiting", "lookup", "matched", "scheduled", "running"},
             computed : Nat, external : Nat, blocks : Seq(Block)]

\* A request has blocks for its prompt, all different, once they are allocated.
Placed(r) ==
    /\ req[r] \in Position
    /\ req[r].computed + req[r].external <= Len(PromptOf[r])
    /\ req[r].at \in {"waiting", "lookup"} => req[r].external = 0
    /\ IF req[r].at \in {"scheduled", "running"}
       THEN Len(req[r].blocks) = Len(PromptOf[r]) /\ Injective(req[r].blocks)
       ELSE req[r].blocks = <<>>

ReqInv == DOMAIN req = Request /\ \A r \in Request : Placed(r)

\* A plan is what was made for a request whose blocks are still the same.
LoadPlan(op) == \E r \in At("scheduled") : CacheOf[r] \in CacheId /\ op = LoadOp(r, req[r].blocks)
Saved(r, d) == [SaveOp(r, req[r].blocks) EXCEPT !.done = d]
SavePlan(op, rs) == \E r \in rs : \E d \in 0 .. NumChunks(Len(PromptOf[r])) :
                       CacheOf[r] \in CacheId /\ r \in Saving /\ op = Saved(r, d)

PlansInv ==
    /\ \A op \in pendingLoads \union meta.loads : LoadPlan(op)
    /\ \A op \in pendingSaves : SavePlan(op, At("scheduled")) /\ op.done = 0
    /\ \A op \in meta.saves : SavePlan(op, At("scheduled") \union At("running"))

PhaseInv ==
    /\ phase \in {"schedule", "load", "save", "raised"}
    /\ meta = [loads |-> meta.loads, saves |-> meta.saves]
    /\ phase = "schedule" => meta.loads = {} /\ meta.saves = {}
    /\ phase \in {"load", "save"} => pendingLoads = {} /\ pendingSaves = {} /\ InScheduler = {}
    /\ phase = "load" => \A op \in meta.saves : op.done = 0
    /\ phase = "save" => meta.loads = {} /\ At("scheduled") = {}

StoreInv ==
    /\ table \in [CacheId -> Prompts \union {None}]
    /\ store \in [CacheId \X Index -> Seq(BlockKV \union {None}) \union {None}]
    /\ buffer \in [Block -> BlockKV \union {None}]
    /\ hashed \in [Block -> BlockKV \union {None}]

TypeInv == ReqInv /\ PlansInv /\ PhaseInv /\ StoreInv

\* A registration under way: of a prompt for the id, and so many chunks put.
Registering(x) == \E c \in CacheId : \E p \in ClientPrompts[c] : \E d \in 0 .. NumChunks(Len(p)) :
                     x = [cache |-> c, prompt |-> p, done |-> d]

CallInv == DOMAIN call = Client /\ \A t \in Client : call[t] = None \/ Registering(call[t])

\* Without a prefix cache of vLLM's own, a block is of one request, at one place.
Own == \A r, s \in Request : \A i \in DOMAIN req[r].blocks, j \in DOMAIN req[s].blocks :
          req[r].blocks[i] = req[s].blocks[j] => r = s /\ i = j

OwnInv ==
    /\ \A b \in Block : hashed[b] = None
    /\ \A r \in Request : req[r].computed = 0
    /\ Own

\* q is at the head of all that is, or will be, registered under the id.
AtHead(q, c) == /\ \A p \in ClientPrompts[c] : Leads(q, p)
                /\ Exists(c) => Leads(q, table[c])

\* What matched is still there to be loaded.
StillMatched(r) == \E q \in Prompts : /\ AtHead(q, CacheOf[r])
                                      /\ req[r].external = Matched(PromptOf[r], q)
Planned(r) == LoadOp(r, req[r].blocks) \in pendingLoads \union meta.loads

\* What vLLM has been told is loaded is loaded, or is planned and still what matches.
LoadsInv ==
    /\ \A r \in At("matched") : req[r].external > 0 => Exists(CacheOf[r]) /\ StillMatched(r)
    /\ \A r \in At("scheduled") : IF Planned(r) THEN StillMatched(r) ELSE Right(r, req[r].external)

\* Under an id that clients register there is their prompt, or a save that leads it.
SharedInv ==
    \A c \in CacheId : \A p \in ClientPrompts[c] :
       /\ table[c] # None => Leads(table[c], p)
       /\ \A i \in Index : store[<<c, i>>] # None =>
             i \in 1 .. NumChunks(Len(p)) /\ store[<<c, i>>] = ChunkKV(p, i)

\* The chunks that a save has put are those of its prompt, or gone; one save at a time.
PutInv ==
    /\ \A op \in meta.saves : \A i \in 1 .. op.done : store[<<op.cache, i>>] \in {None, ChunkKV(op.prompt, i)}
    /\ \A op, o \in meta.saves : op # o => op.done = 0 \/ o.done = 0

\* What is right in the stores, and what has to be for it to stay so.
RightInv == SharedInv /\ PutInv /\ SavedIsRight

KVInv == TypeInv /\ CallInv /\ OwnInv /\ LoadsInv /\ RightInv /\ RunsOnItsOwnKV

-----------------------------------------------------------------------------
\* What the invariant is made of.
LEMMA RequestPrompt ==
  ASSUME NEW r \in Request
  PROVE  /\ PromptOf[r] \in Seq(Content) \ {<<>>} /\ PromptOf[r] \in Seq(Content)
         /\ Len(PromptOf[r]) \in Nat \ {0} /\ DOMAIN PromptOf[r] = 1 .. Len(PromptOf[r])
<1>1. PromptOf[r] \in Seq(Content) \ {<<>>}
  BY PromptsAssumption
<1> QED
  BY <1>1

LEMMA AnyPrompt ==
  ASSUME NEW p \in Prompts
  PROVE  /\ p \in Seq(Content) \ {<<>>} /\ p \in Seq(Content) /\ p # <<>>
         /\ Len(p) \in Nat \ {0} /\ DOMAIN p = 1 .. Len(p)
<1>1. p \in Seq(Content) \ {<<>>}
  <2>1. CASE \E r \in Request : p = PromptOf[r]
    BY <2>1, PromptsAssumption
  <2>2. CASE \E c \in CacheId : p \in ClientPrompts[c]
    BY <2>2, ClientsAssumption
  <2> QED
    BY <2>1, <2>2 DEF Prompts
<1> QED
  BY <1>1

LEMMA RequestsArePrompts ==
  ASSUME NEW r \in Request
  PROVE  PromptOf[r] \in Prompts
BY DEF Prompts

LEMMA ClientsArePrompts ==
  ASSUME NEW c \in CacheId, NEW p \in ClientPrompts[c]
  PROVE  p \in Prompts
BY DEF Prompts

LEMMA MoreChunks ==
  ASSUME NEW m \in Nat, NEW n \in Nat, m <= n
  PROVE  NumChunks(m) \in Nat /\ NumChunks(n) \in Nat /\ NumChunks(m) <= NumChunks(n)
<1>1. CASE m = 0
  <2>1. n = 0 \/ n \in Nat \ {0}
    OBVIOUS
  <2> QED
    BY <1>1, <2>1, NoChunks, ChunkCount
<1>2. CASE m # 0
  <2>1. m \in Nat \ {0} /\ n \in Nat \ {0} /\ m \in 1 .. n
    BY <1>2
  <2>2. /\ NumChunks(m) \in Nat \ {0} /\ (NumChunks(m) - 1) * BlocksPerChunk \in Nat
        /\ (NumChunks(m) - 1) * BlocksPerChunk < m
        /\ NumChunks(n) \in Nat \ {0} /\ NumChunks(n) * BlocksPerChunk \in Nat
        /\ n <= NumChunks(n) * BlocksPerChunk
    BY <2>1, ChunkCount
  <2>3. ~(NumChunks(n) < NumChunks(m))
    <3> SUFFICES ASSUME NumChunks(n) < NumChunks(m) PROVE FALSE
      OBVIOUS
    <3>1. NumChunks(m) - 1 \in Nat /\ (NumChunks(n) = NumChunks(m) - 1 \/ NumChunks(n) < NumChunks(m) - 1)
      BY <2>2
    <3>2. NumChunks(n) * BlocksPerChunk <= (NumChunks(m) - 1) * BlocksPerChunk
      BY <2>2, <3>1, Whole, BlocksAssumption
    <3> QED
      BY <2>2, <3>2
  <2> QED
    BY <2>2, <2>3
<1> QED
  BY <1>1, <1>2

LEMMA Computed ==
  ASSUME NEW r \in Request
  PROVE  /\ ComputedBlocks(PromptOf[r]) \in Nat
         /\ ComputedBlocks(PromptOf[r]) <= Len(PromptOf[r])
<1> DEFINE L == Len(PromptOf[r]) - 1
           T == {n \in 1 .. L : \A j \in 1 .. n : \E b \in Block : hashed[b] = KV(PromptOf[r], j)}
<1>1. L \in Nat /\ L <= Len(PromptOf[r]) /\ Len(PromptOf[r]) \in Nat
  BY RequestPrompt
<1> HIDE DEF L
<1>2. IsFiniteSet(1 .. L) /\ Cardinality(1 .. L) = (IF 1 > L THEN 0 ELSE L - 1 + 1)
  BY <1>1, FS_Interval
<1>3. T \subseteq 1 .. L
  OBVIOUS
<1>4. ComputedBlocks(PromptOf[r]) = Cardinality(T)
  BY DEF ComputedBlocks, L
<1> HIDE DEF T
<1>5. IsFiniteSet(T) /\ Cardinality(T) <= Cardinality(1 .. L)
  BY <1>2, <1>3, FS_Subset
<1>6. Cardinality(T) \in Nat
  BY <1>5, FS_CardinalityType
<1> QED
  BY <1>1, <1>2, <1>4, <1>5, <1>6

LEMMA Allocates ==
  ASSUME NEW r \in Request, NEW blocks \in Allocation(r)
  PROVE  blocks \in Seq(Block) /\ Len(blocks) = Len(PromptOf[r]) /\ Injective(blocks)
<1>1. blocks \in [DOMAIN PromptOf[r] -> Block] /\ \A i, j \in DOMAIN PromptOf[r] : i # j => blocks[i] # blocks[j]
  BY DEF Allocation
<1>2. DOMAIN PromptOf[r] = 1 .. Len(PromptOf[r]) /\ Len(PromptOf[r]) \in Nat
  BY RequestPrompt
<1> QED
  BY <1>1, <1>2 DEF Injective

LEMMA RegisteredPrompt ==
  ASSUME StoreInv, NEW c, c \in CacheId \union {None}, Exists(c)
  PROVE  table[c] \in Prompts
BY DEF StoreInv, Exists

\* What lookup finds for a request.
LEMMA MatchedForRequest ==
  ASSUME StoreInv, NEW r \in Request, Exists(CacheOf[r])
  PROVE  Matched(PromptOf[r], table[CacheOf[r]]) \in 0 .. Len(PromptOf[r])
<1>1. table[CacheOf[r]] \in Prompts
  BY CachesAssumption, RegisteredPrompt
<1>2. PromptOf[r] \in Seq(Content) \ {<<>>} /\ table[CacheOf[r]] \in Seq(Content) \ {<<>>}
  BY <1>1, RequestPrompt, AnyPrompt
<1> QED
  BY <1>2, MatchedFacts

-----------------------------------------------------------------------------
(***************************************************************************)
(* What each step does to the requests.                                    *)
(***************************************************************************)
OnlyMoves(r) == DOMAIN req' = DOMAIN req /\ \A s \in Request \ {r} : req'[s] = req[s]

LEMMA Moves ==
  ASSUME ReqInv, NEW r \in Request, OnlyMoves(r), Placed(r)'
  PROVE  ReqInv'
<1>1. DOMAIN req' = Request
  BY DEF OnlyMoves, ReqInv
<1>2. ASSUME NEW s \in Request PROVE Placed(s)'
  <2>1. CASE s = r
    BY <2>1
  <2>2. CASE s # r
    BY <2>2 DEF OnlyMoves, ReqInv, Placed
  <2> QED
    BY <2>1, <2>2
<1> QED
  BY <1>1, <1>2 DEF ReqInv

LEMMA MatchMoves ==
  ASSUME ReqInv, NEW r \in Request, Match(r)
  PROVE  /\ ReqInv' /\ OnlyMoves(r)
         /\ req[r].at = "waiting" /\ req'[r].at = IF Exists(CacheOf[r]) THEN "lookup" ELSE "matched"
         /\ req'[r].computed = ComputedBlocks(PromptOf[r]) /\ req'[r].external = 0
         /\ req'[r].blocks = <<>>
<1>1. r \in DOMAIN req /\ Placed(r) /\ req[r] \in Position /\ req[r].at = "waiting"
  BY DEF ReqInv, Placed, Match, At
<1>2. req[r].external = 0 /\ req[r].blocks = <<>>
  BY <1>1 DEF Placed
<1>3. /\ OnlyMoves(r)
      /\ req'[r] = [req[r] EXCEPT !.at = IF Exists(CacheOf[r]) THEN "lookup" ELSE "matched",
                                  !.computed = ComputedBlocks(PromptOf[r])]
  BY <1>1 DEF Match, OnlyMoves
<1>4. /\ req'[r].at = IF Exists(CacheOf[r]) THEN "lookup" ELSE "matched"
      /\ req'[r].computed = ComputedBlocks(PromptOf[r])
      /\ req'[r].external = req[r].external /\ req'[r].blocks = req[r].blocks
  BY <1>1, <1>3 DEF Position
<1>5. ComputedBlocks(PromptOf[r]) \in Nat /\ ComputedBlocks(PromptOf[r]) <= Len(PromptOf[r])
  BY Computed
<1>6. req'[r] \in Position
  BY <1>1, <1>3, <1>5 DEF Position
<1>7. Placed(r)'
  BY <1>2, <1>4, <1>5, <1>6 DEF Placed
<1> QED
  BY <1>1, <1>2, <1>3, <1>4, <1>7, Moves

LEMMA LookupMoves ==
  ASSUME ReqInv, StoreInv, NEW r \in Request, Lookup(r), phase' # "raised"
  PROVE  /\ ReqInv' /\ OnlyMoves(r) /\ Exists(CacheOf[r])
         /\ req[r].at = "lookup" /\ req'[r].at = "matched"
         /\ req'[r].computed = req[r].computed /\ req'[r].blocks = <<>>
         /\ req'[r].external > 0 =>
               req'[r].external = Matched(PromptOf[r], table[CacheOf[r]]) - req[r].computed
<1> DEFINE found == Matched(PromptOf[r], table[CacheOf[r]])
           external == found - req[r].computed
<1>1. r \in DOMAIN req /\ Placed(r) /\ req[r] \in Position /\ req[r].at = "lookup"
  BY DEF ReqInv, Placed, Lookup, At
<1>2. req[r].external = 0 /\ req[r].blocks = <<>> /\ req[r].computed \in Nat /\ req[r].computed <= Len(PromptOf[r])
  BY <1>1, RequestPrompt DEF Placed, Position
<1>3. Exists(CacheOf[r])
  BY DEF Lookup, Raise
<1>4. found \in 0 .. Len(PromptOf[r]) /\ Len(PromptOf[r]) \in Nat
  BY <1>3, MatchedForRequest, RequestPrompt
<1>5. req' = [req EXCEPT ![r] = [@ EXCEPT !.at = "matched",
                                         !.external = IF external > 0 THEN external ELSE 0]]
  BY DEF Lookup, Raise
<1> HIDE DEF found
<1>6. /\ OnlyMoves(r)
      /\ req'[r] = [req[r] EXCEPT !.at = "matched", !.external = IF external > 0 THEN external ELSE 0]
  BY <1>1, <1>5 DEF OnlyMoves
<1>7. /\ req'[r].at = "matched" /\ req'[r].computed = req[r].computed /\ req'[r].blocks = req[r].blocks
      /\ req'[r].external = IF external > 0 THEN external ELSE 0
  BY <1>1, <1>6 DEF Position
<1>8. /\ (IF external > 0 THEN external ELSE 0) \in Nat
      /\ req[r].computed + (IF external > 0 THEN external ELSE 0) <= Len(PromptOf[r])
  BY <1>2, <1>4
<1>9. req'[r] \in Position
  BY <1>1, <1>6, <1>8 DEF Position
<1>10. Placed(r)'
  BY <1>2, <1>7, <1>8, <1>9 DEF Placed
<1>11. ReqInv'
  BY <1>6, <1>10, Moves
<1> HIDE DEF external
<1>12. req'[r].external > 0 => req'[r].external = external
  BY <1>7
<1> QED
  BY <1>1, <1>2, <1>3, <1>6, <1>7, <1>11, <1>12 DEF external, found

LEMMA AllocMoves ==
  ASSUME ReqInv, NEW r \in Request, NEW blocks \in Allocation(r), r \in At("matched"),
         req' = [req EXCEPT ![r] = [@ EXCEPT !.at = "scheduled", !.blocks = blocks]]
  PROVE  /\ ReqInv' /\ OnlyMoves(r)
         /\ req[r].at = "matched" /\ req'[r].at = "scheduled"
         /\ req'[r].computed = req[r].computed /\ req'[r].external = req[r].external
         /\ req'[r].blocks = blocks
<1>1. r \in DOMAIN req /\ Placed(r) /\ req[r] \in Position /\ req[r].at = "matched"
  BY DEF ReqInv, Placed, At
<1>2. /\ OnlyMoves(r)
      /\ req'[r] = [req[r] EXCEPT !.at = "scheduled", !.blocks = blocks]
  BY <1>1 DEF OnlyMoves
<1>3. /\ req'[r].at = "scheduled" /\ req'[r].computed = req[r].computed
      /\ req'[r].external = req[r].external /\ req'[r].blocks = blocks
  BY <1>1, <1>2 DEF Position
<1>4. blocks \in Seq(Block) /\ Len(blocks) = Len(PromptOf[r]) /\ Injective(blocks)
  BY Allocates
<1>5. req'[r] \in Position
  BY <1>1, <1>2, <1>4 DEF Position
<1>6. Placed(r)'
  BY <1>1, <1>3, <1>4, <1>5 DEF Placed
<1> QED
  BY <1>1, <1>2, <1>3, <1>6, Moves

LEMMA FinishMoves ==
  ASSUME ReqInv, NEW r \in Request, Finish(r)
  PROVE  /\ ReqInv' /\ OnlyMoves(r)
         /\ req[r].at = "running" /\ req'[r] = Waiting
<1>1. r \in DOMAIN req /\ req[r].at = "running"
  BY DEF ReqInv, Finish, At
<1>2. OnlyMoves(r) /\ req'[r] = Waiting
  BY <1>1 DEF Finish, OnlyMoves
<1>3. Waiting \in Position /\ Len(PromptOf[r]) \in Nat
  BY RequestPrompt DEF Waiting, Position
<1>4. Placed(r)'
  BY <1>2, <1>3 DEF Placed, Waiting
<1> QED
  BY <1>1, <1>2, <1>4, Moves

LEMMA ForwardMoves ==
  ASSUME ReqInv, Forward
  PROVE  /\ ReqInv'
         /\ \A r \in Request :
               /\ req'[r].computed = req[r].computed /\ req'[r].external = req[r].external
               /\ req'[r].blocks = req[r].blocks
               /\ req[r].at = "scheduled" => req'[r].at = "running"
               /\ req[r].at # "scheduled" => req'[r] = req[r]
<1>1. req' = [r \in Request |-> IF r \in At("scheduled") THEN [req[r] EXCEPT !.at = "running"] ELSE req[r]]
  BY DEF Forward
<1>2. ASSUME NEW r \in Request
      PROVE  /\ Placed(r)'
             /\ req'[r].computed = req[r].computed /\ req'[r].external = req[r].external
             /\ req'[r].blocks = req[r].blocks
             /\ req[r].at = "scheduled" => req'[r].at = "running"
             /\ req[r].at # "scheduled" => req'[r] = req[r]
  <2>1. Placed(r) /\ req[r] \in Position
    BY DEF ReqInv, Placed
  <2>2. CASE r \in At("scheduled")
    <3>1. req[r].at = "scheduled" /\ req'[r] = [req[r] EXCEPT !.at = "running"]
      BY <1>1, <2>2 DEF At
    <3>2. /\ req'[r].at = "running" /\ req'[r].computed = req[r].computed
          /\ req'[r].external = req[r].external /\ req'[r].blocks = req[r].blocks
          /\ req'[r] \in Position
      BY <2>1, <3>1 DEF Position
    <3>3. Placed(r)'
      BY <2>1, <3>1, <3>2 DEF Placed
    <3> QED
      BY <3>1, <3>2, <3>3
  <2>3. CASE r \notin At("scheduled")
    <3>1. req[r].at # "scheduled" /\ req'[r] = req[r]
      BY <1>1, <2>3 DEF At
    <3> QED
      BY <2>1, <3>1 DEF Placed
  <2> QED
    BY <2>2, <2>3
<1> QED
  BY <1>1, <1>2 DEF ReqInv

\* The requests stay where they are.
LEMMA Rests ==
  ASSUME ReqInv, req' = req
  PROVE  ReqInv'
BY DEF ReqInv, Placed

-----------------------------------------------------------------------------
(***************************************************************************)
(* What each step does to the plans.                                       *)
(***************************************************************************)
LEMMA SamePlans ==
  ASSUME NEW op, \A s \in At("scheduled") : req'[s] = req[s]
  PROVE  /\ LoadPlan(op) => LoadPlan(op)'
         /\ SavePlan(op, At("scheduled")) => SavePlan(op, At("scheduled"))'
<1>1. At("scheduled") \subseteq At("scheduled")'
  BY DEF At
<1>2. \A r \in At("scheduled") : /\ LoadOp(r, req[r].blocks) = LoadOp(r, req[r].blocks)'
                                 /\ \A d : Saved(r, d) = Saved(r, d)'
  BY DEF LoadOp, SaveOp, Saved
<1>3. ASSUME LoadPlan(op) PROVE LoadPlan(op)'
  BY <1>1, <1>2, <1>3 DEF LoadPlan
<1>4. ASSUME SavePlan(op, At("scheduled")) PROVE SavePlan(op, At("scheduled"))'
  BY <1>1, <1>2, <1>4 DEF SavePlan
<1> QED
  BY <1>3, <1>4

\* A step of the scheduler leaves the requests alone that have plans.
LEMMA SchedulerStep ==
  ASSUME PlansInv, PhaseInv, phase = "schedule", NEW r \in Request, OnlyMoves(r), r \notin At("scheduled"),
         UNCHANGED <<pendingLoads, pendingSaves, meta, phase>>
  PROVE  PlansInv' /\ PhaseInv'
<1>1. \A s \in At("scheduled") : req'[s] = req[s]
  BY DEF OnlyMoves, At
<1>2. PhaseInv'
  BY DEF PhaseInv
<1>3. meta.loads = {} /\ meta.saves = {}
  BY DEF PhaseInv
<1>4. /\ \A op \in pendingLoads : LoadPlan(op)'
      /\ \A op \in pendingSaves : SavePlan(op, At("scheduled"))' /\ op.done = 0
  BY <1>1, SamePlans DEF PlansInv
<1> QED
  BY <1>2, <1>3, <1>4 DEF PlansInv

\* A step of other clients, or one that raises, leaves requests and plans alone.
LEMMA OutsideStep ==
  ASSUME PlansInv, PhaseInv, UNCHANGED <<req, pendingLoads, pendingSaves, meta>>,
         phase' \in {phase, "raised"}
  PROVE  PlansInv' /\ PhaseInv'
<1>1. \A l : At(l)' = At(l)
  BY DEF At
<1>2. \A op : LoadPlan(op) <=> LoadPlan(op)'
  BY <1>1 DEF LoadPlan, LoadOp
<1>3. \A op, rs : SavePlan(op, rs) <=> SavePlan(op, rs)'
  BY DEF SavePlan, Saved, SaveOp
<1>4. PhaseInv'
  BY <1>1 DEF PhaseInv, InScheduler
<1> QED
  BY <1>1, <1>2, <1>3, <1>4 DEF PlansInv

LEMMA AllocPlans ==
  ASSUME ReqInv, PlansInv, PhaseInv, NEW r \in Request, Alloc(r)
  PROVE  ReqInv' /\ PlansInv' /\ PhaseInv'
<1>1. PICK blocks \in Allocation(r) :
         /\ req' = [req EXCEPT ![r] = [@ EXCEPT !.at = "scheduled", !.blocks = blocks]]
         /\ pendingLoads' = IF req[r].external > 0 /\ Exists(CacheOf[r])
                            THEN pendingLoads \union {LoadOp(r, blocks)} ELSE pendingLoads
         /\ pendingSaves' = IF CacheOf[r] # None /\ r \in Saving
                            THEN pendingSaves \union {SaveOp(r, blocks)} ELSE pendingSaves
  BY DEF Alloc
<1>2. r \in At("matched") /\ phase = "schedule" /\ phase' = "schedule" /\ meta' = meta
  BY DEF Alloc
<1>3. /\ ReqInv' /\ OnlyMoves(r)
      /\ req[r].at = "matched" /\ req'[r].at = "scheduled"
      /\ req'[r].external = req[r].external /\ req'[r].blocks = blocks
  BY <1>1, <1>2, AllocMoves
<1>4. \A s \in At("scheduled") : req'[s] = req[s]
  BY <1>3 DEF OnlyMoves, At
<1>5. r \in At("scheduled")'
  BY <1>3 DEF At
<1>6. /\ LoadOp(r, blocks) = LoadOp(r, req[r].blocks)' /\ SaveOp(r, blocks) = Saved(r, 0)'
      /\ SaveOp(r, blocks).done = 0 /\ 0 \in 0 .. NumChunks(Len(PromptOf[r]))
  <2>1. NumChunks(Len(PromptOf[r])) \in Nat \ {0}
    BY RequestPrompt, ChunkCount
  <2> QED
    BY <1>3, <2>1 DEF LoadOp, SaveOp, Saved
<1>7. CacheOf[r] # None => CacheOf[r] \in CacheId
  BY CachesAssumption
<1>8. meta.loads = {} /\ meta.saves = {}
  BY <1>2 DEF PhaseInv
<1>9. ASSUME NEW op \in pendingLoads' PROVE LoadPlan(op)'
  <2>1. CASE op \in pendingLoads
    BY <1>4, <2>1, SamePlans DEF PlansInv
  <2>2. CASE op = LoadOp(r, blocks) /\ Exists(CacheOf[r])
    BY <1>5, <1>6, <1>7, <2>2 DEF LoadPlan, Exists
  <2> QED
    BY <1>1, <2>1, <2>2
<1>10. ASSUME NEW op \in pendingSaves' PROVE SavePlan(op, At("scheduled"))' /\ op.done = 0
  <2>1. CASE op \in pendingSaves
    BY <1>4, <2>1, SamePlans DEF PlansInv
  <2>2. CASE op = SaveOp(r, blocks) /\ CacheOf[r] # None /\ r \in Saving
    BY <1>5, <1>6, <1>7, <2>2 DEF SavePlan
  <2> QED
    BY <1>1, <2>1, <2>2
<1>11. PlansInv'
  BY <1>2, <1>8, <1>9, <1>10 DEF PlansInv
<1>12. PhaseInv'
  BY <1>2, <1>8 DEF PhaseInv
<1> QED
  BY <1>3, <1>11, <1>12

LEMMA BuildPlans ==
  ASSUME ReqInv, PlansInv, PhaseInv, BuildMeta
  PROVE  ReqInv' /\ PlansInv' /\ PhaseInv'
<1>1. /\ req' = req /\ phase = "schedule" /\ phase' = "load" /\ InScheduler = {}
      /\ meta' = [loads |-> pendingLoads, saves |-> pendingSaves]
      /\ pendingLoads' = {} /\ pendingSaves' = {}
  BY DEF BuildMeta
<1>2. meta'.loads = pendingLoads /\ meta'.saves = pendingSaves
  BY <1>1
<1>3. \A l : At(l)' = At(l)
  BY <1>1 DEF At
<1>4. ReqInv'
  BY <1>1, Rests
<1>5. /\ \A op \in meta'.loads : LoadPlan(op)'
      /\ \A op \in meta'.saves : SavePlan(op, At("scheduled"))' /\ op.done = 0
  BY <1>1, <1>2, SamePlans DEF PlansInv
<1>6. ASSUME NEW op \in meta'.saves PROVE SavePlan(op, At("scheduled") \union At("running"))'
  BY <1>5 DEF SavePlan
<1>7. PlansInv'
  BY <1>1, <1>5, <1>6 DEF PlansInv
<1>8. InScheduler' = {}
  BY <1>1, <1>3 DEF InScheduler
<1>9. phase' \in {"schedule", "load", "save", "raised"} /\ phase' # "schedule" /\ phase' # "save"
  BY <1>1
<1>10. PhaseInv'
  BY <1>1, <1>2, <1>5, <1>8, <1>9 DEF PhaseInv
<1> QED
  BY <1>4, <1>7, <1>10

\* A plan has been carried out.
LEMMA LessToDo ==
  ASSUME ReqInv, PlansInv, PhaseInv, UNCHANGED <<req, pendingLoads, pendingSaves, phase>>,
         meta' = [loads |-> meta'.loads, saves |-> meta'.saves],
         meta'.loads \subseteq meta.loads, meta'.saves \subseteq meta.saves
  PROVE  ReqInv' /\ PlansInv' /\ PhaseInv'
<1>1. \A l : At(l)' = At(l)
  BY DEF At
<1>2. \A op : LoadPlan(op) <=> LoadPlan(op)'
  BY <1>1 DEF LoadPlan, LoadOp
<1>3. \A op, rs : SavePlan(op, rs) <=> SavePlan(op, rs)'
  BY DEF SavePlan, Saved, SaveOp
<1>4. PhaseInv'
  BY <1>1 DEF PhaseInv, InScheduler
<1>5. PlansInv'
  BY <1>1, <1>2, <1>3 DEF PlansInv
<1> QED
  BY <1>4, <1>5, Rests

LEMMA ForwardPlans ==
  ASSUME ReqInv, PlansInv, PhaseInv, Forward
  PROVE  ReqInv' /\ PlansInv' /\ PhaseInv'
<1>1. phase = "load" /\ meta.loads = {} /\ phase' = "save" /\ UNCHANGED <<pendingLoads, pendingSaves, meta>>
  BY DEF Forward, pending
<1>2. pendingLoads = {} /\ pendingSaves = {} /\ InScheduler = {}
  BY <1>1 DEF PhaseInv
<1>3. /\ ReqInv'
      /\ \A r \in Request : /\ req'[r].blocks = req[r].blocks
                            /\ req[r].at = "scheduled" => req'[r].at = "running"
                            /\ req[r].at # "scheduled" => req'[r] = req[r]
  BY ForwardMoves
<1>4. At("scheduled")' = {} /\ At("scheduled") \union At("running") \subseteq At("running")'
  BY <1>3 DEF At
<1>5. InScheduler' = {}
  BY <1>2, <1>3 DEF InScheduler, At
<1>6. ASSUME NEW op \in meta.saves
      PROVE  SavePlan(op, At("scheduled") \union At("running"))'
  <2>0. PICK r \in At("scheduled") \union At("running") : \E d \in 0 .. NumChunks(Len(PromptOf[r])) :
           CacheOf[r] \in CacheId /\ r \in Saving /\ op = Saved(r, d)
    BY DEF PlansInv, SavePlan
  <2>1. PICK d \in 0 .. NumChunks(Len(PromptOf[r])) : CacheOf[r] \in CacheId /\ r \in Saving /\ op = Saved(r, d)
    BY <2>0
  <2>2. r \in At("running")' /\ r \in Request
    BY <1>4, <2>1 DEF At
  <2>3. op = Saved(r, d)'
    BY <1>3, <2>1, <2>2 DEF SaveOp, Saved
  <2> QED
    BY <2>1, <2>2, <2>3 DEF SavePlan
<1>7. PlansInv'
  BY <1>1, <1>2, <1>6 DEF PlansInv
<1>8. phase' \in {"schedule", "load", "save", "raised"} /\ phase' # "schedule"
  BY <1>1
<1>9. PhaseInv'
  BY <1>1, <1>2, <1>4, <1>5, <1>8 DEF PhaseInv
<1> QED
  BY <1>3, <1>7, <1>9

-----------------------------------------------------------------------------
(***************************************************************************)
(* What each step does to the stores: all that is read or written is the   *)
(* KV of some prompt, or of none.                                          *)
(***************************************************************************)
\* What a block can hold.
Held == BlockKV \union {None}

LEMMA KVOfPrompt ==
  ASSUME NEW p \in Prompts, NEW j \in 1 .. Len(p)
  PROVE  KV(p, j) \in BlockKV
<1>1. j \in DOMAIN p
  BY AnyPrompt
<1>2. KV(p, j) \in {KV(p, i) : i \in DOMAIN p}
  BY <1>1
<1> QED
  BY <1>2, Zenon DEF BlockKV

\* A prompt is the KV of its last block.
LEMMA PromptIsSomething ==
  ASSUME NEW p \in Prompts
  PROVE  p # None
<1>1. p \in Seq(Content) /\ Len(p) \in Nat \ {0} /\ DOMAIN p = 1 .. Len(p)
  BY AnyPrompt
<1>2. /\ KV(p, Len(p)) \in Seq(Content) /\ Len(KV(p, Len(p))) = (IF 1 <= Len(p) THEN Len(p) - 1 + 1 ELSE 0)
      /\ \A h \in 1 .. Len(p) - 1 + 1 : KV(p, Len(p))[h] = p[1 + h - 1]
  <2>1. \A h \in 1 .. Len(p) : p[h] \in Content
    BY <1>1, ElementOfSeq
  <2>2. 1 \in Int /\ Len(p) \in Int
    BY <1>1
  <2> QED
    BY <2>1, <2>2, SubSeqProperties DEF KV
<1>3. Len(KV(p, Len(p))) = Len(p) /\ \A h \in 1 .. Len(p) : KV(p, Len(p))[h] = p[h]
  <2>1. Len(p) - 1 + 1 = Len(p) /\ \A h \in 1 .. Len(p) : 1 + h - 1 = h
    BY <1>1
  <2> QED
    BY <1>1, <1>2, <2>1
<1>4. KV(p, Len(p)) = p
  BY <1>1, <1>2, <1>3, SeqEqual
<1>5. Len(p) \in DOMAIN p
  BY <1>1
<1>6. KV(p, Len(p)) # None
  BY <1>5, NoneIsNoKV, Zenon
<1> QED
  BY <1>4, <1>6

LEMMA ChunkIndices ==
  ASSUME NEW p \in Prompts
  PROVE  /\ DOMAIN Chunks(p) = 1 .. NumChunks(Len(p))
         /\ NumChunks(Len(p)) \in Nat \ {0}
         /\ Len(Chunks(p)) = NumChunks(Len(p))
         /\ 1 .. NumChunks(Len(p)) \subseteq Index
<1>1. NumChunks(Len(p)) \in Nat \ {0}
  BY AnyPrompt, ChunkCount
<1>2. DOMAIN Chunks(p) = 1 .. NumChunks(Len(p))
  BY DEF Chunks
<1>3. Len(Chunks(p)) = NumChunks(Len(p))
  BY <1>1, <1>2
<1>4. 1 .. NumChunks(Len(p)) \subseteq Index
  BY <1>2 DEF Index
<1> QED
  BY <1>1, <1>2, <1>3, <1>4

LEMMA PayloadType ==
  ASSUME NEW p \in Prompts, NEW i \in 1 .. NumChunks(Len(p))
  PROVE  ChunkKV(p, i) \in Seq(Held)
<1>1. p \in Seq(Content) /\ p # <<>>
  BY AnyPrompt
<1>2. Chunks(p)[i] = ChunkBlocks(p, i)
  BY DEF Chunks
<1>3. PICK w \in 1 .. BlocksPerChunk : DOMAIN ChunkBlocks(p, i) = 1 .. w
  BY <1>1, ChunkBlocksFacts
<1>4. ASSUME NEW k \in 1 .. w PROVE KV(p, (i - 1) * BlocksPerChunk + k) \in Held
  <2>1. k \in DOMAIN ChunkBlocks(p, i)
    BY <1>3
  <2>2. PICK j \in 1 .. Len(p) : j = (i - 1) * BlocksPerChunk + k
    BY <1>1, <2>1, BlockOfChunk
  <2>3. KV(p, j) \in BlockKV
    BY KVOfPrompt
  <2> QED
    BY <2>2, <2>3 DEF Held
<1>5. ChunkKV(p, i) = [k \in 1 .. w |-> KV(p, (i - 1) * BlocksPerChunk + k)]
  BY <1>2, <1>3 DEF ChunkKV
<1>6. w \in Nat
  BY <1>3, BlocksAssumption
<1> HIDE DEF Held
<1> QED
  BY <1>4, <1>5, <1>6

LEMMA SavedType ==
  ASSUME NEW buf \in [Block -> Held], NEW blocks \in Seq(Block), blocks # <<>>,
         NEW i \in 1 .. NumChunks(Len(blocks))
  PROVE  SaveFrom(buf, blocks, NumChunks(Len(blocks)))[i] \in Seq(Held)
<1> DEFINE w == Least(i * BlocksPerChunk, Len(blocks)) - (i - 1) * BlocksPerChunk
<1>1. /\ w \in 1 .. BlocksPerChunk /\ DOMAIN ChunkBlocks(blocks, i) = 1 .. w
      /\ ChunkBlocks(blocks, i) \in Seq(Block) /\ Len(ChunkBlocks(blocks, i)) = w
  BY ChunkBlocksFacts
<1> HIDE DEF w
<1>2. w \in Nat
  BY <1>1, BlocksAssumption
<1>3. \A k \in 1 .. w : ChunkBlocks(blocks, i)[k] \in Block
  BY <1>1, <1>2, ElementOfSeq
<1>4. SaveFrom(buf, blocks, NumChunks(Len(blocks)))[i] =
         [k \in 1 .. w |-> buf[ChunkBlocks(blocks, i)[k]]]
  BY <1>1 DEF SaveFrom
<1> QED
  BY <1>2, <1>3, <1>4

LEMMA SplitType ==
  ASSUME NEW payload \in Seq(Held), NEW n \in Nat, NEW k \in 1 .. n
  PROVE  Split(payload, n)[k] \in Held
<1>1. CASE Len(payload) = n
  BY <1>1, ElementOfSeq DEF Split
<1>2. CASE Len(payload) # n
  BY <1>2 DEF Split, Held
<1> QED
  BY <1>1, <1>2

LEMMA LoadedType ==
  ASSUME NEW buf \in [Block -> Held], NEW blocks \in Seq(Block), blocks # <<>>, Injective(blocks),
         NEW n \in Nat, n <= NumChunks(Len(blocks)), NEW payloads, DOMAIN payloads = 1 .. n,
         \A i \in 1 .. n : payloads[i] \in Seq(Held)
  PROVE  LoadInto(buf, blocks, payloads) \in [Block -> Held]
<1>1. LoadInto(buf, blocks, payloads) = [b \in Block |-> LoadInto(buf, blocks, payloads)[b]]
  BY DEF LoadInto
<1>2. Len(blocks) \in Nat \ {0} /\ DOMAIN buf = Block
  OBVIOUS
<1>3. ASSUME NEW b \in Block PROVE LoadInto(buf, blocks, payloads)[b] \in Held
  <2>0. \A j \in 1 .. Len(blocks) : ChunkOf(j) \in Nat \ {0}
    BY <1>2, ChunkOfBlock
  <2>1. CASE \E j \in 1 .. Len(blocks) : blocks[j] = b /\ ChunkOf(j) <= n
    <3>1. PICK j \in 1 .. Len(blocks) : blocks[j] = b /\ ChunkOf(j) <= n
      BY <2>1
    <3>2. LoadInto(buf, blocks, payloads)[b] =
             Split(payloads[ChunkOf(j)], Len(ChunkBlocks(blocks, ChunkOf(j))))[PlaceOf(j)]
      BY <1>2, <3>1, Loaded
    <3>3. /\ ChunkOf(j) \in 1 .. NumChunks(Len(blocks))
          /\ PlaceOf(j) \in DOMAIN ChunkBlocks(blocks, ChunkOf(j))
      BY <3>1, BlockInChunk
    <3>4. PICK i \in 1 .. NumChunks(Len(blocks)) : i = ChunkOf(j)
      BY <3>3
    <3>5. ChunkBlocks(blocks, i) \in Seq(Block)
      BY ChunkBlocksFacts
    <3>6. PlaceOf(j) \in 1 .. Len(ChunkBlocks(blocks, i)) /\ Len(ChunkBlocks(blocks, i)) \in Nat
      BY <3>3, <3>4, <3>5
    <3>7. ChunkOf(j) \in 1 .. n
      BY <2>0, <3>1
    <3>8. payloads[ChunkOf(j)] \in Seq(Held)
      BY <3>7
    <3> QED
      BY <3>2, <3>4, <3>6, <3>8, SplitType
  <2>2. CASE \A j \in 1 .. Len(blocks) : blocks[j] = b => ChunkOf(j) > n
    <3>1. LoadInto(buf, blocks, payloads)[b] = buf[b]
      BY <1>2, <2>2, Loads
    <3> QED
      BY <3>1
  <2> QED
    BY <2>0, <2>1, <2>2
<1> QED
  BY <1>1, <1>3

\* A loaded chunk and its number, whatever is in the store by now.
LEMMA LoadedChunks ==
  ASSUME ReqInv, StoreInv, NEW r \in At("scheduled"), CacheOf[r] \in CacheId,
         Exists(CacheOf[r])
  PROVE  LET n == Least(NumChunks(req[r].external), Len(Chunks(table[CacheOf[r]])))
         IN  /\ n \in Nat /\ n <= NumChunks(Len(req[r].blocks))
             /\ \A i \in 1 .. n : <<CacheOf[r], i>> \in CacheId \X Index
<1> DEFINE m == NumChunks(req[r].external)
<1>1. /\ r \in Request /\ req[r].external \in Nat /\ req[r].external <= Len(req[r].blocks)
      /\ Len(req[r].blocks) \in Nat
  <2>1. r \in Request /\ Placed(r) /\ req[r].at = "scheduled"
    BY DEF At, ReqInv
  <2>2. /\ req[r].external \in Nat /\ req[r].computed \in Nat
        /\ req[r].computed + req[r].external <= Len(PromptOf[r]) /\ Len(req[r].blocks) = Len(PromptOf[r])
    BY <2>1 DEF Placed, Position
  <2> QED
    BY <2>1, <2>2, RequestPrompt
<1>2. m \in Nat /\ NumChunks(Len(req[r].blocks)) \in Nat /\ m <= NumChunks(Len(req[r].blocks))
  BY <1>1, MoreChunks
<1>3. PICK q \in Prompts : table[CacheOf[r]] = q
  BY RegisteredPrompt
<1>4. /\ Len(Chunks(q)) \in Nat /\ 1 .. Len(Chunks(q)) \subseteq Index
  BY ChunkIndices
<1> HIDE DEF m
<1> DEFINE n == Least(m, Len(Chunks(q)))
<1>5. n \in Nat /\ n <= m /\ n <= Len(Chunks(q))
  BY <1>2, <1>4 DEF Least
<1>6. Least(NumChunks(req[r].external), Len(Chunks(table[CacheOf[r]]))) = n
  BY <1>3 DEF m
<1> HIDE DEF n
<1>7. n <= NumChunks(Len(req[r].blocks)) /\ 1 .. n \subseteq Index
  BY <1>2, <1>4, <1>5
<1> QED
  BY <1>5, <1>6, <1>7

LEMMA AllocStores ==
  ASSUME StoreInv, NEW r \in Request, Alloc(r)
  PROVE  StoreInv'
<1>1. /\ UNCHANGED <<table, store, buffer>>
      /\ \E P : hashed' = [b \in Block |-> IF b \in P THEN None ELSE hashed[b]]
  <2>1. PICK blocks \in Allocation(r) :
           hashed' = [b \in Block |-> IF \E j \in DOMAIN blocks : j > req[r].computed /\ blocks[j] = b
                                      THEN None ELSE hashed[b]]
    BY DEF Alloc
  <2> DEFINE P == {b \in Block : \E j \in DOMAIN blocks : j > req[r].computed /\ blocks[j] = b}
  <2>2. \A b \in Block : b \in P <=> \E j \in DOMAIN blocks : j > req[r].computed /\ blocks[j] = b
    OBVIOUS
  <2> HIDE DEF P
  <2>3. hashed' = [b \in Block |-> IF b \in P THEN None ELSE hashed[b]]
    BY <2>1, <2>2
  <2> QED
    BY <2>3 DEF Alloc, engine
<1> QED
  BY <1>1 DEF StoreInv

LEMMA LoadStores ==
  ASSUME ReqInv, PlansInv, StoreInv, NEW op \in meta.loads, StartLoad(op)
  PROVE  StoreInv'
<1>1. UNCHANGED <<table, store, hashed>>
  BY DEF StartLoad, engine
<1>2. CASE UNCHANGED buffer
  BY <1>1, <1>2 DEF StoreInv
<1>3. CASE ~UNCHANGED buffer
  <2>1. PICK r \in At("scheduled") : CacheOf[r] \in CacheId /\ op = LoadOp(r, req[r].blocks)
    BY DEF PlansInv, LoadPlan
  <2>2. /\ op.cache = CacheOf[r] /\ op.blocks = req[r].blocks /\ op.chunks = NumChunks(req[r].external)
    BY <2>1 DEF LoadOp
  <2> DEFINE n == Least(NumChunks(req[r].external), Len(Chunks(table[CacheOf[r]])))
             payloads == [i \in 1 .. n |-> store[<<CacheOf[r], i>>]]
  <2>3. /\ Exists(CacheOf[r]) /\ \A i \in 1 .. n : store[<<CacheOf[r], i>>] # None
        /\ buffer' = LoadInto(buffer, req[r].blocks, payloads)
    BY <1>3, <2>2 DEF StartLoad
  <2>4. /\ n \in Nat /\ n <= NumChunks(Len(req[r].blocks))
        /\ \A i \in 1 .. n : <<CacheOf[r], i>> \in CacheId \X Index
    BY <2>1, <2>3, LoadedChunks
  <2> HIDE DEF n
  <2>5. DOMAIN payloads = 1 .. n /\ \A i \in 1 .. n : payloads[i] \in Seq(Held)
    BY <2>3, <2>4 DEF StoreInv, Held
  <2>6. req[r].blocks \in Seq(Block) /\ req[r].blocks # <<>> /\ Injective(req[r].blocks)
    <3>1. r \in Request /\ Placed(r) /\ req[r].at = "scheduled"
      BY DEF At, ReqInv
    <3>2. Len(req[r].blocks) = Len(PromptOf[r]) /\ Len(PromptOf[r]) \in Nat \ {0}
      BY <3>1, RequestPrompt DEF Placed
    <3> QED
      BY <3>1, <3>2 DEF Placed, Position
  <2>7. buffer \in [Block -> Held]
    BY DEF StoreInv, Held
  <2> HIDE DEF payloads
  <2>8. LoadInto(buffer, req[r].blocks, payloads) \in [Block -> Held]
    BY <2>4, <2>5, <2>6, <2>7, LoadedType
  <2> QED
    BY <1>1, <2>3, <2>8 DEF StoreInv, Held
<1> QED
  BY <1>2, <1>3

\* A request and the number of one of its blocks.
LEMMA BlockOfRequest ==
  ASSUME ReqInv, NEW r \in At("scheduled"), NEW j \in DOMAIN req[r].blocks
  PROVE  r \in Request /\ j \in 1 .. Len(PromptOf[r]) /\ KV(PromptOf[r], j) \in BlockKV
<1>1. r \in Request /\ Placed(r) /\ req[r].at = "scheduled"
  BY DEF At, ReqInv
<1>2. DOMAIN req[r].blocks = 1 .. Len(PromptOf[r])
  BY <1>1 DEF Placed, Position
<1> QED
  BY <1>1, <1>2, KVOfPrompt, RequestsArePrompts

\* The blocks that the model computes and lists.
NewBlocks == At("scheduled") \X (1 .. Cardinality(Block))
Lists(r, j, b) == j \in DOMAIN req[r].blocks /\ req[r].blocks[j] = b
Computes(r, j, b) == Lists(r, j, b) /\ j > req[r].computed + req[r].external
Result(r, j) == IF Right(r, req[r].computed + req[r].external) THEN KV(PromptOf[r], j) ELSE None

LEMMA ForwardWrites ==
  ASSUME Forward
  PROVE  /\ buffer' = [b \in Block |-> buffer'[b]] /\ hashed' = [b \in Block |-> hashed'[b]]
         /\ UNCHANGED <<table, store>>
         /\ \A b \in Block :
               /\ \/ \E x \in NewBlocks : Computes(x[1], x[2], b) /\ buffer'[b] = Result(x[1], x[2])
                  \/ buffer'[b] = buffer[b] /\ ~\E x \in NewBlocks : Computes(x[1], x[2], b)
               /\ \/ /\ PrefixCaching
                     /\ \E x \in NewBlocks : Lists(x[1], x[2], b) /\ hashed'[b] = KV(PromptOf[x[1]], x[2])
                  \/ hashed'[b] = hashed[b]
<1> DEFINE Chosen(b) == CHOOSE x \in NewBlocks : Computes(x[1], x[2], b)
           Listed(b) == CHOOSE x \in NewBlocks : Lists(x[1], x[2], b)
<1>1. /\ buffer' = [b \in Block |-> IF \E x \in NewBlocks : Computes(x[1], x[2], b)
                                    THEN Result(Chosen(b)[1], Chosen(b)[2]) ELSE buffer[b]]
      /\ hashed' = [b \in Block |-> IF PrefixCaching /\ \E x \in NewBlocks : Lists(x[1], x[2], b)
                                    THEN KV(PromptOf[Listed(b)[1]], Listed(b)[2]) ELSE hashed[b]]
      /\ UNCHANGED <<table, store>>
  BY DEF Forward, engine, NewBlocks, Computes, Lists, Result
<1>2. ASSUME NEW b \in Block, \E x \in NewBlocks : Computes(x[1], x[2], b)
      PROVE  \E x \in NewBlocks : Computes(x[1], x[2], b) /\ buffer'[b] = Result(x[1], x[2])
  <2>1. Chosen(b) \in NewBlocks /\ Computes(Chosen(b)[1], Chosen(b)[2], b)
    BY <1>2
  <2> HIDE DEF Chosen
  <2>2. buffer'[b] = Result(Chosen(b)[1], Chosen(b)[2])
    BY <1>1, <1>2
  <2> QED
    BY <2>1, <2>2
<1>3. ASSUME NEW b \in Block, PrefixCaching /\ \E x \in NewBlocks : Lists(x[1], x[2], b)
      PROVE  \E x \in NewBlocks : Lists(x[1], x[2], b) /\ hashed'[b] = KV(PromptOf[x[1]], x[2])
  <2>1. Listed(b) \in NewBlocks /\ Lists(Listed(b)[1], Listed(b)[2], b)
    BY <1>3
  <2> HIDE DEF Listed
  <2>2. hashed'[b] = KV(PromptOf[Listed(b)[1]], Listed(b)[2])
    BY <1>1, <1>3
  <2> QED
    BY <2>1, <2>2
<1> HIDE DEF Chosen, Listed
<1>4. ASSUME NEW b \in Block, ~\E x \in NewBlocks : Computes(x[1], x[2], b) PROVE buffer'[b] = buffer[b]
  BY <1>1, <1>4
<1>5. ASSUME NEW b \in Block, ~(PrefixCaching /\ \E x \in NewBlocks : Lists(x[1], x[2], b))
      PROVE  hashed'[b] = hashed[b]
  BY <1>1, <1>5
<1>6. /\ buffer' = [b \in Block |-> buffer'[b]] /\ hashed' = [b \in Block |-> hashed'[b]]
      /\ UNCHANGED <<table, store>>
  BY <1>1
<1> QED
  BY <1>2, <1>3, <1>4, <1>5, <1>6

LEMMA ForwardStores ==
  ASSUME ReqInv, StoreInv, Forward
  PROVE  StoreInv'
<1>1. ASSUME NEW x \in NewBlocks, NEW b \in Block, Lists(x[1], x[2], b)
      PROVE  KV(PromptOf[x[1]], x[2]) \in Held /\ Result(x[1], x[2]) \in Held
  <2>1. x[1] \in At("scheduled") /\ x[2] \in DOMAIN req[x[1]].blocks
    BY <1>1 DEF NewBlocks, Lists
  <2>2. KV(PromptOf[x[1]], x[2]) \in BlockKV
    BY <2>1, BlockOfRequest
  <2> QED
    BY <2>2 DEF Held, Result
<1>2. ASSUME NEW b \in Block PROVE buffer'[b] \in Held /\ hashed'[b] \in Held
  <2>1. buffer[b] \in Held /\ hashed[b] \in Held
    BY DEF StoreInv, Held
  <2>2. buffer'[b] \in Held
    BY <1>1, <2>1, ForwardWrites DEF Computes
  <2>3. hashed'[b] \in Held
    BY <1>1, <2>1, ForwardWrites
  <2> QED
    BY <2>2, <2>3
<1>3. buffer' = [b \in Block |-> buffer'[b]] /\ hashed' = [b \in Block |-> hashed'[b]]
  BY ForwardWrites
<1>4. buffer' \in [Block -> Held] /\ hashed' \in [Block -> Held]
  BY <1>2, <1>3
<1> QED
  BY <1>4, ForwardWrites DEF StoreInv, Held

\* What a plan to save says.
LEMMA SaveFacts ==
  ASSUME ReqInv, PlansInv, PhaseInv, phase = "save", NEW op \in meta.saves
  PROVE  \E r \in At("running") :
            /\ r \in Request /\ op.cache = CacheOf[r] /\ CacheOf[r] \in CacheId /\ r \in Saving
            /\ op.prompt = PromptOf[r] /\ op.blocks = req[r].blocks
            /\ op.done \in 0 .. NumChunks(Len(PromptOf[r])) /\ op = Saved(r, op.done)
            /\ req[r].blocks \in Seq(Block) /\ req[r].blocks # <<>>
            /\ Len(req[r].blocks) = Len(PromptOf[r]) /\ Injective(req[r].blocks)
<1>0. PICK r \in At("scheduled") \union At("running") : \E d \in 0 .. NumChunks(Len(PromptOf[r])) :
         CacheOf[r] \in CacheId /\ r \in Saving /\ op = Saved(r, d)
  BY DEF PlansInv, SavePlan
<1>1. PICK d \in 0 .. NumChunks(Len(PromptOf[r])) : CacheOf[r] \in CacheId /\ r \in Saving /\ op = Saved(r, d)
  BY <1>0
<1>2. r \in At("running") /\ r \in Request /\ req[r].at = "running"
  BY <1>1 DEF PhaseInv, At
<1>3. /\ op.cache = CacheOf[r] /\ op.prompt = PromptOf[r] /\ op.blocks = req[r].blocks /\ op.done = d
  BY <1>1 DEF Saved, SaveOp
<1>4. /\ req[r].blocks \in Seq(Block) /\ Len(req[r].blocks) = Len(PromptOf[r]) /\ Injective(req[r].blocks)
  BY <1>2 DEF ReqInv, Placed, Position
<1>5. req[r].blocks # <<>>
  BY <1>2, <1>4, RequestPrompt
<1> QED
  BY <1>1, <1>2, <1>3, <1>4, <1>5

LEMMA PutStores ==
  ASSUME ReqInv, PlansInv, PhaseInv, StoreInv, NEW op \in meta.saves, PutChunk(op)
  PROVE  StoreInv'
<1>1. phase = "save" /\ UNCHANGED <<table, buffer, hashed>>
  BY DEF PutChunk
<1>2. PICK r \in At("running") :
         /\ r \in Request /\ op.prompt = PromptOf[r] /\ op.blocks = req[r].blocks
         /\ req[r].blocks \in Seq(Block) /\ req[r].blocks # <<>>
         /\ Len(req[r].blocks) = Len(PromptOf[r])
  BY <1>1, SaveFacts
<1> DEFINE payloads == SaveFrom(buffer, op.blocks, NumChunks(Len(op.prompt)))
           k == <<op.cache, op.done + 1>>
<1>3. /\ op.done + 1 \in DOMAIN payloads
      /\ \/ store' = [store EXCEPT ![k] = payloads[op.done + 1]]
         \/ store' = [store EXCEPT ![k] = None]
  BY DEF PutChunk, Refused
<1>4. payloads = SaveFrom(buffer, req[r].blocks, NumChunks(Len(req[r].blocks)))
  BY <1>2
<1>5. DOMAIN payloads = 1 .. NumChunks(Len(req[r].blocks))
  BY <1>4 DEF SaveFrom
<1>6. payloads[op.done + 1] \in Seq(Held)
  <2>1. buffer \in [Block -> Held]
    BY DEF StoreInv, Held
  <2> HIDE DEF payloads
  <2> QED
    BY <1>2, <1>3, <1>4, <1>5, <2>1, SavedType
<1> HIDE DEF payloads, k
<1>7. store \in [CacheId \X Index -> Seq(Held) \union {None}]
  BY DEF StoreInv, Held
<1>8. store' \in [CacheId \X Index -> Seq(Held) \union {None}]
  BY <1>3, <1>6, <1>7
<1> QED
  BY <1>1, <1>8 DEF StoreInv, Held

LEMMA CommitStores ==
  ASSUME ReqInv, PlansInv, PhaseInv, StoreInv, NEW op \in meta.saves, Commit(op)
  PROVE  StoreInv'
<1>1. phase = "save" /\ UNCHANGED <<store, buffer, hashed>>
  BY DEF Commit
<1>2. op.prompt \in Prompts
  BY <1>1, SaveFacts, RequestsArePrompts
<1>3. table' = table \/ table' = [table EXCEPT ![op.cache] = op.prompt]
  BY DEF Commit
<1> QED
  BY <1>1, <1>2, <1>3 DEF StoreInv

LEMMA DeleteStores ==
  ASSUME StoreInv, NEW c \in CacheId, Delete(c)
  PROVE  StoreInv'
BY DEF StoreInv, Delete, connector

LEMMA EvictStores ==
  ASSUME StoreInv, NEW k \in DOMAIN store, Evict(k)
  PROVE  StoreInv'
BY DEF StoreInv, Evict, connector

\* A registration under way, taken apart.
LEMMA CallFacts ==
  ASSUME CallInv, NEW t \in Client, call[t] # None
  PROVE  /\ call[t].cache \in CacheId /\ call[t].prompt \in ClientPrompts[call[t].cache]
         /\ call[t].prompt \in Prompts /\ NumChunks(Len(call[t].prompt)) \in Nat \ {0}
         /\ call[t].done \in 0 .. NumChunks(Len(call[t].prompt))
         /\ DOMAIN Chunks(call[t].prompt) = 1 .. NumChunks(Len(call[t].prompt))
         /\ call[t] = [cache |-> call[t].cache, prompt |-> call[t].prompt, done |-> call[t].done]
<1>1. PICK c \in CacheId : \E p \in ClientPrompts[c] : \E d \in 0 .. NumChunks(Len(p)) :
         call[t] = [cache |-> c, prompt |-> p, done |-> d]
  BY DEF CallInv, Registering
<1>2. PICK p \in ClientPrompts[c] : \E d \in 0 .. NumChunks(Len(p)) :
         call[t] = [cache |-> c, prompt |-> p, done |-> d]
  BY <1>1
<1>3. PICK d \in 0 .. NumChunks(Len(p)) : call[t] = [cache |-> c, prompt |-> p, done |-> d]
  BY <1>2
<1>4. call[t].cache = c /\ call[t].prompt = p /\ call[t].done = d
  BY <1>3
<1>5. p \in Prompts
  BY ClientsArePrompts
<1> QED
  BY <1>3, <1>4, <1>5, ChunkIndices

LEMMA RegisterStores ==
  ASSUME StoreInv, CallInv, NEW t \in Client, RegisterChunk(t)
  PROVE  StoreInv'
<1>1. /\ call[t] # None /\ UNCHANGED <<table, buffer, hashed>>
      /\ call[t].done + 1 \in DOMAIN Chunks(call[t].prompt)
  BY DEF RegisterChunk, connector
<1> DEFINE payload == ChunkKV(call[t].prompt, call[t].done + 1)
           k == <<call[t].cache, call[t].done + 1>>
<1>2. store' = [store EXCEPT ![k] = payload] \/ store' = [store EXCEPT ![k] = None]
  BY DEF RegisterChunk, Refused
<1>3. payload \in Seq(Held)
  BY <1>1, CallFacts, PayloadType
<1> HIDE DEF payload, k
<1>4. store \in [CacheId \X Index -> Seq(Held) \union {None}]
  BY DEF StoreInv, Held
<1>5. store' \in [CacheId \X Index -> Seq(Held) \union {None}]
  BY <1>2, <1>3, <1>4
<1> QED
  BY <1>1, <1>5 DEF StoreInv, Held

LEMMA RegisterCommits ==
  ASSUME StoreInv, CallInv, NEW t \in Client, CommitRegister(t)
  PROVE  StoreInv'
<1>1. /\ call[t] # None /\ UNCHANGED <<store, buffer, hashed>>
      /\ table' = [table EXCEPT ![call[t].cache] = call[t].prompt]
  BY DEF CommitRegister, connector
<1>2. call[t].prompt \in Prompts
  BY <1>1, CallFacts
<1> QED
  BY <1>1, <1>2 DEF StoreInv

-----------------------------------------------------------------------------
\* The types.
LEMMA InitTypes == Init => TypeInv
<1> SUFFICES ASSUME Init PROVE TypeInv
  OBVIOUS
<1>1. DOMAIN req = Request /\ \A r \in Request : req[r] = Waiting
  BY DEF Init
<1>2. Waiting \in Position /\ Waiting.at = "waiting" /\ Waiting.blocks = <<>>
      /\ Waiting.computed = 0 /\ Waiting.external = 0
  BY DEF Waiting, Position
<1>3. ASSUME NEW r \in Request PROVE Placed(r)
  <2>1. Len(PromptOf[r]) \in Nat
    BY RequestPrompt
  <2> QED
    BY <1>1, <1>2, <2>1 DEF Placed
<1>4. ReqInv
  BY <1>1, <1>3 DEF ReqInv
<1>5. meta = [loads |-> {}, saves |-> {}] /\ meta.loads = {} /\ meta.saves = {}
      /\ pendingLoads = {} /\ pendingSaves = {} /\ phase = "schedule"
  BY DEF Init
<1>6. PlansInv
  BY <1>5 DEF PlansInv
<1>7. PhaseInv
  BY <1>5 DEF PhaseInv
<1>8. StoreInv
  BY DEF Init, StoreInv
<1> QED
  BY <1>4, <1>6, <1>7, <1>8 DEF TypeInv

LEMMA NextTypes == TypeInv /\ CallInv /\ [Next]_vars => TypeInv'
<1> SUFFICES ASSUME TypeInv, CallInv, [Next]_vars PROVE TypeInv'
  OBVIOUS
<1>1. ReqInv /\ PlansInv /\ PhaseInv /\ StoreInv
  BY DEF TypeInv
<1>2. ASSUME NEW r \in Request, Match(r) PROVE TypeInv'
  <2>1. /\ ReqInv' /\ OnlyMoves(r) /\ r \notin At("scheduled")
    BY <1>1, <1>2, MatchMoves DEF At
  <2>2. phase = "schedule" /\ UNCHANGED <<pendingLoads, pendingSaves, meta, phase, table, store, buffer, hashed>>
    BY <1>2 DEF Match, pending, engine
  <2>3. PlansInv' /\ PhaseInv'
    BY <1>1, <2>1, <2>2, SchedulerStep
  <2>4. StoreInv'
    BY <1>1, <2>2 DEF StoreInv
  <2> QED
    BY <2>1, <2>3, <2>4 DEF TypeInv
<1>3. ASSUME NEW r \in Request, Lookup(r) PROVE TypeInv'
  <2>1. phase = "schedule" /\ UNCHANGED <<pendingLoads, pendingSaves, meta, table, store, buffer, hashed>>
    BY <1>3 DEF Lookup, pending, engine
  <2>2. StoreInv'
    BY <1>1, <2>1 DEF StoreInv
  <2>3. CASE phase' = "raised"
    <3>1. req' = req
      BY <1>3, <2>1, <2>3 DEF Lookup
    <3>2. PlansInv' /\ PhaseInv' /\ ReqInv'
      BY <1>1, <2>1, <2>3, <3>1, OutsideStep, Rests
    <3> QED
      BY <2>2, <3>2 DEF TypeInv
  <2>4. CASE phase' # "raised"
    <3>1. /\ ReqInv' /\ OnlyMoves(r) /\ r \notin At("scheduled")
      BY <1>1, <1>3, <2>4, LookupMoves DEF At
    <3>2. phase' = phase
      BY <1>3, <2>4 DEF Lookup, Raise
    <3>3. PlansInv' /\ PhaseInv'
      BY <1>1, <2>1, <3>1, <3>2, SchedulerStep
    <3> QED
      BY <2>2, <3>1, <3>3 DEF TypeInv
  <2> QED
    BY <2>3, <2>4
<1>4. ASSUME NEW r \in Request, Alloc(r) PROVE TypeInv'
  BY <1>1, <1>4, AllocPlans, AllocStores DEF TypeInv
<1>5. ASSUME NEW r \in Request, Finish(r) PROVE TypeInv'
  <2>1. /\ ReqInv' /\ OnlyMoves(r) /\ r \notin At("scheduled")
    BY <1>1, <1>5, FinishMoves DEF At
  <2>2. phase = "schedule" /\ UNCHANGED <<pendingLoads, pendingSaves, meta, phase, table, store, buffer, hashed>>
    BY <1>5 DEF Finish, pending, engine
  <2>3. PlansInv' /\ PhaseInv'
    BY <1>1, <2>1, <2>2, SchedulerStep
  <2>4. StoreInv'
    BY <1>1, <2>2 DEF StoreInv
  <2> QED
    BY <2>1, <2>3, <2>4 DEF TypeInv
<1>6. CASE BuildMeta
  <2>1. UNCHANGED <<table, store, buffer, hashed>>
    BY <1>6 DEF BuildMeta, engine
  <2>2. StoreInv'
    BY <1>1, <2>1 DEF StoreInv
  <2> QED
    BY <1>1, <1>6, <2>2, BuildPlans DEF TypeInv
<1>7. ASSUME NEW op \in meta.loads, StartLoad(op) PROVE TypeInv'
  <2>1. UNCHANGED <<req, pendingLoads, pendingSaves>>
    BY <1>7 DEF StartLoad, pending
  <2>2. StoreInv'
    BY <1>1, <1>7, LoadStores
  <2>3. CASE phase' = "raised" /\ meta' = meta
    <3>1. PlansInv' /\ PhaseInv' /\ ReqInv'
      BY <1>1, <2>1, <2>3, OutsideStep, Rests
    <3> QED
      BY <2>2, <3>1 DEF TypeInv
  <2>4. CASE phase' = phase /\ meta' = [meta EXCEPT !.loads = @ \ {op}]
    <3>1. meta = [loads |-> meta.loads, saves |-> meta.saves]
      BY <1>1 DEF PhaseInv
    <3>2. meta' = [loads |-> meta.loads \ {op}, saves |-> meta.saves]
      BY <2>4, <3>1
    <3>3. /\ meta'.loads = meta.loads \ {op} /\ meta'.saves = meta.saves
          /\ meta' = [loads |-> meta'.loads, saves |-> meta'.saves]
      BY <3>2
    <3>4. meta'.loads \subseteq meta.loads /\ meta'.saves \subseteq meta.saves
      BY <3>3
    <3>5. PlansInv' /\ PhaseInv' /\ ReqInv'
      BY <1>1, <2>1, <2>4, <3>3, <3>4, LessToDo
    <3> QED
      BY <2>2, <3>5 DEF TypeInv
  <2> QED
    BY <1>7, <2>3, <2>4 DEF StartLoad, Raise
<1>8. CASE Forward
  BY <1>1, <1>8, ForwardPlans, ForwardStores DEF TypeInv
<1>9. ASSUME NEW op \in meta.saves, PutChunk(op) PROVE TypeInv'
  <2>1. UNCHANGED <<req, pendingLoads, pendingSaves>> /\ phase = "save"
    BY <1>9 DEF PutChunk, pending
  <2>2. StoreInv'
    BY <1>1, <1>9, PutStores
  <2>3. CASE phase' = "raised" /\ meta' = meta
    BY <1>1, <2>1, <2>2, <2>3, OutsideStep, Rests DEF TypeInv
  <2>4. CASE phase' = phase /\ meta' = [meta EXCEPT !.saves = (@ \ {op}) \union {[op EXCEPT !.done = op.done + 1]}]
    <3>1. PICK r \in At("running") :
             /\ r \in Request /\ CacheOf[r] \in CacheId /\ r \in Saving /\ op.prompt = PromptOf[r]
             /\ op.done \in 0 .. NumChunks(Len(PromptOf[r])) /\ op = Saved(r, op.done)
      BY <1>1, <2>1, SaveFacts
    <3>2. op.done + 1 \in 0 .. NumChunks(Len(PromptOf[r]))
      <4>1. op.done + 1 \in 1 .. NumChunks(Len(PromptOf[r]))
        BY <1>9, <3>1 DEF PutChunk, SaveFrom
      <4> QED
        BY <3>1, <4>1
    <3>3. [op EXCEPT !.done = op.done + 1] = Saved(r, op.done + 1)
      BY <3>1 DEF Saved, SaveOp
    <3>4. SavePlan([op EXCEPT !.done = op.done + 1], At("scheduled") \union At("running"))
      BY <3>1, <3>2, <3>3 DEF SavePlan
    <3>5. meta' = [loads |-> meta.loads, saves |-> (meta.saves \ {op}) \union {[op EXCEPT !.done = op.done + 1]}]
      BY <1>1, <2>4 DEF PhaseInv
    <3>6. /\ meta'.loads = meta.loads /\ meta' = [loads |-> meta'.loads, saves |-> meta'.saves]
          /\ \A o \in meta'.saves : SavePlan(o, At("scheduled") \union At("running"))
      BY <1>1, <3>4, <3>5 DEF PlansInv
    <3>7. \A l : At(l)' = At(l)
      BY <2>1 DEF At
    <3>8. \A o : LoadPlan(o) <=> LoadPlan(o)'
      BY <2>1, <3>7 DEF LoadPlan, LoadOp
    <3>9. \A o, rs : SavePlan(o, rs) <=> SavePlan(o, rs)'
      BY <2>1 DEF SavePlan, Saved, SaveOp
    <3>10. PlansInv'
      BY <1>1, <2>1, <3>6, <3>7, <3>8, <3>9 DEF PlansInv
    <3>11. PhaseInv'
      BY <1>1, <2>1, <2>4, <3>6, <3>7 DEF PhaseInv, InScheduler
    <3> QED
      BY <1>1, <2>1, <2>2, <3>10, <3>11, Rests DEF TypeInv
  <2> QED
    BY <1>9, <2>3, <2>4 DEF PutChunk, Raise
<1>14. ASSUME NEW op \in meta.saves, Commit(op) PROVE TypeInv'
  <2>1. UNCHANGED <<req, pendingLoads, pendingSaves>>
    BY <1>14 DEF Commit, pending
  <2>2. StoreInv'
    BY <1>1, <1>14, CommitStores
  <2>3. CASE phase' = "raised" /\ meta' = meta
    BY <1>1, <2>1, <2>2, <2>3, OutsideStep, Rests DEF TypeInv
  <2>4. CASE phase' = phase /\ meta' = [meta EXCEPT !.saves = @ \ {op}]
    <3>1. meta' = [loads |-> meta.loads, saves |-> meta.saves \ {op}]
      BY <1>1, <2>4 DEF PhaseInv
    <3>2. /\ meta'.loads = meta.loads /\ meta'.saves = meta.saves \ {op}
          /\ meta' = [loads |-> meta'.loads, saves |-> meta'.saves]
      BY <3>1
    <3>3. meta'.loads \subseteq meta.loads /\ meta'.saves \subseteq meta.saves
      BY <3>2
    <3>4. PlansInv' /\ PhaseInv' /\ ReqInv'
      BY <1>1, <2>1, <2>4, <3>2, <3>3, LessToDo
    <3> QED
      BY <2>2, <3>4 DEF TypeInv
  <2> QED
    BY <1>14, <2>3, <2>4 DEF Commit, Raise
<1>15. ASSUME NEW t \in Client, BeginRegister(t) \/ RegisterChunk(t) \/ CommitRegister(t) PROVE TypeInv'
  <2>1. UNCHANGED <<req, pendingLoads, pendingSaves, meta, phase>>
    BY <1>15 DEF BeginRegister, RegisterChunk, CommitRegister, connector, pending
  <2>2. PlansInv' /\ PhaseInv' /\ ReqInv'
    BY <1>1, <2>1, OutsideStep, Rests
  <2>3. BeginRegister(t) => StoreInv'
    BY <1>1 DEF BeginRegister, connector, StoreInv
  <2>4. StoreInv'
    BY <1>1, <1>15, <2>3, RegisterStores, RegisterCommits
  <2> QED
    BY <2>2, <2>4 DEF TypeInv
<1>10. CASE EndStep
  <2>1. /\ phase = "save" /\ meta.saves = {} /\ phase' = "schedule"
        /\ UNCHANGED <<table, store, buffer, hashed, req, pendingLoads, pendingSaves, meta>>
    BY <1>10 DEF EndStep, engine, pending
  <2>2. \A l : At(l)' = At(l)
    BY <2>1 DEF At
  <2>3. pendingLoads = {} /\ pendingSaves = {} /\ meta.loads = {}
    BY <1>1, <2>1 DEF PhaseInv
  <2>4. PlansInv'
    BY <2>1, <2>3 DEF PlansInv
  <2>5. PhaseInv'
    BY <1>1, <2>1, <2>3 DEF PhaseInv
  <2>6. StoreInv'
    BY <1>1, <2>1 DEF StoreInv
  <2> QED
    BY <1>1, <2>1, <2>4, <2>5, <2>6, Rests DEF TypeInv
<1>11. ASSUME NEW c \in CacheId, Delete(c) PROVE TypeInv'
  <2>1. UNCHANGED <<req, pendingLoads, pendingSaves, meta, phase>>
    BY <1>11 DEF Delete, connector, pending
  <2> QED
    BY <1>1, <1>11, <2>1, DeleteStores, OutsideStep, Rests DEF TypeInv
<1>12. ASSUME NEW k \in DOMAIN store, Evict(k) PROVE TypeInv'
  <2>1. UNCHANGED <<req, pendingLoads, pendingSaves, meta, phase>>
    BY <1>12 DEF Evict, connector, pending
  <2> QED
    BY <1>1, <1>12, <2>1, EvictStores, OutsideStep, Rests DEF TypeInv
<1>13. CASE UNCHANGED vars
  <2>1. UNCHANGED <<table, store, buffer, hashed, req, pendingLoads, pendingSaves, meta, phase>>
    BY <1>13 DEF vars
  <2>2. StoreInv'
    BY <1>1, <2>1 DEF StoreInv
  <2> QED
    BY <1>1, <2>1, <2>2, OutsideStep, Rests DEF TypeInv
<1> QED
  BY <1>2, <1>3, <1>4, <1>5, <1>6, <1>7, <1>8, <1>9, <1>10, <1>11, <1>12, <1>13, <1>14, <1>15 DEF Next

\* The registrations: only the clients' own steps change them.
LEMMA NextCalls == CallInv /\ [Next]_vars => CallInv'
<1> SUFFICES ASSUME CallInv, [Next]_vars PROVE CallInv'
  OBVIOUS
<1>1. CASE UNCHANGED call
  BY <1>1 DEF CallInv, Registering
<1>2. ASSUME NEW t \in Client, BeginRegister(t) PROVE CallInv'
  <2>1. PICK c \in CacheId : \E p \in ClientPrompts[c] :
           call' = [call EXCEPT ![t] = [cache |-> c, prompt |-> p, done |-> 0]]
    BY <1>2 DEF BeginRegister
  <2>2. PICK p \in ClientPrompts[c] : call' = [call EXCEPT ![t] = [cache |-> c, prompt |-> p, done |-> 0]]
    BY <2>1
  <2>3. 0 \in 0 .. NumChunks(Len(p))
    BY ClientsArePrompts, ChunkIndices
  <2>4. Registering([cache |-> c, prompt |-> p, done |-> 0])
    BY <2>3 DEF Registering
  <2> QED
    BY <2>2, <2>4 DEF CallInv, Registering
<1>3. ASSUME NEW t \in Client, RegisterChunk(t) PROVE CallInv'
  <2>1. call[t] # None /\ call[t].done + 1 \in DOMAIN Chunks(call[t].prompt)
    BY <1>3 DEF RegisterChunk
  <2>2. /\ call[t].cache \in CacheId /\ call[t].prompt \in ClientPrompts[call[t].cache]
        /\ call[t].done + 1 \in 0 .. NumChunks(Len(call[t].prompt))
        /\ call[t] = [cache |-> call[t].cache, prompt |-> call[t].prompt, done |-> call[t].done]
    BY <2>1, CallFacts
  <2>3. [call[t] EXCEPT !.done = call[t].done + 1] =
           [cache |-> call[t].cache, prompt |-> call[t].prompt, done |-> call[t].done + 1]
    BY <2>2
  <2>4. Registering([call[t] EXCEPT !.done = call[t].done + 1])
    BY <2>2, <2>3 DEF Registering
  <2>5. \/ call' = [call EXCEPT ![t] = [call[t] EXCEPT !.done = call[t].done + 1]]
        \/ call' = [call EXCEPT ![t] = None]
    BY <1>3 DEF RegisterChunk
  <2> QED
    BY <2>4, <2>5 DEF CallInv, Registering
<1>4. ASSUME NEW t \in Client, CommitRegister(t) PROVE CallInv'
  BY <1>4 DEF CommitRegister, CallInv, Registering
<1>5. \A r \in Request : Match(r) \/ Lookup(r) \/ Alloc(r) \/ Finish(r) => UNCHANGED call
  BY DEF Match, Lookup, Alloc, Finish, engine
<1>6. BuildMeta \/ Forward \/ EndStep \/ UNCHANGED vars => UNCHANGED call
  BY DEF BuildMeta, Forward, EndStep, vars, engine
<1>7. \A x : StartLoad(x) \/ PutChunk(x) \/ Commit(x) \/ Delete(x) \/ Evict(x) => UNCHANGED call
  BY DEF StartLoad, PutChunk, Commit, Delete, Evict, engine
<1> QED
  BY <1>1, <1>2, <1>3, <1>4, <1>5, <1>6, <1>7 DEF Next

\* The types of the connector's side and of the registrations that clients are at.
LEMMA Types == Spec => [](TypeInv /\ CallInv)
<1>1. Init => CallInv
  BY DEF Init, CallInv
<1> QED
  BY <1>1, InitTypes, NextTypes, NextCalls, PTL DEF Spec

LEMMA TypesAreOK == TypeInv /\ CallInv => TypeOK
<1> SUFFICES ASSUME TypeInv, CallInv PROVE TypeOK
  OBVIOUS
<1>1. ReqInv /\ PlansInv /\ PhaseInv /\ StoreInv
  BY DEF TypeInv
<1>2. \A c \in CacheId : table[c] = None \/ table[c] \in Prompts
  BY <1>1 DEF StoreInv
<1>3. ASSUME NEW k \in DOMAIN store
      PROVE  store[k] = None \/ \A j \in DOMAIN store[k] : store[k][j] \in BlockKV \union {None}
  BY <1>1, ElementOfSeq DEF StoreInv
<1>4. buffer \in [Block -> BlockKV \union {None}] /\ hashed \in [Block -> BlockKV \union {None}]
  BY <1>1 DEF StoreInv
<1>5. ASSUME NEW r \in Request
      PROVE  /\ req[r].at \in {"waiting", "lookup", "matched", "scheduled", "running"}
             /\ req[r].computed + req[r].external <= Len(PromptOf[r])
  BY <1>1 DEF ReqInv, Placed, Position
<1>6. ASSUME NEW op \in pendingLoads \union pendingSaves \union meta.loads
      PROVE  /\ op.request \in At("scheduled") /\ op.blocks = req[op.request].blocks
             /\ Len(op.blocks) = Len(PromptOf[op.request])
  <2>1. PICK r \in At("scheduled") : op = LoadOp(r, req[r].blocks) \/ \E d : op = Saved(r, d)
    BY <1>1 DEF PlansInv, LoadPlan, SavePlan
  <2>2. op.request = r /\ op.blocks = req[r].blocks
    BY <2>1 DEF LoadOp, Saved, SaveOp
  <2>3. Placed(r) /\ req[r].at = "scheduled"
    BY <1>1 DEF At, ReqInv
  <2> QED
    BY <2>2, <2>3 DEF Placed
<1>7. phase \in {"schedule", "load", "save", "raised"}
  BY <1>1 DEF PhaseInv
<1>8. ASSUME NEW t \in Client
      PROVE  call[t] = None \/ /\ call[t].prompt \in ClientPrompts[call[t].cache]
                               /\ call[t].done \in 0 .. NumChunks(Len(call[t].prompt))
  BY CallFacts
<1>9. ASSUME NEW op \in pendingSaves \union meta.saves PROVE op.done \in 0 .. NumChunks(Len(op.prompt))
  <2>1. PICK rs : SavePlan(op, rs)
    BY <1>1 DEF PlansInv
  <2>4. PICK r \in rs : \E d \in 0 .. NumChunks(Len(PromptOf[r])) : op = Saved(r, d)
    BY <2>1 DEF SavePlan
  <2>2. PICK d \in 0 .. NumChunks(Len(PromptOf[r])) : op = Saved(r, d)
    BY <2>4
  <2>3. op.done = d /\ op.prompt = PromptOf[r]
    BY <2>2 DEF Saved, SaveOp
  <2> QED
    BY <2>2, <2>3
<1> QED
  BY <1>2, <1>3, <1>4, <1>5, <1>6, <1>7, <1>8, <1>9 DEF TypeOK

\* The requests, the plans and the phase always fit together: a plan is for a request that
\* is being scheduled and has the blocks it was planned for, so none outlives the step it
\* was made in (build_connector_meta empties both lists); what is stored is KV of prompts.
THEOREM TypeCorrect == Spec => []TypeOK
BY Types, TypesAreOK, PTL

-----------------------------------------------------------------------------
(***************************************************************************)
(* Whose block it is, without a prefix cache of vLLM's own.                *)
(***************************************************************************)

\* No prefix caching by vLLM, and nobody deletes what vLLM was told has matched.
Apart == ~PrefixCaching /\ "delete" \notin Others

LEMMA NothingComputed ==
  ASSUME NEW r \in Request, \A b \in Block : hashed[b] = None
  PROVE  ComputedBlocks(PromptOf[r]) = 0
<1> DEFINE T == {n \in 1 .. Len(PromptOf[r]) - 1 :
                    \A j \in 1 .. n : \E b \in Block : hashed[b] = KV(PromptOf[r], j)}
<1>1. Len(PromptOf[r]) \in Nat \ {0} /\ DOMAIN PromptOf[r] = 1 .. Len(PromptOf[r])
  BY RequestPrompt
<1>2. KV(PromptOf[r], 1) # None
  <2>1. 1 \in DOMAIN PromptOf[r] /\ PromptOf[r] \in Prompts
    BY <1>1, RequestsArePrompts
  <2> QED
    BY <2>1, NoneIsNoKV, Zenon
<1>3. T = {}
  <2> SUFFICES ASSUME NEW n \in T PROVE FALSE
    OBVIOUS
  <2>1. 1 \in 1 .. n
    BY <1>1
  <2>2. \A j \in 1 .. n : \E b \in Block : hashed[b] = KV(PromptOf[r], j)
    OBVIOUS
  <2> QED
    BY <1>2, <2>1, <2>2
<1>4. ComputedBlocks(PromptOf[r]) = Cardinality(T)
  BY DEF ComputedBlocks
<1> QED
  BY <1>3, <1>4, FS_EmptySet

\* A request gives its blocks back, or keeps them.
LEMMA OwnLess ==
  ASSUME Own, \A r \in Request : req'[r].blocks \in {req[r].blocks, <<>>}
  PROVE  Own'
<1> SUFFICES ASSUME NEW r \in Request, NEW s \in Request,
                    NEW i \in DOMAIN req'[r].blocks, NEW j \in DOMAIN req'[s].blocks,
                    req'[r].blocks[i] = req'[s].blocks[j]
             PROVE  r = s /\ i = j
  BY DEF Own
<1>1. DOMAIN <<>> = {}
  OBVIOUS
<1>2. req'[r].blocks = req[r].blocks /\ req'[s].blocks = req[s].blocks
  BY <1>1
<1> QED
  BY <1>2 DEF Own

LEMMA OwnAlloc ==
  ASSUME ReqInv, Own, NEW r \in Request, NEW blocks \in Allocation(r), req[r].computed = 0,
         OnlyMoves(r), req'[r].blocks = blocks
  PROVE  Own'
<1>1. /\ DOMAIN blocks = 1 .. Len(PromptOf[r]) /\ Len(PromptOf[r]) \in Nat
      /\ \A i, j \in DOMAIN blocks : i # j => blocks[i] # blocks[j]
      /\ \A j \in DOMAIN blocks : blocks[j] \in Free
  <2>1. /\ DOMAIN PromptOf[r] = 1 .. Len(PromptOf[r]) /\ Len(PromptOf[r]) \in Nat
    BY RequestPrompt
  <2>2. /\ blocks \in [DOMAIN PromptOf[r] -> Block]
        /\ \A i, j \in DOMAIN PromptOf[r] : i # j => blocks[i] # blocks[j]
        /\ \A j \in req[r].computed + 1 .. Len(PromptOf[r]) : blocks[j] \in Free
    BY DEF Allocation
  <2>3. req[r].computed + 1 .. Len(PromptOf[r]) = 1 .. Len(PromptOf[r])
    BY <2>1
  <2> QED
    BY <2>1, <2>2, <2>3
<1>2. \A s \in Request : \A j \in DOMAIN req[s].blocks : req[s].blocks[j] \notin Free
  BY DEF Free
<1>3. \A s \in Request \ {r} : req'[s].blocks = req[s].blocks
  BY DEF OnlyMoves
<1> SUFFICES ASSUME NEW s \in Request, NEW t \in Request,
                    NEW i \in DOMAIN req'[s].blocks, NEW j \in DOMAIN req'[t].blocks,
                    req'[s].blocks[i] = req'[t].blocks[j]
             PROVE  s = t /\ i = j
  BY DEF Own
<1>4. CASE s = r /\ t = r
  BY <1>1, <1>4
<1>5. CASE s = r /\ t # r
  BY <1>1, <1>2, <1>3, <1>5
<1>6. CASE s # r /\ t = r
  BY <1>1, <1>2, <1>3, <1>6
<1>7. CASE s # r /\ t # r
  BY <1>3, <1>7 DEF Own
<1> QED
  BY <1>4, <1>5, <1>6, <1>7

LEMMA NextOwn ==
  ASSUME ~PrefixCaching, TypeInv, OwnInv, [Next]_vars
  PROVE  OwnInv'
<1>1. ReqInv /\ StoreInv /\ Own /\ \A b \in Block : hashed[b] = None
  BY DEF TypeInv, OwnInv
<1>2. \A r \in Request : req[r].computed = 0
  BY DEF OwnInv
<1> DEFINE Quiet == /\ \A b \in Block : hashed'[b] = None
                    /\ \A r \in Request : req'[r].computed = 0 /\ req'[r].blocks \in {req[r].blocks, <<>>}
<1>3. ASSUME Quiet PROVE OwnInv'
  BY <1>1, <1>3, OwnLess DEF OwnInv
<1>4. ASSUME NEW r \in Request, Match(r) PROVE OwnInv'
  <2>1. OnlyMoves(r) /\ req'[r].computed = ComputedBlocks(PromptOf[r]) /\ req'[r].blocks = <<>>
    BY <1>1, <1>4, MatchMoves
  <2>2. ComputedBlocks(PromptOf[r]) = 0
    BY <1>1, NothingComputed
  <2>3. hashed' = hashed
    BY <1>4 DEF Match
  <2>4. Quiet
    BY <1>1, <1>2, <2>1, <2>2, <2>3 DEF OnlyMoves
  <2> QED
    BY <1>3, <2>4
<1>5. ASSUME NEW r \in Request, Lookup(r) PROVE OwnInv'
  <2>1. hashed' = hashed
    BY <1>5 DEF Lookup
  <2>2. CASE phase' = "raised"
    <3>1. req' = req
      BY <1>5, <2>2 DEF Lookup
    <3> QED
      BY <1>1, <1>2, <1>3, <2>1, <3>1
  <2>3. CASE phase' # "raised"
    <3>1. OnlyMoves(r) /\ req'[r].computed = req[r].computed /\ req'[r].blocks = <<>>
      BY <1>1, <1>5, <2>3, LookupMoves
    <3>2. Quiet
      BY <1>1, <1>2, <2>1, <3>1 DEF OnlyMoves
    <3> QED
      BY <1>3, <3>2
  <2> QED
    BY <2>2, <2>3
<1>6. ASSUME NEW r \in Request, Alloc(r) PROVE OwnInv'
  <2>1. PICK blocks \in Allocation(r) :
           /\ req' = [req EXCEPT ![r] = [@ EXCEPT !.at = "scheduled", !.blocks = blocks]]
           /\ hashed' = [b \in Block |-> IF \E j \in DOMAIN blocks : j > req[r].computed /\ blocks[j] = b
                                         THEN None ELSE hashed[b]]
    BY <1>6 DEF Alloc
  <2>2. r \in At("matched")
    BY <1>6 DEF Alloc
  <2>3. OnlyMoves(r) /\ req'[r].computed = req[r].computed /\ req'[r].blocks = blocks
    BY <1>1, <2>1, <2>2, AllocMoves
  <2>4. Own'
    BY <1>1, <1>2, <2>3, OwnAlloc
  <2>5. \A b \in Block : hashed'[b] = None
    BY <1>1, <2>1
  <2>6. \A s \in Request : req'[s].computed = 0
    BY <1>2, <2>3 DEF OnlyMoves
  <2> QED
    BY <2>4, <2>5, <2>6 DEF OwnInv
<1>7. ASSUME NEW r \in Request, Finish(r) PROVE OwnInv'
  <2>1. OnlyMoves(r) /\ req'[r] = Waiting /\ hashed' = hashed
    BY <1>1, <1>7, FinishMoves DEF Finish
  <2>2. Waiting.computed = 0 /\ Waiting.blocks = <<>>
    BY DEF Waiting
  <2>3. Quiet
    BY <1>1, <1>2, <2>1, <2>2 DEF OnlyMoves
  <2> QED
    BY <1>3, <2>3
<1>8. CASE Forward
  <2>1. \A b \in Block : hashed'[b] = hashed[b]
    BY <1>8, ForwardWrites
  <2>2. \A r \in Request : req'[r].computed = req[r].computed /\ req'[r].blocks = req[r].blocks
    BY <1>1, <1>8, ForwardMoves
  <2>3. Quiet
    BY <1>1, <1>2, <2>1, <2>2
  <2> QED
    BY <1>3, <2>3
<1>9. CASE UNCHANGED <<hashed, req>>
  <2>1. Quiet
    BY <1>1, <1>2, <1>9
  <2> QED
    BY <1>3, <2>1
<1>10. BuildMeta \/ EndStep \/ UNCHANGED vars => UNCHANGED <<hashed, req>>
  BY DEF BuildMeta, EndStep, vars
<1>11. \A op : StartLoad(op) \/ PutChunk(op) \/ Commit(op) => UNCHANGED <<hashed, req>>
  BY DEF StartLoad, PutChunk, Commit
<1>12. \A c : /\ Delete(c) \/ Evict(c) => UNCHANGED <<hashed, req>>
              /\ BeginRegister(c) \/ RegisterChunk(c) \/ CommitRegister(c) => UNCHANGED <<hashed, req>>
  BY DEF Delete, Evict, BeginRegister, RegisterChunk, CommitRegister, connector
<1> QED
  BY <1>4, <1>5, <1>6, <1>7, <1>8, <1>9, <1>10, <1>11, <1>12 DEF Next

-----------------------------------------------------------------------------
(***************************************************************************)
(* What the blocks and the cache hold.                                     *)
(***************************************************************************)

\* Nothing is written into the blocks of the requests that run.
LEMMA RunsOn ==
  ASSUME RunsOnItsOwnKV, buffer' = buffer,
         \A r \in At("running")' : r \in At("running") /\ req'[r].blocks = req[r].blocks
  PROVE  RunsOnItsOwnKV'
BY DEF RunsOnItsOwnKV, Right

\* What has been matched, planned or loaded stays so.
LEMMA LoadsOn ==
  ASSUME LoadsInv, table' = table, buffer' = buffer,
         pendingLoads' \union meta'.loads = pendingLoads \union meta.loads,
         \A r \in At("matched")' : \/ r \in At("matched") /\ req'[r] = req[r]
                                   \/ ~(req'[r].external > 0)
                                   \/ Exists(CacheOf[r]) /\ StillMatched(r)',
         \A r \in At("scheduled")' : r \in At("scheduled") /\ req'[r] = req[r]
  PROVE  LoadsInv'
<1>1. ASSUME NEW r \in At("matched")', req'[r].external > 0
      PROVE  Exists(CacheOf[r])' /\ StillMatched(r)'
  BY <1>1 DEF LoadsInv, Exists, StillMatched, AtHead
<1>2. ASSUME NEW r \in At("scheduled")'
      PROVE  IF Planned(r)' THEN StillMatched(r)' ELSE Right(r, req[r].external)'
  <2>1. r \in At("scheduled") /\ req'[r] = req[r]
    OBVIOUS
  <2>2. LoadOp(r, req[r].blocks)' = LoadOp(r, req[r].blocks)
    BY <2>1 DEF LoadOp
  <2>3. Planned(r)' <=> Planned(r)
    BY <2>2 DEF Planned
  <2>4. StillMatched(r) => StillMatched(r)'
    BY <2>1 DEF StillMatched, AtHead, Exists
  <2>5. Right(r, req[r].external) => Right(r, req[r].external)'
    BY <2>1 DEF Right
  <2> QED
    BY <2>1, <2>3, <2>4, <2>5 DEF LoadsInv
<1> QED
  BY <1>1, <1>2 DEF LoadsInv

\* What is stored, registered and being saved stays as it is.
LEMMA RightOn ==
  ASSUME RightInv, UNCHANGED <<table, store>>, meta'.saves = meta.saves
  PROVE  RightInv'
<1>1. SharedInv'
  BY DEF RightInv, SharedInv
<1>2. PutInv'
  BY DEF RightInv, PutInv
<1>3. SavedIsRight'
  <2> SUFFICES ASSUME NEW c \in CacheId, table'[c] # None, NEW i \in DOMAIN Chunks(table'[c])
               PROVE  store'[<<c, i>>] \in {None, ChunkKV(table'[c], i)} \union
                         {ChunkKV(op.prompt, i) : op \in {o \in meta'.saves : o.cache = c /\ i <= o.done}}
    BY DEF SavedIsRight
  <2>1. store[<<c, i>>] \in {None, ChunkKV(table[c], i)} \union
           {ChunkKV(op.prompt, i) : op \in {o \in meta.saves : o.cache = c /\ i <= o.done}}
    BY DEF RightInv, SavedIsRight
  <2> QED
    BY <2>1
<1> QED
  BY <1>1, <1>2, <1>3 DEF RightInv

\* A plan to save, in any phase.
LEMMA PlanFacts ==
  ASSUME PlansInv, NEW op \in meta.saves
  PROVE  \E r \in Request :
            /\ op.cache = CacheOf[r] /\ op.cache \in CacheId /\ r \in Saving
            /\ op.prompt = PromptOf[r] /\ op.prompt \in Prompts
            /\ op.done \in 0 .. NumChunks(Len(op.prompt))
            /\ NumChunks(Len(op.prompt)) \in Nat \ {0}
<1>1. PICK r \in At("scheduled") \union At("running") : \E d \in 0 .. NumChunks(Len(PromptOf[r])) :
         CacheOf[r] \in CacheId /\ r \in Saving /\ op = Saved(r, d)
  BY DEF PlansInv, SavePlan
<1>2. PICK d \in 0 .. NumChunks(Len(PromptOf[r])) : CacheOf[r] \in CacheId /\ r \in Saving /\ op = Saved(r, d)
  BY <1>1
<1>3. op.cache = CacheOf[r] /\ op.prompt = PromptOf[r] /\ op.done = d
  BY <1>2 DEF Saved, SaveOp
<1>4. r \in Request /\ PromptOf[r] \in Prompts
  BY RequestsArePrompts DEF At
<1> QED
  BY <1>2, <1>3, <1>4, ChunkIndices

\* What a save writes under an id that clients register leads what they register.
LEMMA SaveLeads ==
  ASSUME Steady, PlansInv, NEW op \in meta.saves, NEW p \in ClientPrompts[op.cache]
  PROVE  /\ Leads(op.prompt, p)
         /\ \A i \in 1 .. NumChunks(Len(op.prompt)) :
               i \in 1 .. NumChunks(Len(p)) /\ ChunkKV(op.prompt, i) = ChunkKV(p, i)
<1>1. PICK r \in Request : /\ op.cache = CacheOf[r] /\ op.cache \in CacheId /\ r \in Saving
                           /\ op.prompt = PromptOf[r] /\ op.prompt \in Prompts
  BY PlanFacts
<1>2. Leads(op.prompt, p)
  BY <1>1 DEF Steady
<1>3. p \in Prompts
  BY <1>1, ClientsArePrompts
<1>4. p \in Seq(Content) \ {<<>>} /\ op.prompt \in Seq(Content) \ {<<>>}
  BY <1>1, <1>3, AnyPrompt
<1> QED
  BY <1>2, <1>4, LeadPayloads

\* An object is gone from the store.
LEMMA LossRight ==
  ASSUME StoreInv, PlansInv, RightInv, NEW k, store' = [store EXCEPT ![k] = None],
         table' = table, meta'.saves = meta.saves
  PROVE  RightInv'
<1>1. DOMAIN store = CacheId \X Index /\ DOMAIN store' = CacheId \X Index
  BY DEF StoreInv
<1>2. ASSUME NEW c \in CacheId, NEW i \in Index PROVE store'[<<c, i>>] \in {None, store[<<c, i>>]}
  BY <1>1
<1>3. SharedInv'
  <2> SUFFICES ASSUME NEW c \in CacheId, NEW p \in ClientPrompts[c]
               PROVE  /\ table[c] # None => Leads(table[c], p)
                      /\ \A i \in Index : store'[<<c, i>>] # None =>
                            i \in 1 .. NumChunks(Len(p)) /\ store'[<<c, i>>] = ChunkKV(p, i)
    BY DEF SharedInv
  <2> QED
    BY <1>2 DEF RightInv, SharedInv
<1>4. PutInv'
  <2> SUFFICES ASSUME NEW op \in meta.saves, NEW i \in 1 .. op.done
               PROVE  store'[<<op.cache, i>>] \in {None, ChunkKV(op.prompt, i)}
    BY DEF RightInv, PutInv
  <2>1. op.cache \in CacheId /\ i \in Index
    <3>1. /\ op.cache \in CacheId /\ op.prompt \in Prompts /\ op.done \in 0 .. NumChunks(Len(op.prompt))
          /\ NumChunks(Len(op.prompt)) \in Nat
      BY PlanFacts
    <3>2. i \in 1 .. NumChunks(Len(op.prompt))
      BY <3>1
    <3> QED
      BY <3>1, <3>2, ChunkIndices
  <2>2. store[<<op.cache, i>>] \in {None, ChunkKV(op.prompt, i)}
    BY DEF RightInv, PutInv
  <2> QED
    BY <1>2, <2>1, <2>2
<1>5. SavedIsRight'
  <2> SUFFICES ASSUME NEW c \in CacheId, table[c] # None, NEW i \in DOMAIN Chunks(table[c])
               PROVE  store'[<<c, i>>] \in {None, ChunkKV(table[c], i)} \union
                         {ChunkKV(op.prompt, i) : op \in {o \in meta'.saves : o.cache = c /\ i <= o.done}}
    BY DEF SavedIsRight
  <2>1. i \in Index
    <3>1. table[c] \in Prompts
      BY DEF StoreInv
    <3> QED
      BY <3>1, ChunkIndices
  <2>2. store[<<c, i>>] \in {None, ChunkKV(table[c], i)} \union
           {ChunkKV(op.prompt, i) : op \in {o \in meta.saves : o.cache = c /\ i <= o.done}}
    BY DEF RightInv, SavedIsRight
  <2> QED
    BY <1>2, <2>1, <2>2
<1> QED
  BY <1>3, <1>4, <1>5 DEF RightInv

\* The load planned for a request whose external blocks have been matched.
LEMMA AllocKV ==
  ASSUME KVInv, NEW r \in Request, Alloc(r)
  PROVE  LoadsInv' /\ RightInv' /\ RunsOnItsOwnKV'
<1>1. ReqInv /\ PlansInv /\ PhaseInv /\ LoadsInv /\ RightInv /\ RunsOnItsOwnKV
  BY DEF KVInv, TypeInv
<1>2. PICK blocks \in Allocation(r) :
         /\ req' = [req EXCEPT ![r] = [@ EXCEPT !.at = "scheduled", !.blocks = blocks]]
         /\ pendingLoads' = IF req[r].external > 0 /\ Exists(CacheOf[r])
                            THEN pendingLoads \union {LoadOp(r, blocks)} ELSE pendingLoads
  BY DEF Alloc
<1>3. r \in At("matched") /\ UNCHANGED <<table, store, buffer, meta>>
  BY DEF Alloc, engine
<1>4. /\ OnlyMoves(r) /\ req[r].at = "matched" /\ req'[r].at = "scheduled"
      /\ req'[r].external = req[r].external /\ req'[r].blocks = blocks
  BY <1>1, <1>2, <1>3, AllocMoves
<1>5. LoadOp(r, blocks) = LoadOp(r, req[r].blocks)'
  BY <1>4 DEF LoadOp
<1>6. ASSUME NEW op \in pendingLoads \union meta.loads PROVE op.request \in At("scheduled")
  BY <1>1 DEF PlansInv, LoadPlan, LoadOp
<1>7. LoadOp(r, blocks).request = r /\ r \notin At("scheduled")
  BY <1>4 DEF LoadOp, At
<1>8. RunsOnItsOwnKV'
  <2>1. ASSUME NEW s \in At("running")' PROVE s \in At("running") /\ req'[s].blocks = req[s].blocks
    BY <1>4 DEF OnlyMoves, At
  <2> QED
    BY <1>1, <1>3, <2>1, RunsOn
<1>9. ASSUME NEW s \in At("matched")', req'[s].external > 0 PROVE Exists(CacheOf[s])' /\ StillMatched(s)'
  <2>1. s \in At("matched") /\ req'[s] = req[s]
    BY <1>4 DEF OnlyMoves, At
  <2> QED
    BY <1>1, <1>3, <1>9, <2>1 DEF LoadsInv, StillMatched, AtHead, Exists
<1>10. ASSUME NEW s \in At("scheduled")'
       PROVE  IF Planned(s)' THEN StillMatched(s)' ELSE Right(s, req[s].external)'
  <2>1. CASE s = r /\ req[r].external > 0
    <3>1. Exists(CacheOf[r]) /\ StillMatched(r)
      BY <1>1, <1>3, <2>1 DEF LoadsInv
    <3>2. Planned(r)'
      BY <1>2, <1>5, <2>1, <3>1 DEF Planned
    <3>3. StillMatched(r)'
      BY <1>3, <1>4, <3>1 DEF StillMatched, AtHead, Exists
    <3> QED
      BY <2>1, <3>2, <3>3
  <2>2. CASE s = r /\ ~(req[r].external > 0)
    <3>1. pendingLoads' = pendingLoads
      BY <1>2, <2>2
    <3>2. ~Planned(r)'
      BY <1>3, <1>5, <1>6, <1>7, <3>1 DEF Planned
    <3>3. req'[r].external \in Nat /\ ~(req'[r].external > 0)
      <4>1. req[r].external \in Nat
        BY <1>1 DEF ReqInv, Placed, Position
      <4> QED
        BY <1>4, <2>2, <4>1
    <3>4. Right(r, req[r].external)'
      BY <3>3 DEF Right
    <3> QED
      BY <2>2, <3>2, <3>4
  <2>3. CASE s # r
    <3>1. s \in At("scheduled") /\ req'[s] = req[s]
      BY <1>4, <2>3 DEF OnlyMoves, At
    <3>2. LoadOp(s, req[s].blocks)' = LoadOp(s, req[s].blocks) /\ LoadOp(s, req[s].blocks).request = s
      BY <3>1 DEF LoadOp
    <3>3. Planned(s)' <=> Planned(s)
      <4>1. LoadOp(s, req[s].blocks) # LoadOp(r, blocks)
        BY <1>7, <2>3, <3>2
      <4> QED
        BY <1>2, <1>3, <3>2, <4>1 DEF Planned
    <3>4. StillMatched(s) => StillMatched(s)'
      BY <1>3, <3>1 DEF StillMatched, AtHead, Exists
    <3>5. Right(s, req[s].external) => Right(s, req[s].external)'
      BY <1>3, <3>1 DEF Right
    <3> QED
      BY <1>1, <3>1, <3>3, <3>4, <3>5 DEF LoadsInv
  <2> QED
    BY <2>1, <2>2, <2>3
<1>11. LoadsInv'
  BY <1>9, <1>10 DEF LoadsInv
<1> QED
  BY <1>1, <1>3, <1>8, <1>11, RightOn

\* wait_for_save puts the KV of a request that runs, or loses what the key held.
LEMMA PutKV ==
  ASSUME Steady, KVInv, NEW op \in meta.saves, PutChunk(op)
  PROVE  LoadsInv' /\ RightInv' /\ RunsOnItsOwnKV'
<1>1. ReqInv /\ PlansInv /\ PhaseInv /\ StoreInv /\ RightInv /\ RunsOnItsOwnKV
  BY DEF KVInv, TypeInv
<1>2. phase = "save" /\ UNCHANGED <<table, buffer, req>>
  BY DEF PutChunk
<1>3. At("matched")' = {} /\ At("scheduled")' = {}
  BY <1>1, <1>2 DEF PhaseInv, InScheduler, At
<1>4. LoadsInv'
  BY <1>3 DEF LoadsInv
<1>5. RunsOnItsOwnKV'
  BY <1>1, <1>2, RunsOn DEF At
<1>6. CASE Refused(<<op.cache, op.done + 1>>) /\ meta' = meta
  <2>1. RightInv'
    BY <1>1, <1>2, <1>6, LossRight DEF Refused
  <2> QED
    BY <1>4, <1>5, <2>1
<1> DEFINE i == op.done + 1
           c == op.cache
           p == op.prompt
           payloads == SaveFrom(buffer, op.blocks, NumChunks(Len(p)))
           next == [op EXCEPT !.done = i]
<1>7. CASE /\ store' = [store EXCEPT ![<<c, i>>] = payloads[i]]
           /\ meta' = [meta EXCEPT !.saves = (@ \ {op}) \union {next}]
  <2>1. PICK r \in At("running") :
           /\ r \in Request /\ op.cache = CacheOf[r] /\ op.prompt = PromptOf[r] /\ op.blocks = req[r].blocks
           /\ CacheOf[r] \in CacheId /\ op.done \in 0 .. NumChunks(Len(PromptOf[r])) /\ op = Saved(r, op.done)
           /\ req[r].blocks \in Seq(Block) /\ Len(req[r].blocks) = Len(PromptOf[r])
    BY <1>1, <1>2, SaveFacts
  <2>2. i \in 1 .. NumChunks(Len(p)) /\ \A o \in meta.saves \ {op} : o.done = 0
    BY DEF PutChunk, SaveFrom, Current
  <2>3. payloads[i] = ChunkKV(p, i)
    <3>1. \A j \in 1 .. Len(PromptOf[r]) : buffer[req[r].blocks[j]] = KV(PromptOf[r], j)
      BY <1>1 DEF RunsOnItsOwnKV, Right
    <3>2. PromptOf[r] \in Seq(Content) \ {<<>>}
      BY <2>1, RequestPrompt
    <3>3. i \in 1 .. NumChunks(Len(PromptOf[r]))
      BY <2>1, <2>2
    <3>4. SaveFrom(buffer, req[r].blocks, NumChunks(Len(PromptOf[r])))[i] = ChunkKV(PromptOf[r], i)
      <4> HIDE DEF i
      <4> QED
        BY <2>1, <3>1, <3>2, <3>3, SaveIsRight
    <3> QED
      BY <2>1, <3>4
  <2>4. c \in CacheId /\ p \in Prompts /\ 1 .. NumChunks(Len(p)) \subseteq Index /\ i \in Index
        /\ DOMAIN store = CacheId \X Index
    <3>1. p \in Prompts /\ c \in CacheId
      BY <2>1, RequestsArePrompts
    <3>2. 1 .. NumChunks(Len(p)) \subseteq Index
      BY <3>1, ChunkIndices
    <3> QED
      BY <1>1, <2>2, <3>1, <3>2 DEF StoreInv
  <2>5. next.cache = c /\ next.prompt = p /\ next.done = i
    BY <2>1 DEF Saved, SaveOp
  <2>6. meta'.saves = (meta.saves \ {op}) \union {next}
    <3>1. meta' = [loads |-> meta.loads, saves |-> (meta.saves \ {op}) \union {next}]
      BY <1>1, <1>7 DEF PhaseInv
    <3> QED
      BY <3>1
  <2>15. op.done \in Nat /\ i \in Nat \ {0} /\ op.done = i - 1
    <3>1. NumChunks(Len(PromptOf[r])) \in Nat \ {0}
      BY <2>1, RequestsArePrompts, ChunkIndices
    <3> QED
      BY <2>1, <3>1
  <2>16. store' = [store EXCEPT ![<<c, i>>] = ChunkKV(p, i)]
    BY <1>7, <2>3
  <2>17. \A d \in ClientPrompts[c] : i \in 1 .. NumChunks(Len(d)) /\ ChunkKV(p, i) = ChunkKV(d, i)
    BY <1>1, <2>2, SaveLeads
  <2> HIDE DEF i, c, p, payloads, next
  <2>7. store'[<<c, i>>] = ChunkKV(p, i)
    BY <2>4, <2>16
  <2>8. \A d \in CacheId : \A j \in Index : d # c \/ j # i => store'[<<d, j>>] = store[<<d, j>>]
    BY <2>4, <2>16
  <2>9. SharedInv'
    <3> SUFFICES ASSUME NEW d \in CacheId, NEW q \in ClientPrompts[d]
                 PROVE  /\ table[d] # None => Leads(table[d], q)
                        /\ \A j \in Index : store'[<<d, j>>] # None =>
                              j \in 1 .. NumChunks(Len(q)) /\ store'[<<d, j>>] = ChunkKV(q, j)
      BY <1>2 DEF SharedInv
    <3>1. /\ table[d] # None => Leads(table[d], q)
          /\ \A j \in Index : store[<<d, j>>] # None =>
                j \in 1 .. NumChunks(Len(q)) /\ store[<<d, j>>] = ChunkKV(q, j)
      BY <1>1 DEF RightInv, SharedInv
    <3>2. ASSUME NEW j \in Index, store'[<<d, j>>] # None
          PROVE  j \in 1 .. NumChunks(Len(q)) /\ store'[<<d, j>>] = ChunkKV(q, j)
      <4>1. CASE d = c /\ j = i
        BY <2>7, <2>17, <4>1
      <4>2. CASE d # c \/ j # i
        BY <2>8, <3>1, <3>2, <4>2
      <4> QED
        BY <4>1, <4>2
    <3> QED
      BY <3>1, <3>2
  <2>10. PutInv'
    <3>1. ASSUME NEW o \in meta'.saves, NEW j \in 1 .. o.done
          PROVE  store'[<<o.cache, j>>] \in {None, ChunkKV(o.prompt, j)}
      <4>1. CASE o = next
        <5>1. o.done = i /\ o.cache = c /\ o.prompt = p
          BY <2>5, <4>1
        <5>2. j = i \/ (j \in 1 .. op.done /\ j # i)
          BY <2>15, <5>1
        <5>3. j \in 1 .. op.done => store[<<c, j>>] \in {None, ChunkKV(p, j)}
          BY <1>1 DEF RightInv, PutInv, c, p
        <5>4. j \in Index
          <6>1. NumChunks(Len(p)) \in Nat
            BY <2>4, ChunkIndices
          <6>2. j \in 1 .. NumChunks(Len(p))
            BY <2>2, <2>15, <5>1, <6>1
          <6> QED
            BY <2>4, <6>2
        <5> QED
          BY <2>4, <2>7, <2>8, <5>1, <5>2, <5>3, <5>4
      <4>2. CASE o # next
        <5>1. o.done = 0
          BY <2>2, <2>6, <4>2
        <5> QED
          BY <5>1
      <4> QED
        BY <4>1, <4>2
    <3>2. \A o \in meta'.saves : o # next => o.done = 0
      BY <2>2, <2>6
    <3> QED
      BY <3>1, <3>2 DEF PutInv
  <2>11. SavedIsRight'
    <3> SUFFICES ASSUME NEW d \in CacheId, table[d] # None, NEW j \in DOMAIN Chunks(table[d])
                 PROVE  store'[<<d, j>>] \in {None, ChunkKV(table[d], j)} \union
                           {ChunkKV(o.prompt, j) : o \in {x \in meta'.saves : x.cache = d /\ j <= x.done}}
      BY <1>2 DEF SavedIsRight
    <3>1. table[d] \in Prompts
      BY <1>1 DEF StoreInv
    <3>2. j \in Index /\ j \in Nat
      <4>1. j \in 1 .. NumChunks(Len(table[d])) /\ j \in Index /\ NumChunks(Len(table[d])) \in Nat
        BY <3>1, ChunkIndices
      <4> QED
        BY <4>1
    <3>3. next \in meta'.saves
      BY <2>6
    <3>4. CASE d = c /\ j = i
      <4>1. next.cache = d /\ j <= next.done /\ store'[<<d, j>>] = ChunkKV(next.prompt, j)
        BY <2>5, <2>7, <2>15, <3>4
      <4> QED
        BY <3>3, <4>1
    <3>5. CASE d # c \/ j # i
      <4>1. store'[<<d, j>>] = store[<<d, j>>]
        BY <2>8, <3>2, <3>5
      <4>2. store[<<d, j>>] \in {None, ChunkKV(table[d], j)} \union
               {ChunkKV(o.prompt, j) : o \in {x \in meta.saves : x.cache = d /\ j <= x.done}}
        BY <1>1 DEF RightInv, SavedIsRight
      <4>3. ASSUME NEW o \in meta.saves, o.cache = d, j <= o.done
            PROVE  \E x \in meta'.saves : x.cache = d /\ j <= x.done /\ x.prompt = o.prompt
        <5>1. CASE o = op
          <6>1. next.cache = d /\ next.prompt = o.prompt /\ j <= next.done
            BY <2>5, <2>15, <3>2, <4>3, <5>1 DEF c, p
          <6> QED
            BY <3>3, <6>1
        <5>2. CASE o # op
          BY <2>6, <4>3, <5>2
        <5> QED
          BY <5>1, <5>2
      <4> QED
        BY <4>1, <4>2, <4>3
    <3> QED
      BY <3>4, <3>5
  <2> QED
    BY <1>4, <1>5, <2>9, <2>10, <2>11 DEF RightInv
<1> QED
  BY <1>6, <1>7 DEF PutChunk

\* The commit publishes the prompt whose chunks have all been put.
LEMMA CommitKV ==
  ASSUME Steady, KVInv, NEW op \in meta.saves, Commit(op)
  PROVE  LoadsInv' /\ RightInv' /\ RunsOnItsOwnKV'
<1>1. ReqInv /\ PlansInv /\ PhaseInv /\ StoreInv /\ RightInv /\ RunsOnItsOwnKV
  BY DEF KVInv, TypeInv
<1>2. phase = "save" /\ UNCHANGED <<store, buffer, req>>
  BY DEF Commit
<1>3. At("matched")' = {} /\ At("scheduled")' = {}
  BY <1>1, <1>2 DEF PhaseInv, InScheduler, At
<1>4. LoadsInv'
  BY <1>3 DEF LoadsInv
<1>5. RunsOnItsOwnKV'
  BY <1>1, <1>2, RunsOn DEF At
<1>6. CASE UNCHANGED <<table, meta>>
  <2>1. RightInv'
    BY <1>1, <1>2, <1>6, RightOn
  <2> QED
    BY <1>4, <1>5, <2>1
<1> DEFINE c == op.cache
           p == op.prompt
<1>7. CASE table' = [table EXCEPT ![c] = p] /\ meta' = [meta EXCEPT !.saves = @ \ {op}]
  <2>1. c \in CacheId /\ p \in Prompts /\ op.done = NumChunks(Len(p)) /\ DOMAIN Chunks(p) = 1 .. NumChunks(Len(p))
    BY <1>1, PlanFacts, ChunkIndices DEF Commit
  <2>2. meta'.saves = meta.saves \ {op}
    <3>1. meta' = [loads |-> meta.loads, saves |-> meta.saves \ {op}]
      BY <1>1, <1>7 DEF PhaseInv
    <3> QED
      BY <3>1
  <2>3. \A q \in ClientPrompts[c] : Leads(p, q)
    BY <1>1, SaveLeads
  <2>4. \A j \in 1 .. NumChunks(Len(p)) : store[<<c, j>>] \in {None, ChunkKV(p, j)}
    BY <1>1, <2>1 DEF RightInv, PutInv
  <2>11. \A o \in meta.saves : o.cache # c => o # op
    OBVIOUS
  <2> HIDE DEF c, p
  <2>5. table'[c] = p /\ \A d \in CacheId \ {c} : table'[d] = table[d]
    BY <1>1, <1>7, <2>1 DEF StoreInv
  <2>6. SharedInv'
    <3> SUFFICES ASSUME NEW d \in CacheId, NEW q \in ClientPrompts[d]
                 PROVE  /\ table'[d] # None => Leads(table'[d], q)
                        /\ \A j \in Index : store[<<d, j>>] # None =>
                              j \in 1 .. NumChunks(Len(q)) /\ store[<<d, j>>] = ChunkKV(q, j)
      BY <1>2 DEF SharedInv
    <3> QED
      BY <1>1, <2>3, <2>5 DEF RightInv, SharedInv
  <2>7. PutInv'
    BY <1>1, <1>2, <2>2 DEF RightInv, PutInv
  <2>8. SavedIsRight'
    <3> SUFFICES ASSUME NEW d \in CacheId, table'[d] # None, NEW j \in DOMAIN Chunks(table'[d])
                 PROVE  store[<<d, j>>] \in {None, ChunkKV(table'[d], j)} \union
                           {ChunkKV(o.prompt, j) : o \in {x \in meta'.saves : x.cache = d /\ j <= x.done}}
      BY <1>2 DEF SavedIsRight
    <3>1. CASE d = c
      BY <2>1, <2>4, <2>5, <3>1
    <3>2. CASE d # c
      <4>1. store[<<d, j>>] \in {None, ChunkKV(table[d], j)} \union
               {ChunkKV(o.prompt, j) : o \in {x \in meta.saves : x.cache = d /\ j <= x.done}}
        BY <1>1, <2>5, <3>2 DEF RightInv, SavedIsRight
      <4> QED
        BY <2>2, <2>5, <2>11, <3>2, <4>1
    <3> QED
      BY <3>1, <3>2
  <2> QED
    BY <1>4, <1>5, <2>6, <2>7, <2>8 DEF RightInv
<1> QED
  BY <1>6, <1>7 DEF Commit

\* What a client registers, or deletes, changes one id.
LEMMA TableRight ==
  ASSUME StoreInv, RightInv, NEW c \in CacheId, NEW q, table' = [table EXCEPT ![c] = q],
         UNCHANGED <<store, meta>>,
         q # None => /\ \A p \in ClientPrompts[c] : Leads(q, p)
                     /\ \A j \in DOMAIN Chunks(q) : store[<<c, j>>] \in {None, ChunkKV(q, j)}
  PROVE  /\ RightInv'
         /\ table'[c] = q /\ \A d \in CacheId \ {c} : table'[d] = table[d]
<1>1. table'[c] = q /\ \A d \in CacheId \ {c} : table'[d] = table[d]
  BY DEF StoreInv
<1>2. SharedInv'
  <2> SUFFICES ASSUME NEW d \in CacheId, NEW p \in ClientPrompts[d]
               PROVE  /\ table'[d] # None => Leads(table'[d], p)
                      /\ \A j \in Index : store[<<d, j>>] # None =>
                            j \in 1 .. NumChunks(Len(p)) /\ store[<<d, j>>] = ChunkKV(p, j)
    BY DEF SharedInv
  <2> QED
    BY <1>1 DEF RightInv, SharedInv
<1>3. PutInv'
  BY DEF RightInv, PutInv
<1>4. SavedIsRight'
  <2> SUFFICES ASSUME NEW d \in CacheId, table'[d] # None, NEW j \in DOMAIN Chunks(table'[d])
               PROVE  store[<<d, j>>] \in {None, ChunkKV(table'[d], j)} \union
                         {ChunkKV(o.prompt, j) : o \in {x \in meta.saves : x.cache = d /\ j <= x.done}}
    BY DEF SavedIsRight
  <2>1. CASE d = c
    BY <1>1, <2>1
  <2>2. CASE d # c
    BY <1>1, <2>2 DEF RightInv, SavedIsRight
  <2> QED
    BY <2>1, <2>2
<1> QED
  BY <1>1, <1>2, <1>3, <1>4 DEF RightInv

LEMMA DeleteKV ==
  ASSUME Apart, KVInv, NEW c \in CacheId, Delete(c)
  PROVE  LoadsInv' /\ RightInv' /\ RunsOnItsOwnKV'
<1>1. StoreInv /\ LoadsInv /\ RightInv /\ RunsOnItsOwnKV
  BY DEF KVInv, TypeInv
<1>2. /\ table' = [table EXCEPT ![c] = None]
      /\ UNCHANGED <<store, buffer, req, pendingLoads, meta>> /\ ~CountedOn(c)
  BY DEF Delete, pending, connector, Apart
<1>3. RightInv' /\ table'[c] = None /\ \A d \in CacheId \ {c} : table'[d] = table[d]
  <2>1. UNCHANGED <<store, meta>>
    BY <1>2
  <2> QED
    BY <1>1, <1>2, <2>1, TableRight
<1>4. RunsOnItsOwnKV'
  BY <1>1, <1>2, RunsOn DEF At
<1>5. \A r \in Request : CacheOf[r] \in CacheId \union {None}
  BY CachesAssumption
<1>6. ASSUME NEW r \in Request, StillMatched(r) PROVE StillMatched(r)'
  <2>1. PICK q \in Prompts : AtHead(q, CacheOf[r]) /\ req[r].external = Matched(PromptOf[r], q)
    BY <1>6 DEF StillMatched
  <2>2. AtHead(q, CacheOf[r])'
    <3>1. Exists(CacheOf[r])' => CacheOf[r] \in CacheId \ {c}
      BY <1>3, <1>5 DEF Exists
    <3> QED
      BY <1>3, <2>1, <3>1 DEF AtHead, Exists
  <2> QED
    BY <1>2, <2>1, <2>2 DEF StillMatched
<1>7. ASSUME NEW r \in At("matched"), req[r].external > 0 PROVE Exists(CacheOf[r])' /\ StillMatched(r)'
  <2>1. CacheOf[r] # c /\ r \in Request
    BY <1>2, <1>7 DEF CountedOn, At
  <2>2. Exists(CacheOf[r]) /\ StillMatched(r)
    BY <1>1, <1>7 DEF LoadsInv
  <2>3. table'[CacheOf[r]] = table[CacheOf[r]]
    BY <1>3, <1>5, <2>1, <2>2 DEF Exists
  <2> QED
    BY <1>6, <2>1, <2>2, <2>3 DEF Exists
<1>8. ASSUME NEW r \in At("scheduled")
      PROVE  IF Planned(r)' THEN StillMatched(r)' ELSE Right(r, req[r].external)'
  <2>1. Planned(r)' <=> Planned(r)
    BY <1>2 DEF Planned, LoadOp
  <2>2. Right(r, req[r].external)' <=> Right(r, req[r].external)
    BY <1>2 DEF Right
  <2>3. r \in Request
    BY DEF At
  <2> QED
    BY <1>1, <1>6, <2>1, <2>2, <2>3 DEF LoadsInv
<1>9. At("matched")' = At("matched") /\ At("scheduled")' = At("scheduled")
  BY <1>2 DEF At
<1>10. LoadsInv'
  BY <1>2, <1>7, <1>8, <1>9 DEF LoadsInv
<1> QED
  BY <1>3, <1>4, <1>10

LEMMA EvictKV ==
  ASSUME KVInv, NEW k \in DOMAIN store, Evict(k)
  PROVE  LoadsInv' /\ RightInv' /\ RunsOnItsOwnKV'
<1>1. StoreInv /\ PlansInv /\ LoadsInv /\ RightInv /\ RunsOnItsOwnKV
  BY DEF KVInv, TypeInv
<1>2. store' = [store EXCEPT ![k] = None] /\ UNCHANGED <<table, buffer, req, pendingLoads, meta>>
  BY DEF Evict, pending, connector
<1>3. LoadsInv' /\ RunsOnItsOwnKV'
  BY <1>1, <1>2, LoadsOn, RunsOn DEF At
<1>4. RightInv'
  BY <1>1, <1>2, LossRight
<1> QED
  BY <1>3, <1>4

\* A client puts a chunk: under that id it is the one chunk there can be.
LEMMA RegisterKV ==
  ASSUME Steady, KVInv, NEW t \in Client, BeginRegister(t) \/ RegisterChunk(t)
  PROVE  LoadsInv' /\ RightInv' /\ RunsOnItsOwnKV'
<1>1. StoreInv /\ PlansInv /\ CallInv /\ LoadsInv /\ RightInv /\ RunsOnItsOwnKV
  BY DEF KVInv, TypeInv
<1>2. UNCHANGED <<table, buffer, req, pendingLoads, meta>>
  BY DEF BeginRegister, RegisterChunk, pending, connector
<1>3. LoadsInv' /\ RunsOnItsOwnKV'
  BY <1>1, <1>2, LoadsOn, RunsOn DEF At
<1>4. CASE UNCHANGED store
  <2>1. RightInv'
    BY <1>1, <1>2, <1>4, RightOn
  <2> QED
    BY <1>3, <2>1
<1> DEFINE i == call[t].done + 1
           c == call[t].cache
           p == call[t].prompt
<1>5. CASE store' = [store EXCEPT ![<<c, i>>] = None]
  <2>1. RightInv'
    BY <1>1, <1>2, <1>5, LossRight
  <2> QED
    BY <1>3, <2>1
<1>6. CASE RegisterChunk(t) /\ store' = [store EXCEPT ![<<c, i>>] = ChunkKV(p, i)]
  <2>1. /\ c \in CacheId /\ p \in ClientPrompts[c] /\ p \in Prompts /\ i \in 1 .. NumChunks(Len(p))
        /\ DOMAIN store = CacheId \X Index
    BY <1>1, <1>6, CallFacts DEF RegisterChunk, StoreInv
  <2>2. i \in Index
    BY <2>1, ChunkIndices
  <2>3. \A q \in ClientPrompts[c] : q = p
    BY <2>1 DEF Steady
  <2> HIDE DEF i, c, p
  <2>4. store'[<<c, i>>] = ChunkKV(p, i)
    BY <1>6, <2>1, <2>2
  <2>5. \A d \in CacheId : \A j \in Index : d # c \/ j # i => store'[<<d, j>>] = store[<<d, j>>]
    BY <1>6, <2>1
  <2>6. SharedInv'
    <3> SUFFICES ASSUME NEW d \in CacheId, NEW q \in ClientPrompts[d]
                 PROVE  /\ table[d] # None => Leads(table[d], q)
                        /\ \A j \in Index : store'[<<d, j>>] # None =>
                              j \in 1 .. NumChunks(Len(q)) /\ store'[<<d, j>>] = ChunkKV(q, j)
      BY <1>2 DEF SharedInv
    <3>1. /\ table[d] # None => Leads(table[d], q)
          /\ \A j \in Index : store[<<d, j>>] # None =>
                j \in 1 .. NumChunks(Len(q)) /\ store[<<d, j>>] = ChunkKV(q, j)
      BY <1>1 DEF RightInv, SharedInv
    <3>2. ASSUME NEW j \in Index, store'[<<d, j>>] # None
          PROVE  j \in 1 .. NumChunks(Len(q)) /\ store'[<<d, j>>] = ChunkKV(q, j)
      <4>1. CASE d = c /\ j = i
        BY <2>1, <2>3, <2>4, <4>1
      <4>2. CASE d # c \/ j # i
        BY <2>5, <3>1, <3>2, <4>2
      <4> QED
        BY <4>1, <4>2
    <3> QED
      BY <3>1, <3>2
  <2>7. PutInv'
    <3> SUFFICES ASSUME NEW op \in meta.saves, NEW j \in 1 .. op.done
                 PROVE  store'[<<op.cache, j>>] \in {None, ChunkKV(op.prompt, j)}
      BY <1>1, <1>2 DEF RightInv, PutInv
    <3>1. /\ op.cache \in CacheId /\ op.prompt \in Prompts /\ op.done \in 0 .. NumChunks(Len(op.prompt))
          /\ NumChunks(Len(op.prompt)) \in Nat
      BY <1>1, PlanFacts
    <3>2. j \in 1 .. NumChunks(Len(op.prompt))
      BY <3>1
    <3>3. j \in Index
      BY <3>1, <3>2, ChunkIndices
    <3>4. CASE op.cache = c /\ j = i
      <4>1. ChunkKV(op.prompt, j) = ChunkKV(p, j)
        BY <1>1, <2>1, <3>2, <3>4, SaveLeads
      <4> QED
        BY <2>4, <3>4, <4>1
    <3>5. CASE op.cache # c \/ j # i
      BY <1>1, <2>5, <3>1, <3>3, <3>5 DEF RightInv, PutInv
    <3> QED
      BY <3>4, <3>5
  <2>8. SavedIsRight'
    <3> SUFFICES ASSUME NEW d \in CacheId, table[d] # None, NEW j \in DOMAIN Chunks(table[d])
                 PROVE  store'[<<d, j>>] \in {None, ChunkKV(table[d], j)} \union
                           {ChunkKV(o.prompt, j) : o \in {x \in meta.saves : x.cache = d /\ j <= x.done}}
      BY <1>2 DEF SavedIsRight
    <3>1. table[d] \in Prompts
      BY <1>1 DEF StoreInv
    <3>2. j \in Index /\ j \in 1 .. NumChunks(Len(table[d]))
      BY <3>1, ChunkIndices
    <3>3. CASE d = c /\ j = i
      <4>1. Leads(table[d], p)
        BY <1>1, <2>1, <3>3 DEF RightInv, SharedInv
      <4>2. ChunkKV(table[d], j) = ChunkKV(p, j)
        <5>1. p \in Seq(Content) \ {<<>>} /\ table[d] \in Seq(Content) \ {<<>>}
          BY <2>1, <3>1, AnyPrompt
        <5> QED
          BY <3>2, <4>1, <5>1, LeadPayloads
      <4> QED
        BY <2>4, <3>3, <4>2
    <3>4. CASE d # c \/ j # i
      <4>1. store[<<d, j>>] \in {None, ChunkKV(table[d], j)} \union
               {ChunkKV(o.prompt, j) : o \in {x \in meta.saves : x.cache = d /\ j <= x.done}}
        BY <1>1 DEF RightInv, SavedIsRight
      <4> QED
        BY <2>5, <3>2, <3>4, <4>1
    <3> QED
      BY <3>3, <3>4
  <2> QED
    BY <1>3, <2>6, <2>7, <2>8 DEF RightInv
<1> QED
  BY <1>4, <1>5, <1>6 DEF BeginRegister, RegisterChunk, Refused

\* A client's commit leaves what matched at the head of what is registered.
LEMMA CommitRegisterKV ==
  ASSUME Steady, KVInv, NEW t \in Client, CommitRegister(t)
  PROVE  LoadsInv' /\ RightInv' /\ RunsOnItsOwnKV'
<1>1. StoreInv /\ CallInv /\ LoadsInv /\ RightInv /\ RunsOnItsOwnKV
  BY DEF KVInv, TypeInv
<1> DEFINE c == call[t].cache
           p == call[t].prompt
<1>2. /\ table' = [table EXCEPT ![c] = p]
      /\ UNCHANGED <<store, buffer, req, pendingLoads, meta>> /\ call[t] # None
  BY DEF CommitRegister, pending, connector
<1>3. /\ c \in CacheId /\ p \in ClientPrompts[c] /\ p \in Prompts /\ DOMAIN Chunks(p) = 1 .. NumChunks(Len(p))
  BY <1>1, <1>2, CallFacts
<1>4. p # None
  BY <1>3, PromptIsSomething
<1>5. \A q \in ClientPrompts[c] : q = p
  BY <1>3 DEF Steady
<1> HIDE DEF c, p
<1>6. RightInv' /\ table'[c] = p /\ \A d \in CacheId \ {c} : table'[d] = table[d]
  <2>1. \A q \in ClientPrompts[c] : Leads(p, q)
    BY <1>5 DEF Leads
  <2>2. ASSUME NEW j \in DOMAIN Chunks(p) PROVE store[<<c, j>>] \in {None, ChunkKV(p, j)}
    <3>1. j \in Index
      BY <1>3, ChunkIndices
    <3> QED
      BY <1>1, <1>3, <3>1 DEF RightInv, SharedInv
  <2>3. UNCHANGED <<store, meta>>
    BY <1>2
  <2> QED
    BY <1>1, <1>2, <1>3, <2>1, <2>2, <2>3, TableRight
<1>7. RunsOnItsOwnKV'
  BY <1>1, <1>2, RunsOn DEF At
<1>8. \A r \in Request : CacheOf[r] \in CacheId \union {None}
  BY CachesAssumption
<1>9. ASSUME NEW r \in Request
      PROVE  /\ StillMatched(r) => StillMatched(r)'
             /\ Exists(CacheOf[r]) => Exists(CacheOf[r])'
  <2>1. ASSUME StillMatched(r) PROVE StillMatched(r)'
    <3>1. PICK q \in Prompts : AtHead(q, CacheOf[r]) /\ req[r].external = Matched(PromptOf[r], q)
      BY <2>1 DEF StillMatched
    <3>2. AtHead(q, CacheOf[r])'
      <4>1. CASE CacheOf[r] = c
        BY <1>3, <1>6, <3>1, <4>1 DEF AtHead
      <4>2. CASE CacheOf[r] # c
        BY <1>6, <1>8, <3>1, <4>2 DEF AtHead, Exists
      <4> QED
        BY <4>1, <4>2
    <3> QED
      BY <1>2, <3>1, <3>2 DEF StillMatched
  <2>2. ASSUME Exists(CacheOf[r]) PROVE Exists(CacheOf[r])'
    BY <1>4, <1>6, <1>8, <2>2 DEF Exists
  <2> QED
    BY <2>1, <2>2
<1>10. ASSUME NEW r \in At("scheduled")
       PROVE  IF Planned(r)' THEN StillMatched(r)' ELSE Right(r, req[r].external)'
  <2>1. Planned(r)' <=> Planned(r)
    BY <1>2 DEF Planned, LoadOp
  <2>2. Right(r, req[r].external)' <=> Right(r, req[r].external)
    BY <1>2 DEF Right
  <2>3. r \in Request
    BY DEF At
  <2> QED
    BY <1>1, <1>9, <2>1, <2>2, <2>3 DEF LoadsInv
<1>11. At("matched")' = At("matched") /\ At("scheduled")' = At("scheduled") /\ At("matched") \subseteq Request
  BY <1>2 DEF At
<1>12. LoadsInv'
  BY <1>1, <1>2, <1>9, <1>10, <1>11 DEF LoadsInv
<1> QED
  BY <1>6, <1>7, <1>12

\* get_num_new_matched_tokens counts what lookup has just found.
LEMMA LookupKV ==
  ASSUME KVInv, NEW r \in Request, Lookup(r)
  PROVE  LoadsInv' /\ RightInv' /\ RunsOnItsOwnKV'
<1>1. ReqInv /\ StoreInv /\ LoadsInv /\ RightInv /\ RunsOnItsOwnKV /\ req[r].computed = 0
  BY DEF KVInv, TypeInv, OwnInv
<1>2. UNCHANGED <<table, store, buffer, pendingLoads, meta>>
  BY DEF Lookup, engine, pending
<1>3. RightInv'
  BY <1>1, <1>2, RightOn
<1>4. CASE phase' = "raised"
  <2>1. req' = req
    BY <1>4 DEF Lookup
  <2> QED
    BY <1>1, <1>2, <1>3, <2>1, LoadsOn, RunsOn DEF At
<1>5. CASE phase' # "raised"
  <2>1. /\ OnlyMoves(r) /\ Exists(CacheOf[r]) /\ req'[r].at = "matched"
        /\ req'[r].external > 0 => req'[r].external = Matched(PromptOf[r], table[CacheOf[r]]) - req[r].computed
    BY <1>1, <1>5, LookupMoves
  <2>2. req'[r].external > 0 => req'[r].external = Matched(PromptOf[r], table[CacheOf[r]])
    <3>1. Matched(PromptOf[r], table[CacheOf[r]]) \in 0 .. Len(PromptOf[r]) /\ Len(PromptOf[r]) \in Nat
      BY <1>1, <2>1, MatchedForRequest, RequestPrompt
    <3>2. Matched(PromptOf[r], table[CacheOf[r]]) - req[r].computed = Matched(PromptOf[r], table[CacheOf[r]])
      BY <1>1, <3>1
    <3> QED
      BY <2>1, <3>2
  <2>3. ~(req'[r].external > 0) \/ StillMatched(r)'
    <3>1. table[CacheOf[r]] \in Prompts /\ CacheOf[r] \in CacheId /\ table[CacheOf[r]] # None
      BY <1>1, <2>1, CachesAssumption, RegisteredPrompt DEF Exists
    <3>2. AtHead(table[CacheOf[r]], CacheOf[r])
      BY <1>1, <3>1, LeadsOn DEF AtHead, RightInv, SharedInv, Leads
    <3>3. AtHead(table[CacheOf[r]], CacheOf[r])'
      BY <1>2, <3>2 DEF AtHead, Exists
    <3> QED
      BY <1>2, <2>2, <3>1, <3>3 DEF StillMatched
  <2>4. ASSUME NEW s \in At("matched")'
        PROVE  \/ s \in At("matched") /\ req'[s] = req[s]
               \/ ~(req'[s].external > 0)
               \/ Exists(CacheOf[s]) /\ StillMatched(s)'
    BY <2>1, <2>3 DEF OnlyMoves, At
  <2>5. ASSUME NEW s \in At("scheduled")' PROVE s \in At("scheduled") /\ req'[s] = req[s]
    BY <2>1 DEF OnlyMoves, At
  <2>6. ASSUME NEW s \in At("running")' PROVE s \in At("running") /\ req'[s].blocks = req[s].blocks
    BY <2>1 DEF OnlyMoves, At
  <2>7. LoadsInv'
    BY <1>1, <1>2, <2>4, <2>5, LoadsOn
  <2> QED
    BY <1>1, <1>2, <1>3, <2>6, <2>7, RunsOn
<1> QED
  BY <1>4, <1>5

\* start_load_kv writes the KV that matched into the blocks of its own request, and into
\* no other's.
LEMMA LoadKV ==
  ASSUME KVInv, NEW op \in meta.loads, StartLoad(op)
  PROVE  LoadsInv' /\ RightInv' /\ RunsOnItsOwnKV'
<1>1. /\ ReqInv /\ PlansInv /\ PhaseInv /\ StoreInv /\ OwnInv
      /\ LoadsInv /\ RightInv /\ RunsOnItsOwnKV
  BY DEF KVInv, TypeInv
<1>2. UNCHANGED <<table, store, req, pendingLoads, pendingSaves>> /\ phase = "load"
  BY DEF StartLoad, engine, pending
<1>3. RightInv'
  <2>1. CASE UNCHANGED meta
    BY <1>1, <1>2, <2>1, RightOn
  <2>2. CASE meta' = [meta EXCEPT !.loads = @ \ {op}]
    <3>1. meta' = [loads |-> meta.loads \ {op}, saves |-> meta.saves]
      BY <1>1, <2>2 DEF PhaseInv
    <3>2. meta'.saves = meta.saves
      BY <3>1
    <3> QED
      BY <1>1, <1>2, <3>2, RightOn
  <2> QED
    BY <2>1, <2>2 DEF StartLoad
<1>4. CASE UNCHANGED <<buffer, meta>>
  BY <1>1, <1>2, <1>3, <1>4, LoadsOn, RunsOn DEF At
<1>5. CASE ~UNCHANGED <<buffer, meta>>
  <2>1. PICK r \in At("scheduled") : CacheOf[r] \in CacheId /\ op = LoadOp(r, req[r].blocks)
    BY <1>1 DEF PlansInv, LoadPlan
  <2>2. /\ op.cache = CacheOf[r] /\ op.blocks = req[r].blocks /\ op.chunks = NumChunks(req[r].external)
        /\ op.request = r
    BY <2>1 DEF LoadOp
  <2>20. PICK q \in Prompts : AtHead(q, CacheOf[r]) /\ req[r].external = Matched(PromptOf[r], q)
    <3>1. Planned(r)
      BY <2>1 DEF Planned
    <3> QED
      BY <1>1, <2>1, <3>1 DEF LoadsInv, StillMatched
  <2> DEFINE now == table[CacheOf[r]]
             blocks == req[r].blocks
             n == Least(NumChunks(req[r].external), Len(Chunks(now)))
             payloads == [i \in 1 .. n |-> store[<<CacheOf[r], i>>]]
  <2>3. /\ Exists(CacheOf[r]) /\ \A i \in 1 .. n : store[<<CacheOf[r], i>>] # None
        /\ buffer' = LoadInto(buffer, blocks, payloads)
        /\ meta' = [meta EXCEPT !.loads = @ \ {op}]
    BY <1>5, <2>2 DEF StartLoad
  <2>4. r \in Request /\ blocks \in Seq(Block) /\ Len(blocks) = Len(PromptOf[r]) /\ Injective(blocks) /\ blocks # <<>>
    <3>1. r \in Request /\ Placed(r) /\ req[r].at = "scheduled"
      BY <1>1 DEF At, ReqInv
    <3>2. Len(PromptOf[r]) \in Nat \ {0}
      BY <3>1, RequestPrompt
    <3> QED
      BY <3>1, <3>2 DEF Placed, Position
  <2>5. /\ now \in Prompts /\ Leads(q, now)
        /\ now \in Seq(Content) \ {<<>>} /\ q \in Seq(Content) \ {<<>>} /\ PromptOf[r] \in Seq(Content) \ {<<>>}
    <3>1. now \in Prompts
      BY <1>1, <2>1, <2>3, RegisteredPrompt
    <3>2. Leads(q, now)
      BY <2>3, <2>20 DEF AtHead
    <3> QED
      BY <2>4, <3>1, <3>2, AnyPrompt, RequestPrompt
  <2>6. req[r].external = Matched(PromptOf[r], q)
    BY <2>20
  <2>7. /\ n = NumChunks(Matched(PromptOf[r], q)) /\ n \in Nat /\ n <= NumChunks(Len(blocks))
        /\ 1 .. n \subseteq 1 .. NumChunks(Len(q))
    <3>1. /\ NumChunks(Matched(PromptOf[r], q)) \in 0 .. NumChunks(Len(PromptOf[r]))
          /\ NumChunks(Matched(PromptOf[r], q)) <= NumChunks(Len(q))
      BY <2>5, MatchedFacts
    <3>2. /\ Len(Chunks(now)) = NumChunks(Len(now)) /\ NumChunks(Len(now)) \in Nat
          /\ NumChunks(Len(q)) \in Nat \ {0} /\ NumChunks(Len(PromptOf[r])) \in Nat
      BY <2>4, <2>5, ChunkIndices, RequestsArePrompts
    <3>3. NumChunks(Len(q)) <= NumChunks(Len(now))
      <4>1. NumChunks(Len(q)) \in 1 .. NumChunks(Len(q))
        BY <3>2
      <4>2. NumChunks(Len(q)) \in 1 .. NumChunks(Len(now))
        BY <2>5, <4>1, LeadChunks
      <4> QED
        BY <3>2, <4>2
    <3>4. n = Least(NumChunks(Matched(PromptOf[r], q)), NumChunks(Len(now)))
      BY <2>6, <3>2
    <3> HIDE DEF n, now, blocks
    <3> QED
      BY <2>4, <3>1, <3>2, <3>3, <3>4 DEF Least
  <2>8. DOMAIN payloads = 1 .. n
    OBVIOUS
  <2>9. ASSUME NEW i \in 1 .. n PROVE payloads[i] = ChunkKV(q, i)
    <3>1. i \in 1 .. NumChunks(Len(q)) /\ i \in 1 .. NumChunks(Len(now)) /\ ChunkKV(q, i) = ChunkKV(now, i)
      BY <2>5, <2>7, LeadPayloads
    <3>2. store[<<CacheOf[r], i>>] # None /\ i \in DOMAIN Chunks(now) /\ now # None
      BY <2>3, <2>5, <3>1, ChunkIndices DEF Exists
    <3>3. \A o \in meta.saves : ~(i <= o.done)
      <4>1. \A o \in meta.saves : o.done = 0
        BY <1>1, <1>2 DEF PhaseInv
      <4>2. i \in Nat \ {0}
        BY <2>7
      <4> QED
        BY <4>1, <4>2
    <3>4. store[<<CacheOf[r], i>>] \in {None, ChunkKV(now, i)}
      BY <1>1, <2>1, <3>2, <3>3 DEF RightInv, SavedIsRight
    <3> QED
      BY <3>1, <3>2, <3>4
  <2>10. DOMAIN buffer = Block
    BY <1>1 DEF StoreInv
  <2> HIDE DEF n, payloads
  <2>11. Right(r, req[r].external)'
    <3>1. q \in Seq(Content) \ {<<>>} /\ PromptOf[r] \in Seq(Content) \ {<<>>}
      BY <2>5
    <3> HIDE DEF now, blocks
    <3>2. \A j \in 1 .. Matched(PromptOf[r], q) :
             LoadInto(buffer, blocks, payloads)[blocks[j]] = KV(PromptOf[r], j)
      <4>1. Len(blocks) = Len(PromptOf[r]) /\ Injective(blocks) /\ DOMAIN buffer = Block
            /\ blocks \in Seq(Block)
        BY <2>4, <2>10
      <4>2. HoldChunks(payloads, q, NumChunks(Matched(PromptOf[r], q)))
        BY <2>7, <2>8, <2>9 DEF HoldChunks
      <4>3. HoldsFirst(LoadInto(buffer, blocks, payloads), blocks, PromptOf[r], Matched(PromptOf[r], q))
        BY <3>1, <4>1, <4>2, LoadIsRight
      <4> QED
        BY <4>3 DEF HoldsFirst
    <3>3. \A j \in 1 .. req[r].external : buffer'[blocks[j]] = KV(PromptOf[r], j)
      BY <2>3, <2>6, <3>2
    <3> QED
      BY <1>2, <3>3 DEF Right, blocks
  <2>12. ASSUME NEW t \in Request \ {r}, NEW j \in DOMAIN req[t].blocks
         PROVE  buffer'[req[t].blocks[j]] = buffer[req[t].blocks[j]]
    <3>1. PICK b \in Block : b = req[t].blocks[j]
      BY <1>1 DEF ReqInv, Placed, Position
    <3>2. \A i \in 1 .. Len(blocks) : blocks[i] # b
      BY <1>1, <2>4, <2>12, <3>1 DEF OwnInv, Own
    <3> HIDE DEF blocks
    <3>3. LoadInto(buffer, blocks, payloads)[b] = buffer[b]
      BY <2>4, <2>7, <2>8, <2>10, <3>2, Loads
    <3> QED
      BY <2>3, <3>1, <3>3
  <2>13. ASSUME NEW t \in Request \ {r}, NEW m \in Nat, m <= Len(req[t].blocks), Right(t, m)
         PROVE  Right(t, m)'
    <3>1. 1 .. m \subseteq DOMAIN req[t].blocks
      BY <1>1, <2>13 DEF ReqInv, Placed, Position
    <3> QED
      BY <1>2, <2>12, <2>13, <3>1 DEF Right
  <2>14. RunsOnItsOwnKV'
    <3> SUFFICES ASSUME NEW t \in At("running") PROVE Right(t, Len(PromptOf[t]))'
      BY <1>2 DEF RunsOnItsOwnKV, At
    <3>1. t \in Request \ {r} /\ Len(req[t].blocks) = Len(PromptOf[t])
      BY <1>1, <2>1 DEF At, ReqInv, Placed
    <3>2. Len(PromptOf[t]) \in Nat /\ Right(t, Len(PromptOf[t]))
      BY <1>1, <3>1, RequestPrompt DEF RunsOnItsOwnKV
    <3>3. Len(PromptOf[t]) <= Len(req[t].blocks)
      BY <3>1, <3>2
    <3> QED
      BY <3>1, <3>2, <3>3, <2>13
  <2>15. /\ pendingLoads = {} /\ pendingLoads' = {} /\ At("matched")' = {}
    BY <1>1, <1>2 DEF PhaseInv, InScheduler, At
  <2>16. meta'.loads = meta.loads \ {op}
    <3>1. meta = [loads |-> meta.loads, saves |-> meta.saves]
      BY <1>1 DEF PhaseInv
    <3>2. meta' = [loads |-> meta.loads \ {op}, saves |-> meta.saves]
      BY <2>3, <3>1
    <3> QED
      BY <3>2
  <2>17. ASSUME NEW t \in At("scheduled")
         PROVE  IF Planned(t)' THEN StillMatched(t)' ELSE Right(t, req[t].external)'
    <3>1. t \in Request /\ LoadOp(t, req[t].blocks)' = LoadOp(t, req[t].blocks)
      BY <1>2 DEF At, LoadOp
    <3>2. CASE t = r
      <4>1. ~Planned(t)'
        BY <2>1, <2>15, <2>16, <3>1, <3>2 DEF Planned
      <4> QED
        BY <2>11, <3>2, <4>1
    <3>3. CASE t # r
      <4>1. LoadOp(t, req[t].blocks) # op
        BY <2>2, <3>3 DEF LoadOp
      <4>2. Planned(t)' <=> Planned(t)
        BY <2>15, <2>16, <3>1, <4>1 DEF Planned
      <4>3. StillMatched(t) => StillMatched(t)'
        BY <1>2 DEF StillMatched, AtHead, Exists
      <4>4. req[t].external \in Nat /\ req[t].external <= Len(req[t].blocks)
        <5>1. Placed(t) /\ req[t].at = "scheduled"
          BY <1>1, <3>1 DEF At, ReqInv
        <5>2. /\ req[t].external \in Nat /\ req[t].computed \in Nat
              /\ req[t].computed + req[t].external <= Len(PromptOf[t])
              /\ Len(req[t].blocks) = Len(PromptOf[t]) /\ Len(PromptOf[t]) \in Nat
          BY <3>1, <5>1, RequestPrompt DEF Placed, Position
        <5> QED
          BY <5>2
      <4>5. Right(t, req[t].external) => Right(t, req[t].external)'
        <5>1. PICK m \in Nat : m = req[t].external
          BY <4>4
        <5>2. Right(t, m) => Right(t, m)'
          BY <2>13, <3>1, <3>3, <4>4, <5>1
        <5>3. req'[t].external = m
          BY <1>2, <5>1
        <5> QED
          BY <5>1, <5>2, <5>3
      <4> QED
        BY <1>1, <4>2, <4>3, <4>5 DEF LoadsInv
    <3> QED
      BY <3>2, <3>3
  <2>18. At("scheduled")' = At("scheduled")
    BY <1>2 DEF At
  <2>19. LoadsInv'
    BY <2>15, <2>17, <2>18 DEF LoadsInv
  <2> QED
    BY <1>3, <2>14, <2>19
<1> QED
  BY <1>4, <1>5

\* A prompt whose blocks are all different has no more of them than there are.
LEMMA BlocksSuffice ==
  ASSUME NEW blocks \in Seq(Block), Injective(blocks)
  PROVE  Len(blocks) \in Nat /\ Len(blocks) <= Cardinality(Block) /\ Cardinality(Block) \in Nat
<1>1. Len(blocks) \in Nat /\ DOMAIN blocks = 1 .. Len(blocks) /\ blocks \in [1 .. Len(blocks) -> Block]
  OBVIOUS
<1>2. blocks \in Injection(1 .. Len(blocks), Block)
  BY <1>1 DEF Injective, Injection, IsInjective
<1>3. Cardinality(1 .. Len(blocks)) <= Cardinality(Block)
  BY <1>2, BlocksAreFinite, FS_Injection
<1>4. Cardinality(1 .. Len(blocks)) = Len(blocks)
  <2>1. Cardinality(1 .. Len(blocks)) = IF 1 > Len(blocks) THEN 0 ELSE Len(blocks) - 1 + 1
    BY <1>1, FS_Interval
  <2> QED
    BY <1>1, <2>1
<1>5. Cardinality(Block) \in Nat
  BY BlocksAreFinite, FS_CardinalityType
<1> QED
  BY <1>1, <1>3, <1>4, <1>5

\* The model computes the blocks that were not loaded, and only those: each is of one
\* request, and its request runs on the KV of its own prompt.
LEMMA ForwardKV ==
  ASSUME KVInv, Forward
  PROVE  LoadsInv' /\ RightInv' /\ RunsOnItsOwnKV'
<1>1. /\ ReqInv /\ PlansInv /\ PhaseInv /\ StoreInv /\ OwnInv
      /\ LoadsInv /\ RightInv /\ RunsOnItsOwnKV
  BY DEF KVInv, TypeInv
<1>2. phase = "load" /\ meta.loads = {} /\ pendingLoads = {}
  BY <1>1 DEF Forward, PhaseInv
<1>3. UNCHANGED <<table, store, meta>>
  BY ForwardWrites DEF Forward
<1>4. RightInv'
  BY <1>1, <1>3, RightOn
<1>5. ASSUME NEW r \in Request
      PROVE  /\ req'[r].computed = req[r].computed /\ req'[r].external = req[r].external
             /\ req'[r].blocks = req[r].blocks
             /\ req[r].at = "scheduled" => req'[r].at = "running"
             /\ req[r].at # "scheduled" => req'[r] = req[r]
  BY <1>1, ForwardMoves
<1>6. At("scheduled")' = {} /\ At("matched")' = {}
  <2>1. At("matched") = {}
    BY <1>1, <1>2 DEF PhaseInv, InScheduler
  <2> QED
    BY <1>5, <2>1 DEF At
<1>7. LoadsInv'
  BY <1>6 DEF LoadsInv
<1>8. ASSUME NEW r \in At("scheduled") PROVE r \in Request /\ req[r].computed = 0 /\ Right(r, req[r].external)
  <2>1. ~Planned(r)
    BY <1>2 DEF Planned
  <2> QED
    BY <1>1, <2>1 DEF LoadsInv, OwnInv, At
<1>9. ASSUME NEW r \in Request, NEW j \in DOMAIN req[r].blocks,
             NEW x \in NewBlocks, Computes(x[1], x[2], req[r].blocks[j])
      PROVE  x[1] = r /\ x[2] = j
  <2>1. x[1] \in Request /\ x[2] \in DOMAIN req[x[1]].blocks /\ req[x[1]].blocks[x[2]] = req[r].blocks[j]
    BY <1>9 DEF NewBlocks, Computes, Lists, At
  <2> QED
    BY <1>1, <2>1 DEF OwnInv, Own
<1>10. SUFFICES ASSUME NEW r \in At("running")' PROVE Right(r, Len(PromptOf[r]))'
  BY <1>4, <1>7 DEF RunsOnItsOwnKV
<1>11. r \in Request /\ (r \in At("scheduled") \/ r \in At("running"))
  BY <1>5 DEF At
<1>12. /\ Len(req[r].blocks) = Len(PromptOf[r]) /\ Injective(req[r].blocks) /\ req[r].blocks \in Seq(Block)
       /\ Len(PromptOf[r]) \in Nat /\ req[r].external \in Nat
       /\ DOMAIN req[r].blocks = 1 .. Len(PromptOf[r])
  <2>1. Placed(r) /\ req[r].at \in {"scheduled", "running"}
    BY <1>1, <1>11 DEF ReqInv, At
  <2>2. Len(PromptOf[r]) \in Nat
    BY <1>11, RequestPrompt
  <2>3. req[r].blocks \in Seq(Block) /\ req[r].external \in Nat
    BY <2>1 DEF Placed, Position
  <2> QED
    BY <2>1, <2>2, <2>3 DEF Placed
<1>13. SUFFICES ASSUME NEW j \in 1 .. Len(PromptOf[r])
                PROVE  buffer'[req[r].blocks[j]] = KV(PromptOf[r], j)
  BY <1>5, <1>11 DEF Right
<1>14. PICK b \in Block : b = req[r].blocks[j]
  BY <1>12
<1>15. ASSUME NEW x \in NewBlocks, Computes(x[1], x[2], b)
       PROVE  x[1] = r /\ x[2] = j
  BY <1>9, <1>11, <1>12, <1>14, <1>15
<1>16. \/ \E x \in NewBlocks : Computes(x[1], x[2], b) /\ buffer'[b] = Result(x[1], x[2])
       \/ buffer'[b] = buffer[b] /\ ~\E x \in NewBlocks : Computes(x[1], x[2], b)
  BY ForwardWrites
<1>17. CASE r \in At("running")
  <2>1. r \notin At("scheduled")
    BY <1>17 DEF At
  <2>2. ~\E x \in NewBlocks : Computes(x[1], x[2], b)
    BY <1>15, <2>1 DEF NewBlocks
  <2>3. buffer[b] = KV(PromptOf[r], j)
    BY <1>1, <1>14, <1>17 DEF RunsOnItsOwnKV, Right
  <2> QED
    BY <1>14, <1>16, <2>2, <2>3
<1>18. CASE r \in At("scheduled")
  <2>1. req[r].computed = 0 /\ Right(r, req[r].external) /\ req[r].computed + req[r].external = req[r].external
    BY <1>8, <1>12, <1>18
  <2>2. CASE j <= req[r].external
    <3>1. buffer[b] = KV(PromptOf[r], j)
      <4>1. j \in 1 .. req[r].external
        BY <1>12, <2>2
      <4> QED
        BY <1>14, <2>1, <4>1 DEF Right
    <3>2. ~Computes(r, j, b)
      BY <1>12, <2>1, <2>2 DEF Computes
    <3>3. ~\E x \in NewBlocks : Computes(x[1], x[2], b)
      BY <1>15, <3>2
    <3> QED
      BY <1>14, <1>16, <3>1, <3>3
  <2>3. CASE ~(j <= req[r].external)
    <3>1. j \in 1 .. Cardinality(Block)
      BY <1>12, BlocksSuffice
    <3>2. <<r, j>> \in NewBlocks
      BY <1>18, <3>1 DEF NewBlocks
    <3>3. Computes(r, j, b)
      BY <1>12, <1>14, <2>1, <2>3 DEF Computes, Lists
    <3>4. Result(r, j) = KV(PromptOf[r], j)
      BY <2>1 DEF Result
    <3>5. \E x \in NewBlocks : Computes(x[1], x[2], b)
      <4>1. Computes(<<r, j>>[1], <<r, j>>[2], b)
        BY <3>3
      <4> QED
        BY <3>2, <4>1
    <3>6. buffer'[b] = Result(r, j)
      BY <1>15, <1>16, <3>5
    <3> QED
      BY <1>14, <3>4, <3>6
  <2> QED
    BY <2>2, <2>3
<1> QED
  BY <1>11, <1>17, <1>18

-----------------------------------------------------------------------------
(***************************************************************************)
(* The invariant holds, without a prefix cache of vLLM's own and as long   *)
(* as nobody deletes what vLLM was told has matched.                       *)
(***************************************************************************)

LEMMA InitKV == Init => KVInv
<1> SUFFICES ASSUME Init PROVE KVInv
  OBVIOUS
<1>1. Waiting.at = "waiting" /\ Waiting.blocks = <<>> /\ Waiting.computed = 0
  BY DEF Waiting
<1>2. \A r \in Request : req[r].at = "waiting" /\ req[r].blocks = <<>> /\ req[r].computed = 0
  BY <1>1 DEF Init
<1>3. OwnInv
  <2>1. Own
    <3>1. DOMAIN <<>> = {}
      OBVIOUS
    <3> QED
      BY <1>2, <3>1 DEF Own
  <2> QED
    BY <1>2, <2>1 DEF Init, OwnInv
<1>4. At("matched") = {} /\ At("scheduled") = {} /\ At("running") = {}
  BY <1>2 DEF At
<1>5. LoadsInv /\ RunsOnItsOwnKV
  BY <1>4 DEF LoadsInv, RunsOnItsOwnKV
<1>6. RightInv
  <2>1. meta.saves = {} /\ \A c \in CacheId : table[c] = None /\ \A i \in Index : store[<<c, i>>] = None
    BY DEF Init
  <2> QED
    BY <2>1 DEF RightInv, SharedInv, PutInv, SavedIsRight
<1>7. CallInv
  BY DEF Init, CallInv
<1> QED
  BY <1>3, <1>5, <1>6, <1>7, InitTypes DEF KVInv

\* A request without a cache, or with one that does not exist, counts on no load; one that
\* is done no longer runs.
LEMMA MatchKV ==
  ASSUME KVInv, NEW r \in Request, Match(r) \/ Finish(r)
  PROVE  LoadsInv' /\ RightInv' /\ RunsOnItsOwnKV'
<1>1. ReqInv /\ LoadsInv /\ RightInv /\ RunsOnItsOwnKV
  BY DEF KVInv, TypeInv
<1>2. UNCHANGED <<table, store, buffer, pendingLoads, pendingSaves, meta>>
  BY DEF Match, Finish, engine, pending
<1>3. /\ OnlyMoves(r) /\ req'[r].at \notin {"scheduled", "running"}
      /\ req'[r].at = "matched" => req'[r].external = 0
  <2>1. CASE Match(r)
    <3>1. OnlyMoves(r) /\ req'[r].at \in {"lookup", "matched"} /\ req'[r].external = 0
      BY <1>1, <2>1, MatchMoves
    <3> QED
      BY <3>1
  <2>2. CASE Finish(r)
    <3>1. OnlyMoves(r) /\ req'[r] = Waiting /\ Waiting.at = "waiting"
      BY <1>1, <2>2, FinishMoves DEF Waiting
    <3> QED
      BY <3>1
  <2> QED
    BY <2>1, <2>2
<1>4. ASSUME NEW s \in At("matched")'
      PROVE  (s \in At("matched") /\ req'[s] = req[s]) \/ ~(req'[s].external > 0)
  BY <1>3 DEF OnlyMoves, At
<1>5. ASSUME NEW s \in At("scheduled")' PROVE s \in At("scheduled") /\ req'[s] = req[s]
  BY <1>3 DEF OnlyMoves, At
<1>6. ASSUME NEW s \in At("running")' PROVE s \in At("running") /\ req'[s].blocks = req[s].blocks
  BY <1>3 DEF OnlyMoves, At
<1>7. LoadsInv'
  BY <1>1, <1>2, <1>4, <1>5, LoadsOn
<1> QED
  BY <1>1, <1>2, <1>6, <1>7, RunsOn, RightOn

\* Shipping the plans, and the end of a step.
LEMMA QuietKV ==
  ASSUME KVInv, BuildMeta \/ EndStep \/ UNCHANGED vars
  PROVE  LoadsInv' /\ RightInv' /\ RunsOnItsOwnKV'
<1>1. PlansInv /\ PhaseInv /\ LoadsInv /\ RightInv /\ RunsOnItsOwnKV
  BY DEF KVInv, TypeInv
<1>2. UNCHANGED <<table, store, buffer, req>>
  BY DEF BuildMeta, EndStep, vars, engine, pending
<1>3. pendingLoads' \union meta'.loads = pendingLoads \union meta.loads
  <2>1. CASE BuildMeta
    <3>1. pendingLoads' = {} /\ meta'.loads = pendingLoads /\ meta.loads = {}
      BY <1>1, <2>1 DEF BuildMeta, PhaseInv
    <3> QED
      BY <3>1
  <2>2. CASE EndStep \/ UNCHANGED vars
    BY <2>2 DEF EndStep, vars, pending
  <2> QED
    BY <2>1, <2>2
<1>4. LoadsInv'
  BY <1>1, <1>2, <1>3, LoadsOn DEF At
<1>5. RightInv'
  <2>1. CASE BuildMeta
    <3>1. meta.saves = {} /\ meta'.saves = pendingSaves /\ \A o \in meta'.saves : o.done = 0
      BY <1>1, <2>1 DEF BuildMeta, PhaseInv, PlansInv
    <3>2. \A o \in meta'.saves : 1 .. o.done = {}
      BY <3>1
    <3>3. PutInv'
      BY <3>1, <3>2 DEF PutInv
    <3>4. SharedInv'
      BY <1>1, <1>2 DEF RightInv, SharedInv
    <3>5. SavedIsRight'
      <4> SUFFICES ASSUME NEW c \in CacheId, table[c] # None, NEW i \in DOMAIN Chunks(table[c])
                   PROVE  store[<<c, i>>] \in {None, ChunkKV(table[c], i)}
        BY <1>2 DEF SavedIsRight
      <4> QED
        BY <1>1, <3>1 DEF RightInv, SavedIsRight
    <3> QED
      BY <3>3, <3>4, <3>5 DEF RightInv
  <2>2. CASE EndStep \/ UNCHANGED vars
    <3>1. meta' = meta
      BY <2>2 DEF EndStep, vars
    <3> QED
      BY <1>1, <1>2, <3>1, RightOn
  <2> QED
    BY <2>1, <2>2
<1> QED
  BY <1>1, <1>2, <1>4, <1>5, RunsOn DEF At

LEMMA NextKV == Apart /\ Steady /\ KVInv /\ [Next]_vars => KVInv'
<1> SUFFICES ASSUME Apart, Steady, KVInv, [Next]_vars PROVE KVInv'
  OBVIOUS
<1>1. TypeInv /\ CallInv /\ OwnInv
  BY DEF KVInv
<1>2. TypeInv' /\ CallInv' /\ OwnInv'
  BY <1>1, NextTypes, NextCalls, NextOwn DEF Apart
<1> SUFFICES LoadsInv' /\ RightInv' /\ RunsOnItsOwnKV'
  BY <1>2 DEF KVInv
<1>3. ASSUME NEW r \in Request, Match(r) \/ Finish(r) PROVE LoadsInv' /\ RightInv' /\ RunsOnItsOwnKV'
  BY <1>3, MatchKV
<1>4. ASSUME NEW r \in Request, Lookup(r) PROVE LoadsInv' /\ RightInv' /\ RunsOnItsOwnKV'
  BY <1>4, LookupKV
<1>5. ASSUME NEW r \in Request, Alloc(r) PROVE LoadsInv' /\ RightInv' /\ RunsOnItsOwnKV'
  BY <1>5, AllocKV
<1>6. CASE BuildMeta \/ EndStep \/ UNCHANGED vars
  BY <1>6, QuietKV
<1>7. ASSUME NEW op \in meta.loads, StartLoad(op) PROVE LoadsInv' /\ RightInv' /\ RunsOnItsOwnKV'
  BY <1>7, LoadKV
<1>8. CASE Forward
  BY <1>8, ForwardKV
<1>9. ASSUME NEW op \in meta.saves, PutChunk(op) PROVE LoadsInv' /\ RightInv' /\ RunsOnItsOwnKV'
  BY <1>9, PutKV
<1>10. ASSUME NEW op \in meta.saves, Commit(op) PROVE LoadsInv' /\ RightInv' /\ RunsOnItsOwnKV'
  BY <1>10, CommitKV
<1>11. ASSUME NEW c \in CacheId, Delete(c) PROVE LoadsInv' /\ RightInv' /\ RunsOnItsOwnKV'
  BY <1>11, DeleteKV
<1>12. ASSUME NEW k \in DOMAIN store, Evict(k) PROVE LoadsInv' /\ RightInv' /\ RunsOnItsOwnKV'
  BY <1>12, EvictKV
<1>13. ASSUME NEW t \in Client, BeginRegister(t) \/ RegisterChunk(t) PROVE LoadsInv' /\ RightInv' /\ RunsOnItsOwnKV'
  BY <1>13, RegisterKV
<1>14. ASSUME NEW t \in Client, CommitRegister(t) PROVE LoadsInv' /\ RightInv' /\ RunsOnItsOwnKV'
  BY <1>14, CommitRegisterKV
<1> QED
  BY <1>3, <1>4, <1>5, <1>6, <1>7, <1>8, <1>9, <1>10, <1>11, <1>12, <1>13, <1>14 DEF Next

\* The blocks of a request that runs hold the KV of its own prompt: those that start_load_kv
\* filled, because what get_num_new_matched_tokens counted is still at the head of what is
\* registered when it is loaded, whatever clients have put or committed since, and the rest
\* because the model computes them from the first ones; no load of another request writes
\* into them.  Without a prefix cache of vLLM's own, with no delete of a cache that has been
\* matched and not allocated for yet, and with one prompt per id that clients register.
THEOREM RunsRight ==
  ASSUME Apart, Steady
  PROVE  Spec => []RunsOnItsOwnKV
<1>1. KVInv => RunsOnItsOwnKV
  BY DEF KVInv
<1>2. KVInv /\ [Next]_vars => KVInv'
  BY NextKV
<1> QED
  BY <1>1, <1>2, InitKV, PTL DEF Spec

\* Every chunk under a published id is, if it is there, the KV of the prompt published or of
\* the one that wait_for_save is putting in its place: whatever that prompt's blocks were
\* loaded from, with a put refused half way or a commit that fails, and when the id is saved
\* under again with a longer, shorter or different prompt.  Under the same hypotheses: under
\* an id that clients register too, all that is saved or registered leads one prompt.
THEOREM SavedRight ==
  ASSUME Apart, Steady
  PROVE  Spec => []SavedIsRight
<1>1. KVInv => SavedIsRight
  BY DEF KVInv, RightInv
<1>2. KVInv /\ [Next]_vars => KVInv'
  BY NextKV
<1> QED
  BY <1>1, <1>2, InitKV, PTL DEF Spec
=============================================================================
