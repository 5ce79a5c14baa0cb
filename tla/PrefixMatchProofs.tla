------------------------- MODULE PrefixMatchProofs -------------------------
(***************************************************************************)
(* Proofs about PrefixMatch, for every set of tokens, every width of their *)
(* encoding, and prompts and chunks of every length.                       *)
(***************************************************************************)
EXTENDS PrefixMatch, FiniteSetTheorems, SequenceTheorems, TLAPS

-----------------------------------------------------------------------------
(***************************************************************************)
(* Numbers.                                                                *)
(***************************************************************************)

\* Induction for a set, which needs no operator as a parameter.
LEMMA Induction ==
  ASSUME NEW T, 0 \in T, \A i \in Nat : i \in T => i + 1 \in T
  PROVE  Nat \subseteq T
<1> SUFFICES ASSUME NEW n \in Nat, n \notin T PROVE FALSE
  OBVIOUS
<1> DEFINE R == StrictSubsetOrdering(Nat)
           U == Nat \ T
           V == {1 .. u : u \in U}
<1>1. n \in U
  OBVIOUS
<1>2. ASSUME NEW u \in U PROVE 1 .. u \in FiniteSubsetsOf(Nat)
  <2>1. 1 \in Int /\ u \in Int /\ 1 .. u \in SUBSET Nat
    OBVIOUS
  <2> HIDE DEF U
  <2> QED
    BY <2>1, FS_Interval DEF FiniteSubsetsOf
<1> HIDE DEF U
<1>3. V \subseteq FiniteSubsetsOf(Nat) /\ V # {}
  BY <1>1, <1>2
<1>4. \E x \in V : \A y \in V : <<y, x>> \notin R
  <2> HIDE DEF V
  <2>1. IsWellFoundedOn(R, FiniteSubsetsOf(Nat))
    BY FS_StrictSubsetOrderingWellFounded
  <2> HIDE DEF R
  <2> QED
    BY <1>3, <2>1, WFMin
<1>5. PICK u \in U : \A v \in U : <<1 .. v, 1 .. u>> \notin R
  <2> HIDE DEF R
  <2> QED
    BY <1>4
<1>6. u \in Nat \ {0} /\ u - 1 \in Nat /\ u - 1 + 1 = u /\ u \notin T
  BY DEF U
<1>7. u - 1 \in U
  BY <1>6 DEF U
<1>8. /\ 1 .. u - 1 \subseteq 1 .. u /\ 1 .. u - 1 # 1 .. u
      /\ 1 .. u - 1 \in SUBSET Nat /\ 1 .. u \in SUBSET Nat
  <2>1. u \in 1 .. u /\ u \notin 1 .. u - 1
    BY <1>6
  <2> QED
    BY <1>6, <2>1
<1>9. <<1 .. u - 1, 1 .. u>> \in R
  BY <1>8 DEF StrictSubsetOrdering
<1> HIDE DEF R
<1> QED
  BY <1>5, <1>7, <1>9

\* A set of numbers that has with each one all smaller ones.
LEMMA InitialNumbers ==
  ASSUME NEW n \in Nat, NEW S, S \subseteq 1 .. n, \A i \in S : 1 .. i \subseteq S
  PROVE  \E m \in 0 .. n : S = 1 .. m /\ Cardinality(S) = m
<1> DEFINE T == {k \in Nat : k <= n => \/ 1 .. k \subseteq S
                                       \/ \E m \in 0 .. n : S = 1 .. m}
<1>1. 0 \in T
  OBVIOUS
<1>2. ASSUME NEW i \in Nat, i \in T PROVE i + 1 \in T
  <2> SUFFICES ASSUME i + 1 <= n, ~\E m \in 0 .. n : S = 1 .. m
               PROVE  1 .. i + 1 \subseteq S
    OBVIOUS
  <2>1. i <= n /\ i \in 0 .. n /\ 1 .. i \subseteq S
    BY <1>2
  <2>2. S # 1 .. i
    BY <2>1
  <2>3. PICK j \in S : j \notin 1 .. i
    BY <2>1, <2>2
  <2>4. j \in 1 .. n /\ j > i /\ 1 .. j \subseteq S
    BY <2>3
  <2> QED
    BY <2>4
<1>3. Nat \subseteq T
  <2> HIDE DEF T
  <2> QED
    BY <1>1, <1>2, Induction
<1>4. PICK m \in 0 .. n : S = 1 .. m
  <2>1. n \in T
    BY <1>3
  <2>2. 1 .. n \subseteq S \/ \E m \in 0 .. n : S = 1 .. m
    BY <2>1
  <2>3. 1 .. n \subseteq S => S = 1 .. n
    OBVIOUS
  <2> QED
    BY <2>2, <2>3
<1>5. Cardinality(1 .. m) = m
  <2>1. Cardinality(1 .. m) = IF 1 > m THEN 0 ELSE m - 1 + 1
    BY FS_Interval
  <2> QED
    BY <2>1
<1> QED
  BY <1>4, <1>5

\* The powers of two count the subsets of 1 .. n.
LEMMA Powers ==
  ASSUME NEW n \in Nat
  PROVE  2 ^ n \in Nat \ {0} /\ 2 ^ (n + 1) = 2 * 2 ^ n
<1> DEFINE A == SUBSET (1 .. n)
           B == SUBSET (1 .. n + 1)
           With(s) == s \union {n + 1}
           E == {With(s) : s \in A}
<1>1. /\ IsFiniteSet(1 .. n) /\ Cardinality(1 .. n) = n
      /\ IsFiniteSet(1 .. n + 1) /\ Cardinality(1 .. n + 1) = n + 1
  <2>1. /\ IsFiniteSet(1 .. n) /\ Cardinality(1 .. n) = IF 1 > n THEN 0 ELSE n - 1 + 1
    BY FS_Interval
  <2>2. /\ IsFiniteSet(1 .. n + 1) /\ Cardinality(1 .. n + 1) = IF 1 > n + 1 THEN 0 ELSE (n + 1) - 1 + 1
    BY FS_Interval
  <2> QED
    BY <2>1, <2>2
<1>2. IsFiniteSet(A) /\ Cardinality(A) = 2 ^ n /\ Cardinality(B) = 2 ^ (n + 1)
  BY <1>1, FS_SUBSET
<1>3. n + 1 \notin 1 .. n /\ n + 1 \in 1 .. n + 1 /\ (1 .. n + 1) \ {n + 1} = 1 .. n
  OBVIOUS
<1>4. B = A \union E /\ A \intersect E = {}
  <2>1. ASSUME NEW s \in B PROVE s \in A \union E
    <3>1. CASE n + 1 \in s
      <4>1. s \ {n + 1} \in A /\ With(s \ {n + 1}) = s
        BY <1>3, <3>1
      <4> HIDE DEF A
      <4> QED
        BY <4>1
    <3>2. CASE n + 1 \notin s
      BY <1>3, <3>2
    <3> QED
      BY <3>1, <3>2
  <2>2. \A s \in A : s \in B /\ With(s) \in B /\ n + 1 \in With(s) /\ n + 1 \notin s
    BY <1>3
  <2> HIDE DEF A, B, With
  <2> QED
    BY <2>1, <2>2
<1>5. IsFiniteSet(E) /\ Cardinality(E) = Cardinality(A)
  <2> DEFINE f == [s \in A |-> With(s)]
  <2>1. \A s, t \in A : With(s) = With(t) => s = t
    BY <1>3
  <2> HIDE DEF A, With
  <2>2. f \in Bijection(A, E)
    BY <2>1 DEF Bijection, Injection, Surjection, IsInjective
  <2>3. ExistsBijection(A, E)
    BY <2>2 DEF ExistsBijection
  <2> QED
    BY <1>2, <2>3, FS_Bijection
<1>6. Cardinality(B) = Cardinality(A) + Cardinality(A)
  <2> HIDE DEF A, B, E
  <2>1. Cardinality(A \union E) = Cardinality(A) + Cardinality(E) - Cardinality(A \intersect E)
    BY <1>2, <1>5, FS_Union
  <2>2. Cardinality(A) \in Nat
    BY <1>2, FS_CardinalityType
  <2>3. Cardinality(A \intersect E) = 0
    BY <1>4, FS_EmptySet
  <2>4. Cardinality(B) = Cardinality(A) + Cardinality(E) - 0
    BY <1>4, <2>1, <2>3
  <2> QED
    BY <1>5, <2>2, <2>4
<1>7. Cardinality(A) \in Nat \ {0}
  <2>1. {} \in A
    OBVIOUS
  <2> HIDE DEF A
  <2> QED
    BY <1>2, <2>1, FS_CardinalityType, FS_EmptySet
<1> HIDE DEF A, B
<1> QED
  BY <1>2, <1>6, <1>7

LEMMA Division ==
  ASSUME NEW t \in Int, NEW d \in Nat \ {0}
  PROVE  /\ t \div d \in Int /\ t % d \in 0 .. d - 1
         /\ t = (t \div d) * d + (t % d)
OBVIOUS

\* Quotient and remainder are known by the number they make.
LEMMA OneDivision ==
  ASSUME NEW d \in Nat \ {0}, NEW p \in Int, NEW q \in Int, NEW r \in 0 .. d - 1, NEW s \in 0 .. d - 1,
         p * d + r = q * d + s
  PROVE  p = q /\ r = s
<1>1. ~(p < q)
  <2> SUFFICES ASSUME p < q PROVE FALSE
    OBVIOUS
  <2>1. PICK k \in Nat : q = p + 1 + k
    <3>1. q - p - 1 \in Nat /\ q = p + 1 + (q - p - 1)
      OBVIOUS
    <3> QED
      BY <3>1
  <2>2. q * d = p * d + d + k * d /\ k * d \in Nat /\ p * d \in Int
    BY <2>1
  <2> QED
    BY <2>2
<1>2. ~(q < p)
  <2> SUFFICES ASSUME q < p PROVE FALSE
    OBVIOUS
  <2>1. PICK k \in Nat : p = q + 1 + k
    <3>1. p - q - 1 \in Nat /\ p = q + 1 + (p - q - 1)
      OBVIOUS
    <3> QED
      BY <3>1
  <2>2. p * d = q * d + d + k * d /\ k * d \in Nat /\ q * d \in Int
    BY <2>1
  <2> QED
    BY <2>2
<1>3. p = q
  BY <1>1, <1>2
<1> QED
  BY <1>3

LEMMA Divided ==
  ASSUME NEW d \in Nat \ {0}, NEW q \in Int, NEW r \in 0 .. d - 1
  PROVE  (q * d + r) \div d = q /\ (q * d + r) % d = r
<1>1. PICK t \in Int : t = q * d + r
  OBVIOUS
<1>2. /\ t \div d \in Int /\ t % d \in 0 .. d - 1 /\ t = (t \div d) * d + (t % d)
  BY Division
<1>3. PICK p \in Int, s \in 0 .. d - 1 : p = t \div d /\ s = t % d
  BY <1>2
<1>4. p * d + s = q * d + r
  BY <1>1, <1>2, <1>3
<1>5. p = q /\ s = r
  BY <1>4, OneDivision
<1> QED
  BY <1>1, <1>3, <1>5

\* One more digit.
LEMMA MoreDigits ==
  ASSUME NEW a \in Int, NEW P \in Nat \ {0}
  PROVE  a % (2 * P) = ((a \div P) % 2) * P + (a % P)
<1>1. PICK q \in Int, r \in 0 .. P - 1 : q = a \div P /\ r = a % P /\ a = q * P + r
  BY Division
<1>2. PICK h \in Int, e \in 0 .. 1 : h = q \div 2 /\ e = q % 2 /\ q = h * 2 + e
  BY Division
<1>3. PICK D \in Nat \ {0}, m \in 0 .. 2 * P - 1 : D = 2 * P /\ m = e * P + r
  <2>1. e = 0 \/ e = 1
    OBVIOUS
  <2>2. e * P + r \in 0 .. 2 * P - 1 /\ 2 * P \in Nat \ {0}
    BY <2>1
  <2> QED
    BY <2>2
<1>4. a = h * D + m
  <2>1. \A u, v, w \in Int : (u * 2 + v) * w = u * (2 * w) + v * w /\ u * (2 * w) \in Int /\ v * w \in Int
    OBVIOUS
  <2>2. (h * 2 + e) * P = h * (2 * P) + e * P /\ h * (2 * P) \in Int /\ e * P \in Int
    BY <2>1
  <2>3. q * P = h * (2 * P) + e * P
    BY <1>2, <2>2
  <2>4. a = (h * (2 * P) + e * P) + r
    BY <1>1, <2>3
  <2> QED
    BY <1>3, <2>2, <2>4
<1>5. a % D = m
  BY <1>3, <1>4, Divided
<1> QED
  BY <1>1, <1>2, <1>3, <1>5

-----------------------------------------------------------------------------
(***************************************************************************)
(* Fingerprints: the encoding of a token tells it from any other in range, *)
(* and the digits of a chunk tell its tokens and how many they are.        *)
(***************************************************************************)
LEMMA DigitsTell ==
  ASSUME NEW t \in Int, NEW u \in Int, \A b \in 0 .. Width - 1 : Digit(t, b) = Digit(u, b)
  PROVE  t % 2 ^ Width = u % 2 ^ Width
<1> DEFINE a == t % 2 ^ Width
           c == u % 2 ^ Width
           T == {n \in Nat : n <= Width => a % 2 ^ n = c % 2 ^ n}
<1>1. Width \in Nat /\ 2 ^ Width \in Nat \ {0}
  BY WidthAssumption, Powers
<1>2. a \in 0 .. 2 ^ Width - 1 /\ c \in 0 .. 2 ^ Width - 1 /\ a \in Int /\ c \in Int
  BY <1>1, Division
<1>3. \A b \in 0 .. Width - 1 : (a \div 2 ^ b) % 2 = (c \div 2 ^ b) % 2
  BY DEF Digit
<1> HIDE DEF a, c
<1>4. 0 \in T
  <2>1. a % 1 \in 0 .. 1 - 1 /\ c % 1 \in 0 .. 1 - 1
    BY <1>2, Division
  <2>2. 2 ^ 0 = 1
    OBVIOUS
  <2> QED
    BY <2>1, <2>2
<1>5. ASSUME NEW i \in Nat, i \in T PROVE i + 1 \in T
  <2> SUFFICES ASSUME i + 1 <= Width PROVE a % 2 ^ (i + 1) = c % 2 ^ (i + 1)
    OBVIOUS
  <2>1. i \in 0 .. Width - 1 /\ a % 2 ^ i = c % 2 ^ i
    BY <1>1, <1>5
  <2>2. 2 ^ i \in Nat \ {0} /\ 2 ^ (i + 1) = 2 * 2 ^ i
    BY Powers
  <2>3. PICK P \in Nat \ {0} : P = 2 ^ i /\ 2 ^ (i + 1) = 2 * P
    BY <2>2
  <2>4. /\ a % (2 * P) = ((a \div P) % 2) * P + (a % P)
        /\ c % (2 * P) = ((c \div P) % 2) * P + (c % P)
    BY <1>2, MoreDigits
  <2>5. (a \div P) % 2 = (c \div P) % 2 /\ a % P = c % P
    BY <1>3, <2>1, <2>3
  <2> QED
    BY <2>3, <2>4, <2>5
<1>6. Nat \subseteq T
  <2> HIDE DEF T
  <2> QED
    BY <1>4, <1>5, Induction
<1>7. a % 2 ^ Width = c % 2 ^ Width
  <2>1. Width \in T
    BY <1>1, <1>6
  <2> QED
    BY <1>1, <2>1
<1>8. PICK D \in Nat \ {0} : D = 2 ^ Width
  BY <1>1
<1>9. (0 * D + a) % D = a /\ (0 * D + c) % D = c
  BY <1>2, <1>8, Divided
<1>10. a % D = a /\ c % D = c
  BY <1>2, <1>9
<1> QED
  BY <1>7, <1>8, <1>10 DEF a, c

LEMMA EncodingTells ==
  ASSUME NEW t \in Int, NEW u \in Int, Encodable(t), Encodable(u), t % 2 ^ Width = u % 2 ^ Width
  PROVE  t = u
<1>1. Width - 1 \in Nat /\ Width - 1 + 1 = Width
  BY WidthAssumption
<1>2. 2 ^ (Width - 1) \in Nat \ {0} /\ 2 ^ Width = 2 * 2 ^ (Width - 1)
  <2>1. 2 ^ (Width - 1) \in Nat \ {0} /\ 2 ^ (Width - 1 + 1) = 2 * 2 ^ (Width - 1)
    BY <1>1, Powers
  <2> QED
    BY <1>1, <2>1
<1>3. PICK H \in Nat \ {0} : H = 2 ^ (Width - 1)
  BY <1>2
<1>4. PICK D \in Nat \ {0} : D = 2 ^ Width /\ D = 2 * H
  BY <1>2, <1>3
<1>5. t + H \in 0 .. D - 1 /\ u + H \in 0 .. D - 1
  BY <1>3, <1>4 DEF Encodable
<1>6. PICK q \in Int, p \in Int, r \in Int : t = q * D + r /\ u = p * D + r
  <2>1. /\ t \div D \in Int /\ u \div D \in Int /\ t % D \in Int
        /\ t = (t \div D) * D + (t % D) /\ u = (u \div D) * D + (u % D)
    BY Division
  <2>2. t % D = u % D
    BY <1>4
  <2> QED
    BY <2>1, <2>2
<1>7. (q - p) * D + (u + H) = 0 * D + (t + H) /\ q - p \in Int
  <2>1. (q - p) * D = q * D - p * D /\ q * D \in Int /\ p * D \in Int
    OBVIOUS
  <2> QED
    BY <1>6, <2>1
<1>8. u + H = t + H
  BY <1>5, <1>7, OneDivision
<1> QED
  BY <1>8

LEMMA FingerprintTells ==
  ASSUME NEW a \in Seq(Int), NEW c \in Seq(Int),
         \A i \in DOMAIN a : Encodable(a[i]), \A i \in DOMAIN c : Encodable(c[i]),
         TokenFingerprint(a) = TokenFingerprint(c)
  PROVE  a = c
<1>1. Width \in Nat \ {0}
  BY WidthAssumption
<1>2. PICK m \in Nat, n \in Nat : m = Len(a) /\ n = Len(c)
  OBVIOUS
<1>3. m = n
  <2>1. DOMAIN TokenFingerprint(a) = 1 .. m * Width /\ DOMAIN TokenFingerprint(c) = 1 .. n * Width
    BY <1>2 DEF TokenFingerprint
  <2>2. m * Width \in Nat /\ n * Width \in Nat
    BY <1>1
  <2>3. m * Width = n * Width
    <3>1. 1 .. m * Width = 1 .. n * Width
      BY <2>1
    <3>2. PICK x \in Nat, y \in Nat : x = m * Width /\ y = n * Width
      BY <2>2
    <3>3. 1 .. x = 1 .. y
      BY <3>1, <3>2
    <3>4. x = y
      BY <3>3
    <3> QED
      BY <3>2, <3>4
  <2>4. 0 \in 0 .. Width - 1 /\ m * Width + 0 = n * Width + 0
    BY <1>1, <2>2, <2>3
  <2> QED
    BY <1>1, <2>4, OneDivision
<1>4. ASSUME NEW i \in 1 .. m PROVE a[i] = c[i]
  <2>1. a[i] \in Int /\ c[i] \in Int /\ Encodable(a[i]) /\ Encodable(c[i])
    <3>1. DOMAIN a = 1 .. m /\ DOMAIN c = 1 .. m
      <4>1. DOMAIN a = 1 .. Len(a) /\ DOMAIN c = 1 .. Len(c)
        BY LenProperties
      <4> QED
        BY <1>2, <1>3, <4>1
    <3>2. i \in DOMAIN a /\ i \in DOMAIN c
      BY <3>1
    <3> QED
      BY <3>2, ElementOfSeq
  <2>2. ASSUME NEW b \in 0 .. Width - 1 PROVE Digit(a[i], b) = Digit(c[i], b)
    <3>1. PICK x \in Nat : x = (i - 1) * Width
      BY <1>1
    <3>2. x + Width <= m * Width /\ m * Width \in Nat
      <4>1. PICK k \in Nat : m = i + k
        <5>1. m - i \in Nat /\ m = i + (m - i)
          OBVIOUS
        <5> QED
          BY <5>1
      <4>2. m * Width = (i - 1) * Width + Width + k * Width /\ k * Width \in Nat
        BY <1>1, <4>1
      <4> QED
        BY <1>1, <3>1, <4>2
    <3>3. PICK j \in 1 .. m * Width : j = x + b + 1
      <4>1. x + b + 1 \in 1 .. m * Width
        BY <1>1, <3>1, <3>2
      <4> QED
        BY <4>1
    <3>4. j - 1 = (i - 1) * Width + b
      BY <3>1, <3>3
    <3>5. (j - 1) \div Width = i - 1 /\ (j - 1) % Width = b
      <4>1. i - 1 \in Int
        OBVIOUS
      <4> QED
        BY <1>1, <3>4, <4>1, Divided
    <3>6. ((j - 1) \div Width) + 1 = i
      BY <3>5
    <3>7. TokenFingerprint(a)[j] = Digit(a[i], b) /\ TokenFingerprint(c)[j] = Digit(c[i], b)
      BY <1>2, <1>3, <3>3, <3>5, <3>6 DEF TokenFingerprint
    <3> QED
      BY <3>7
  <2>3. a[i] % 2 ^ Width = c[i] % 2 ^ Width
    BY <2>1, <2>2, DigitsTell
  <2> QED
    BY <2>1, <2>3, EncodingTells
<1> QED
  BY <1>2, <1>3, <1>4, SeqEqual

-----------------------------------------------------------------------------
(***************************************************************************)
(* Chunks: as many as it takes, all but the last of chunk_size tokens.     *)
(***************************************************************************)
LEMMA ChunkCount ==
  ASSUME chunk_size \in Nat \ {0}, NEW S, NEW s \in Seq(S)
  PROVE  /\ NumChunks(s) \in Nat /\ NumChunks(s) * chunk_size \in Nat
         /\ Len(s) <= NumChunks(s) * chunk_size
         /\ NumChunks(s) * chunk_size < Len(s) + chunk_size
<1>1. PICK c \in Nat \ {0}, n \in Nat : c = chunk_size /\ n = Len(s)
  BY LenProperties
<1>2. PICK t \in Nat : t = n + c - 1
  OBVIOUS
<1>3. PICK q \in Int, r \in 0 .. c - 1 : q = t \div c /\ t = q * c + r
  BY Division
<1>4. NumChunks(s) = q
  BY <1>1, <1>2, <1>3 DEF NumChunks
<1>5. q * c \in Int /\ n <= q * c /\ q * c < n + c
  BY <1>2, <1>3
<1>6. q \in Nat
  <2>1. ~(q < 0)
    <3> SUFFICES ASSUME q < 0 PROVE FALSE
      OBVIOUS
    <3>1. PICK k \in Nat : q = -k - 1
      <4>1. -q - 1 \in Nat /\ q = -(-q - 1) - 1
        OBVIOUS
      <4> QED
        BY <4>1
    <3>2. q * c = -(k * c) - c /\ k * c \in Nat
      BY <3>1
    <3> QED
      BY <1>5, <3>2
  <2> QED
    BY <2>1
<1> QED
  BY <1>1, <1>4, <1>5, <1>6

\* Fewer chunks end before the last one begins.
LEMMA Whole ==
  ASSUME chunk_size \in Nat \ {0}, NEW m \in Nat, NEW n \in Nat, m < n
  PROVE  /\ m * chunk_size \in Nat /\ n * chunk_size \in Nat
         /\ (m + 1) * chunk_size = m * chunk_size + chunk_size
         /\ m * chunk_size + chunk_size <= n * chunk_size
<1>1. PICK d \in Nat : n = m + 1 + d
  <2>1. n - m - 1 \in Nat /\ n = m + 1 + (n - m - 1)
    OBVIOUS
  <2> QED
    BY <2>1
<1>2. /\ n * chunk_size = m * chunk_size + chunk_size + d * chunk_size
      /\ (m + 1) * chunk_size = m * chunk_size + chunk_size
  BY <1>1
<1>3. m * chunk_size \in Nat /\ d * chunk_size \in Nat
  BY <1>1
<1> QED
  BY <1>2, <1>3

\* Chunk i + 1 has the tokens after the first i chunks.
LEMMA ChunkTokens ==
  ASSUME chunk_size \in Nat \ {0}, NEW S, NEW s \in Seq(S), NEW i \in Nat, i < NumChunks(s)
  PROVE  LET w == Smaller(i * chunk_size + chunk_size, Len(s)) - i * chunk_size
         IN  /\ i * chunk_size \in Nat /\ w \in 1 .. chunk_size
             /\ i + 1 \in DOMAIN ChunkTokenIds(s)
             /\ ChunkTokenIds(s)[i + 1] \in Seq(S) /\ Len(ChunkTokenIds(s)[i + 1]) = w
             /\ \A k \in 1 .. w : /\ i * chunk_size + k \in 1 .. Len(s)
                                  /\ ChunkTokenIds(s)[i + 1][k] = s[i * chunk_size + k]
<1>1. PICK c \in Nat \ {0}, n \in Nat, m \in Nat : c = chunk_size /\ n = Len(s) /\ m = NumChunks(s)
  BY ChunkCount, LenProperties
<1>2. m * c \in Nat /\ m * c < n + c /\ i < m
  BY <1>1, ChunkCount
<1>3. PICK a \in Nat : a = i * c
  BY <1>1
<1>4. (i + 1) * c = a + c /\ a + c <= m * c
  BY <1>1, <1>2, <1>3, Whole
<1>5. PICK e \in Nat : e = Smaller(a + c, n)
  <2>1. Smaller(a + c, n) \in Nat
    BY DEF Smaller
  <2> QED
    BY <2>1
<1>6. PICK w \in 1 .. c : w = e - a
  <2>1. e - a \in 1 .. c
    BY <1>2, <1>4, <1>5 DEF Smaller
  <2> QED
    BY <2>1
<1>7. e <= n /\ a + 1 <= e /\ e - (a + 1) + 1 = w /\ i + 1 \in 1 .. m /\ (i + 1) - 1 = i
  BY <1>2, <1>5, <1>6 DEF Smaller
<1>8. i + 1 \in DOMAIN ChunkTokenIds(s) /\ ChunkTokenIds(s)[i + 1] = SubSeq(s, a + 1, e)
  <2>1. ((i + 1) - 1) * chunk_size + 1 = a + 1
    BY <1>1, <1>3, <1>7
  <2>2. Smaller((i + 1) * chunk_size, Len(s)) = e
    BY <1>1, <1>4, <1>5
  <2> QED
    BY <1>1, <1>7, <2>1, <2>2 DEF ChunkTokenIds
<1>9. \A j \in a + 1 .. e : j \in 1 .. n /\ s[j] \in S
  <2>1. \A j \in 1 .. n : s[j] \in S
    BY <1>1, ElementOfSeq
  <2> QED
    BY <1>7, <2>1
<1>10. /\ SubSeq(s, a + 1, e) \in Seq(S)
       /\ Len(SubSeq(s, a + 1, e)) = IF a + 1 <= e THEN e - (a + 1) + 1 ELSE 0
       /\ \A k \in 1 .. e - (a + 1) + 1 : SubSeq(s, a + 1, e)[k] = s[a + 1 + k - 1]
  <2>1. a + 1 \in Int /\ e \in Int
    OBVIOUS
  <2> QED
    BY <1>1, <1>9, <2>1, SubSeqProperties
<1>11. \A k \in 1 .. w : /\ a + k \in 1 .. Len(s)
                         /\ SubSeq(s, a + 1, e)[k] = s[a + k]
  <2> SUFFICES ASSUME NEW k \in 1 .. w PROVE a + k \in 1 .. n /\ SubSeq(s, a + 1, e)[k] = s[a + k]
    BY <1>1
  <2>1. a + 1 + k - 1 = a + k /\ a + k \in 1 .. n
    BY <1>7
  <2>2. SubSeq(s, a + 1, e)[k] = s[a + 1 + k - 1]
    BY <1>7, <1>10
  <2> QED
    BY <2>1, <2>2
<1>12. Smaller(i * chunk_size + chunk_size, Len(s)) - i * chunk_size = w /\ i * chunk_size = a
  BY <1>1, <1>3, <1>5, <1>6
<1>13. Len(SubSeq(s, a + 1, e)) = w
  BY <1>7, <1>10
<1> QED
  BY <1>1, <1>8, <1>10, <1>11, <1>12, <1>13

-----------------------------------------------------------------------------
(***************************************************************************)
(* The chunks that match, against the tokens that are shared.              *)
(***************************************************************************)
LEMMA Wider ==
  ASSUME NEW S, NEW T, S \subseteq T, NEW s \in Seq(S)
  PROVE  s \in Seq(T)
<1>1. PICK n \in Nat : s \in [1 .. n -> S]
  <2>1. Len(s) \in Nat /\ s \in [1 .. Len(s) -> S]
    OBVIOUS
  <2> QED
    BY <2>1
<1>2. s \in [1 .. n -> T]
  BY <1>1
<1> QED
  BY <1>2

LEMMA CommonPrefixFacts ==
  ASSUME NEW a \in Seq(Int), NEW c \in Seq(Int)
  PROVE  /\ CommonPrefix(a, c) \in Nat /\ CommonPrefix(a, c) <= Len(a) /\ CommonPrefix(a, c) <= Len(c)
         /\ \A i \in 1 .. CommonPrefix(a, c) : a[i] = c[i]
         /\ \A n \in Nat : n <= Len(a) /\ n <= Len(c) /\ (\A i \in 1 .. n : a[i] = c[i])
                              => n <= CommonPrefix(a, c)
<1> DEFINE T == {n \in DOMAIN a \intersect DOMAIN c : \A i \in 1 .. n : a[i] = c[i]}
<1>1. /\ Len(a) \in Nat /\ Len(c) \in Nat
      /\ DOMAIN a \intersect DOMAIN c = {n \in Nat \ {0} : n <= Len(a) /\ n <= Len(c)}
  BY LenProperties
<1>2. T \subseteq 1 .. Len(a) /\ \A n \in T : 1 .. n \subseteq T
  BY <1>1
<1>3. CommonPrefix(a, c) = Cardinality(T)
  BY DEF CommonPrefix
<1>4. PICK m \in 0 .. Len(a) : T = 1 .. m /\ Cardinality(T) = m
  <2> HIDE DEF T
  <2> QED
    BY <1>1, <1>2, InitialNumbers
<1>5. \A n \in Nat : n <= m => n = 0 \/ n \in T
  <2> HIDE DEF T
  <2> QED
    BY <1>1, <1>4
<1>6. m <= Len(c) /\ \A i \in 1 .. m : a[i] = c[i]
  <2>1. m \in Nat /\ (m = 0 \/ m \in T)
    BY <1>1, <1>5
  <2> QED
    BY <1>1, <2>1
<1>7. ASSUME NEW n \in Nat, n <= Len(a), n <= Len(c), \A i \in 1 .. n : a[i] = c[i]
      PROVE  n <= m
  <2>1. n = 0 \/ n \in T
    BY <1>1, <1>7
  <2> HIDE DEF T
  <2> QED
    BY <1>1, <1>4, <2>1
<1>8. CommonPrefix(a, c) = m /\ m \in Nat /\ m <= Len(a)
  <2> HIDE DEF T
  <2> QED
    BY <1>1, <1>3, <1>4
<1> HIDE DEF T
<1> QED
  BY <1>6, <1>7, <1>8

InRange == {t \in Token : Encodable(t)}

\* What the loop of matched_chunk_count has found when it raises no OverflowError: the
\* chunks that match are the first ones, and each is made of the same tokens.
LEMMA LeadingFacts ==
  ASSUME chunk_size \in Nat \ {0}, NEW q \in Seq(Token), NEW p \in Seq(InRange),
         ~Overflows(q, Fingerprints(p))
  PROVE  LET m == MatchedChunkCount(q, Fingerprints(p))
         IN  /\ m \in Nat /\ m <= NumChunks(q) /\ m <= NumChunks(p)
             /\ Len(Fingerprints(p)) = NumChunks(p)
             /\ \A i \in 1 .. m : ChunkTokenIds(q)[i] = ChunkTokenIds(p)[i]
             /\ m < NumChunks(q) /\ m < NumChunks(p) =>
                   ChunkTokenIds(q)[m + 1] # ChunkTokenIds(p)[m + 1]
<1> DEFINE fps == Fingerprints(p)
           T == LeadingChunks(q, fps)
<1>1. NumChunks(q) \in Nat /\ NumChunks(p) \in Nat
  BY ChunkCount
<1>2. DOMAIN ChunkTokenIds(q) = 1 .. NumChunks(q) /\ DOMAIN ChunkTokenIds(p) = 1 .. NumChunks(p)
  BY DEF ChunkTokenIds
<1>3. /\ fps = [i \in 1 .. NumChunks(p) |-> TokenFingerprint(ChunkTokenIds(p)[i])]
      /\ Len(fps) = NumChunks(p) /\ DOMAIN fps = 1 .. NumChunks(p)
  <2>1. fps = [i \in 1 .. NumChunks(p) |-> TokenFingerprint(ChunkTokenIds(p)[i])]
    BY <1>2 DEF Fingerprints
  <2> HIDE DEF fps
  <2>2. DOMAIN fps = 1 .. NumChunks(p)
    BY <2>1
  <2>3. Len(fps) = NumChunks(p)
    BY <1>1, <2>1, <2>2
  <2> QED
    BY <2>1, <2>2, <2>3
<1> HIDE DEF fps
<1>4. T = {i \in (1 .. NumChunks(p)) \intersect (1 .. NumChunks(q)) : \A j \in 1 .. i : Matching(q, fps, j)}
  BY <1>2, <1>3 DEF LeadingChunks
<1>5. T \subseteq 1 .. NumChunks(q) /\ \A i \in T : 1 .. i \subseteq T
  BY <1>1, <1>4
<1>6. PICK m \in 0 .. NumChunks(q) : T = 1 .. m /\ Cardinality(T) = m
  <2> HIDE DEF T
  <2> QED
    BY <1>1, <1>5, InitialNumbers
<1>7. m = MatchedChunkCount(q, fps)
  BY <1>6 DEF MatchedChunkCount
<1>8. m \in Nat /\ m <= NumChunks(q) /\ m <= NumChunks(p)
  <2>1. m = 0 \/ m \in T
    BY <1>1, <1>6
  <2> QED
    BY <1>1, <1>4, <2>1
<1>9. ASSUME NEW i \in 1 .. m PROVE ChunkTokenIds(q)[i] = ChunkTokenIds(p)[i]
  <2>1. Matching(q, fps, i) /\ i \in 1 .. NumChunks(p)
    BY <1>4, <1>6
  <2>2. TokenFingerprint(ChunkTokenIds(q)[i]) = TokenFingerprint(ChunkTokenIds(p)[i])
    BY <1>3, <2>1 DEF Matching
  <2>3. PICK h \in Nat : h + 1 = i /\ h < NumChunks(q) /\ h < NumChunks(p)
    <3>1. i - 1 \in Nat /\ i - 1 + 1 = i /\ i - 1 < NumChunks(q) /\ i - 1 < NumChunks(p)
      BY <1>1, <1>8
    <3> QED
      BY <3>1
  <2>4. ChunkTokenIds(q)[i] \in Seq(Token) /\ ChunkTokenIds(p)[i] \in Seq(InRange)
    BY <2>3, ChunkTokens
  <2>5. \A j \in DOMAIN ChunkTokenIds(p)[i] : Encodable(ChunkTokenIds(p)[i][j])
    BY <2>4, ElementOfSeq DEF InRange
  <2>6. i \in Compared(q, fps)
    BY <1>1, <1>3, <1>7, <1>8 DEF Compared, Smaller
  <2>7. \A j \in DOMAIN ChunkTokenIds(q)[i] : Encodable(ChunkTokenIds(q)[i][j])
    BY <2>6 DEF Overflows, fps
  <2>8. ChunkTokenIds(q)[i] \in Seq(Int) /\ ChunkTokenIds(p)[i] \in Seq(Int)
    <3>1. Token \subseteq Int /\ InRange \subseteq Int
      BY TokenAssumption DEF InRange
    <3> QED
      BY <2>4, <3>1, Wider
  <2> QED
    BY <2>2, <2>5, <2>7, <2>8, FingerprintTells
<1>10. ASSUME m < NumChunks(q), m < NumChunks(p)
       PROVE  ChunkTokenIds(q)[m + 1] # ChunkTokenIds(p)[m + 1]
  <2> SUFFICES ASSUME ChunkTokenIds(q)[m + 1] = ChunkTokenIds(p)[m + 1] PROVE FALSE
    OBVIOUS
  <2>1. m + 1 \in 1 .. NumChunks(p) /\ m + 1 \in 1 .. NumChunks(q) /\ m + 1 \notin T
    BY <1>1, <1>6, <1>8, <1>10
  <2>2. Matching(q, fps, m + 1)
    BY <1>3, <2>1 DEF Matching
  <2>3. \A j \in 1 .. m : Matching(q, fps, j)
    BY <1>4, <1>6
  <2>4. \A j \in 1 .. m + 1 : j \in 1 .. m \/ j = m + 1
    BY <1>8
  <2> QED
    BY <1>4, <2>1, <2>2, <2>3, <2>4
<1> QED
  BY <1>3, <1>7, <1>8, <1>9, <1>10 DEF fps

LEMMA SameChunksSameTokens ==
  ASSUME chunk_size \in Nat \ {0}, NEW q \in Seq(Token), NEW p \in Seq(InRange),
         NEW m \in Nat, m <= NumChunks(q), m <= NumChunks(p),
         \A i \in 1 .. m : ChunkTokenIds(q)[i] = ChunkTokenIds(p)[i]
  PROVE  \A j \in 1 .. Len(p) : j <= m * chunk_size => j <= Len(q) /\ q[j] = p[j]
<1> DEFINE Same(i) == \A j \in 1 .. Len(p) : j <= i * chunk_size => j <= Len(q) /\ q[j] = p[j]
           T == {i \in Nat : i <= m => Same(i)}
<1>1. Len(p) \in Nat /\ Len(q) \in Nat /\ NumChunks(p) \in Nat /\ NumChunks(q) \in Nat
  BY ChunkCount, LenProperties
<1>2. 0 \in T
  <2>1. 0 * chunk_size = 0
    OBVIOUS
  <2> QED
    BY <1>1, <2>1
<1>3. ASSUME NEW i \in Nat, i \in T PROVE i + 1 \in T
  <2> SUFFICES ASSUME i + 1 <= m PROVE Same(i + 1)
    OBVIOUS
  <2>1. Same(i) /\ i < NumChunks(q) /\ i < NumChunks(p) /\ i < m
    BY <1>1, <1>3
  <2>2. PICK a \in Nat, c \in Nat \ {0} : a = i * chunk_size /\ c = chunk_size
    OBVIOUS
  <2>3. (i + 1) * chunk_size = a + c
    BY <2>1, <2>2, Whole
  <2> DEFINE w(s) == Smaller(a + c, Len(s)) - a
  <2>4. /\ w(p) \in 1 .. c /\ Len(ChunkTokenIds(p)[i + 1]) = w(p)
        /\ \A k \in 1 .. w(p) : a + k \in 1 .. Len(p) /\ ChunkTokenIds(p)[i + 1][k] = p[a + k]
    BY <2>1, <2>2, ChunkTokens
  <2>5. /\ w(q) \in 1 .. c /\ Len(ChunkTokenIds(q)[i + 1]) = w(q)
        /\ \A k \in 1 .. w(q) : a + k \in 1 .. Len(q) /\ ChunkTokenIds(q)[i + 1][k] = q[a + k]
    BY <2>1, <2>2, ChunkTokens
  <2>6. ChunkTokenIds(q)[i + 1] = ChunkTokenIds(p)[i + 1]
    <3>1. i + 1 \in 1 .. m
      OBVIOUS
    <3> QED
      BY <3>1
  <2>7. ASSUME NEW j \in 1 .. Len(p), j <= a + c PROVE j <= Len(q) /\ q[j] = p[j]
    <3>1. CASE j <= a
      BY <2>1, <2>2, <3>1
    <3>2. CASE ~(j <= a)
      <4>1. PICK k \in Nat \ {0} : j = a + k
        <5>1. j - a \in Nat \ {0} /\ j = a + (j - a)
          BY <1>1, <3>2
        <5> QED
          BY <5>1
      <4>2. k \in 1 .. w(p)
        <5>1. w(p) = c \/ w(p) = Len(p) - a
          BY <1>1 DEF Smaller
        <5> HIDE DEF w
        <5> QED
          BY <1>1, <2>4, <2>7, <4>1, <5>1
      <4>3. k \in 1 .. w(q)
        BY <2>4, <2>5, <2>6, <4>2
      <4> HIDE DEF w
      <4>4. a + k \in 1 .. Len(q) /\ q[a + k] = p[a + k]
        BY <2>4, <2>5, <2>6, <4>2, <4>3
      <4> QED
        BY <1>1, <4>1, <4>4
    <3> QED
      BY <3>1, <3>2
  <2> QED
    BY <2>3, <2>7
<1>4. Nat \subseteq T
  <2> HIDE DEF T
  <2> QED
    BY <1>2, <1>3, Induction
<1>5. Same(m)
  <2>1. m \in T
    BY <1>4
  <2> QED
    BY <2>1
<1> QED
  BY <1>5

\* What lookup answers, against the common prefix.
LEMMA LookupIsRight ==
  ASSUME chunk_size \in Nat \ {0}, NEW q \in Seq(Token), registered \in Seq(InRange),
         ~Overflows(q, Fingerprints(registered))
  PROVE  LET m == MatchedChunkCount(q, Fingerprints(registered))
             r == LookupResult(m, Fingerprints(registered))
         IN  /\ m \in 0 .. NumChunks(registered)
             /\ r.num_tokens \in Nat
             /\ r.num_tokens <= CommonPrefix(q, registered)
             /\ r.num_tokens > CommonPrefix(q, registered) - chunk_size
             /\ q = registered => r.full
<1>1. PICK p \in Seq(InRange) : p = registered
  OBVIOUS
<1>2. PICK m \in Nat, c \in Nat \ {0} : m = MatchedChunkCount(q, Fingerprints(p)) /\ c = chunk_size
  BY <1>1, LeadingFacts
<1>3. /\ m <= NumChunks(q) /\ m <= NumChunks(p) /\ Len(Fingerprints(p)) = NumChunks(p)
      /\ \A i \in 1 .. m : ChunkTokenIds(q)[i] = ChunkTokenIds(p)[i]
      /\ m < NumChunks(q) /\ m < NumChunks(p) => ChunkTokenIds(q)[m + 1] # ChunkTokenIds(p)[m + 1]
  BY <1>1, <1>2, LeadingFacts
<1>4. q \in Seq(Int) /\ p \in Seq(Int)
  <2>1. Token \subseteq Int /\ InRange \subseteq Int
    BY TokenAssumption DEF InRange
  <2> QED
    BY <2>1, Wider
<1>5. PICK s \in Nat : s = CommonPrefix(q, p)
  BY <1>4, CommonPrefixFacts
<1>6. /\ s <= Len(q) /\ s <= Len(p) /\ \A i \in 1 .. s : q[i] = p[i]
      /\ \A n \in Nat : n <= Len(q) /\ n <= Len(p) /\ (\A i \in 1 .. n : q[i] = p[i]) => n <= s
  BY <1>4, <1>5, CommonPrefixFacts
<1>7. /\ Len(p) \in Nat /\ Len(q) \in Nat /\ NumChunks(p) \in Nat /\ NumChunks(q) \in Nat
      /\ Len(p) <= NumChunks(p) * c /\ NumChunks(p) * c < Len(p) + c /\ NumChunks(p) * c \in Nat
      /\ Len(q) <= NumChunks(q) * c /\ NumChunks(q) * c < Len(q) + c /\ NumChunks(q) * c \in Nat
  BY <1>2, ChunkCount, LenProperties
<1>8. PICK n \in Nat : n = IF m = NumChunks(p) THEN Len(p) ELSE m * c
  <2>1. m * c \in Nat /\ Len(p) \in Nat
    BY LenProperties
  <2>2. (IF m = NumChunks(p) THEN Len(p) ELSE m * c) \in Nat
    BY <2>1
  <2> QED
    BY <2>2
<1>9. n <= m * c /\ m * c \in Nat /\ n <= Len(p) /\ (m < NumChunks(p) => n = m * c)
  <2>1. CASE m = NumChunks(p)
    BY <1>7, <1>8, <2>1
  <2>2. CASE m < NumChunks(p)
    <3>1. m * c \in Nat /\ m * c + c <= NumChunks(p) * c
      BY <1>2, <1>7, <2>2, Whole
    <3> QED
      BY <1>7, <1>8, <2>2, <3>1
  <2> QED
    BY <1>3, <1>7, <2>1, <2>2
<1>10. \A j \in 1 .. n : j <= Len(q) /\ q[j] = p[j]
  <2>1. \A j \in 1 .. Len(p) : j <= m * c => j <= Len(q) /\ q[j] = p[j]
    BY <1>2, <1>3, SameChunksSameTokens
  <2> QED
    BY <1>7, <1>9, <2>1
<1>11. n <= s
  <2>1. n <= Len(q)
    <3>1. n = 0 \/ n \in 1 .. n
      OBVIOUS
    <3> QED
      BY <1>7, <1>10, <3>1
  <2> QED
    BY <1>6, <1>9, <1>10, <2>1
<1>12. n > s - c
  <2>1. CASE m = NumChunks(p)
    BY <1>6, <1>7, <1>8, <2>1
  <2>2. CASE m < NumChunks(p) /\ m = NumChunks(q)
    BY <1>6, <1>7, <1>9, <2>2
  <2>3. CASE m < NumChunks(p) /\ m < NumChunks(q)
    <3> SUFFICES ASSUME s >= n + c PROVE FALSE
      OBVIOUS
    <3>1. n = m * chunk_size /\ c = chunk_size
      BY <1>2, <1>9, <2>3
    <3>2. n + c <= Len(p) /\ n + c <= Len(q) /\ Len(p) \in Nat /\ Len(q) \in Nat
      BY <1>6, LenProperties
    <3>3. \A l \in Nat : n + c <= l => Smaller(n + c, l) - n = c
      BY DEF Smaller
    <3>4. /\ Smaller(m * chunk_size + chunk_size, Len(p)) - m * chunk_size = c
          /\ Smaller(m * chunk_size + chunk_size, Len(q)) - m * chunk_size = c
      BY <3>1, <3>2, <3>3
    <3>5. /\ ChunkTokenIds(p)[m + 1] \in Seq(InRange) /\ Len(ChunkTokenIds(p)[m + 1]) = c
          /\ \A k \in 1 .. c : ChunkTokenIds(p)[m + 1][k] = p[m * chunk_size + k]
      BY <2>3, <3>4, ChunkTokens
    <3>6. /\ ChunkTokenIds(q)[m + 1] \in Seq(Token) /\ Len(ChunkTokenIds(q)[m + 1]) = c
          /\ \A k \in 1 .. c : ChunkTokenIds(q)[m + 1][k] = q[m * chunk_size + k]
      BY <2>3, <3>4, ChunkTokens
    <3>7. \A k \in 1 .. c : q[n + k] = p[n + k]
      BY <1>6
    <3>8. ChunkTokenIds(p)[m + 1] \in Seq(Token)
      <4>1. InRange \subseteq Token
        BY DEF InRange
      <4> QED
        BY <3>5, <4>1, Wider
    <3>9. ChunkTokenIds(q)[m + 1] = ChunkTokenIds(p)[m + 1]
      <4>1. PICK x \in Seq(Token), y \in Seq(Token) :
               x = ChunkTokenIds(q)[m + 1] /\ y = ChunkTokenIds(p)[m + 1]
        BY <3>6, <3>8
      <4>2. Len(x) = c /\ Len(y) = c /\ \A k \in 1 .. c : x[k] = y[k]
        BY <3>1, <3>5, <3>6, <3>7, <4>1
      <4>3. x = y
        BY <4>2, SeqEqual
      <4> QED
        BY <4>1, <4>3
    <3> QED
      BY <1>3, <2>3, <3>9
  <2>4. \A i, j, k \in Nat : i <= j /\ i <= k => i = j \/ (i < j /\ i = k) \/ (i < j /\ i < k)
    OBVIOUS
  <2>5. m = NumChunks(p) \/ (m < NumChunks(p) /\ m = NumChunks(q)) \/ (m < NumChunks(p) /\ m < NumChunks(q))
    BY <1>3, <1>7, <2>4
  <2> QED
    BY <2>1, <2>2, <2>3, <2>5
<1>13. q = p => m = NumChunks(p)
  BY <1>3, <1>7
<1>14. /\ LookupResult(m, Fingerprints(p)).num_tokens = n
       /\ LookupResult(m, Fingerprints(p)).full = (m = NumChunks(p))
  BY <1>1, <1>2, <1>3, <1>8 DEF LookupResult
<1>15. m \in 0 .. NumChunks(registered)
  BY <1>1, <1>3, <1>7
<1> QED
  BY <1>1, <1>2, <1>5, <1>11, <1>12, <1>13, <1>14, <1>15

-----------------------------------------------------------------------------
(***************************************************************************)
(* The invariant: what was registered can be encoded, and an answer is     *)
(* what lookup computes for the request, whose compared chunks can be.     *)
(***************************************************************************)
FPs == Fingerprints(registered)

PromptsInv ==
    /\ chunk_size \in ChunkSizes /\ chunk_size \in Nat \ {0}
    /\ registered \in Seq(InRange)
    /\ request = None \/ request \in Seq(Token)

ResultInv ==
    /\ result \in {None, OverflowError} \/
          \E m \in 0 .. NumChunks(registered) : result = LookupResult(m, FPs)
    /\ Answered => /\ request \in Seq(Token) /\ ~Overflows(request, FPs)
                   /\ result = LookupResult(MatchedChunkCount(request, FPs), FPs)

Inv == PromptsInv /\ ResultInv

LEMMA PromptIsSeq ==
  ASSUME NEW S, NEW p \in Prompts(S)
  PROVE  p \in Seq(S)
<1>1. PICK n \in 0 .. MaxTokens : p \in [1 .. n -> S]
  BY DEF Prompts
<1>2. n \in Nat
  BY BoundAssumption
<1> QED
  BY <1>1, <1>2

LEMMA InitInv == Init => Inv
<1> SUFFICES ASSUME Init PROVE Inv
  OBVIOUS
<1>1. chunk_size \in ChunkSizes /\ chunk_size \in Nat \ {0}
  BY SizesAssumption DEF Init
<1>2. registered \in Seq(InRange)
  BY PromptIsSeq DEF Init, InRange
<1>3. request = None /\ result = None
  BY DEF Init
<1> QED
  BY <1>1, <1>2, <1>3 DEF Inv, PromptsInv, ResultInv, Answered

LEMMA FPsCount ==
  ASSUME PromptsInv
  PROVE  Len(FPs) = NumChunks(registered) /\ NumChunks(registered) \in Nat
<1>1. NumChunks(registered) \in Nat
  BY ChunkCount DEF PromptsInv
<1>2. FPs = [i \in 1 .. NumChunks(registered) |-> TokenFingerprint(ChunkTokenIds(registered)[i])]
  BY DEF FPs, Fingerprints, ChunkTokenIds
<1> QED
  BY <1>1, <1>2

LEMMA NextInv == Inv /\ [Next]_vars => Inv'
<1> SUFFICES ASSUME Inv, [Next]_vars PROVE Inv'
  OBVIOUS
<1>1. PromptsInv /\ ResultInv
  BY DEF Inv
<1>2. UNCHANGED <<chunk_size, registered>> /\ FPs' = FPs /\ NumChunks(registered)' = NumChunks(registered)
  <2>1. UNCHANGED <<chunk_size, registered>>
    BY DEF Next, Lookup, LookupTrusting, vars
  <2> QED
    BY <2>1 DEF FPs, Fingerprints, ChunkTokenIds, NumChunks, TokenFingerprint
<1>3. \A m, fps : LookupResult(m, fps)' = LookupResult(m, fps)
  BY <1>2 DEF LookupResult
<1>4. \A q, fps : MatchedChunkCount(q, fps)' = MatchedChunkCount(q, fps)
  BY <1>2 DEF MatchedChunkCount, LeadingChunks, Matching, ChunkTokenIds, NumChunks
<1>5. \A q, fps : Overflows(q, fps)' = Overflows(q, fps)
  BY <1>2, <1>4 DEF Overflows, Compared, ChunkTokenIds, NumChunks
<1>6. CASE Lookup
  <2>1. /\ request' \in Seq(Token)
        /\ result' = IF Overflows(request', FPs) THEN OverflowError
                     ELSE LookupResult(MatchedChunkCount(request', FPs), FPs)
    BY <1>6, PromptIsSeq DEF Lookup, FPs
  <2>2. PromptsInv'
    BY <1>1, <1>2, <2>1 DEF PromptsInv
  <2>3. PICK q \in Seq(Token) : q = request'
    BY <2>1
  <2>4. CASE Overflows(q, FPs)
    <3>1. result' = OverflowError
      BY <2>1, <2>3, <2>4
    <3> QED
      BY <2>2, <3>1 DEF Inv, ResultInv, Answered
  <2>5. CASE ~Overflows(q, FPs)
    <3>1. PICK m : m = MatchedChunkCount(q, FPs)
      OBVIOUS
    <3>2. m \in 0 .. NumChunks(registered)
      BY <1>1, <2>3, <2>5, <3>1, LookupIsRight DEF PromptsInv, FPs
    <3>3. result' = LookupResult(m, FPs)
      BY <2>1, <2>3, <2>5, <3>1
    <3>4. MatchedChunkCount(request, FPs)' = m
      BY <1>2, <1>4, <2>3, <3>1
    <3>5. ~Overflows(request, FPs)'
      BY <1>2, <1>5, <2>3, <2>5
    <3>6. LookupResult(m, FPs)' = LookupResult(m, FPs)
      BY <1>2, <1>3
    <3>7. ResultInv'
      BY <1>2, <2>1, <3>2, <3>3, <3>4, <3>5, <3>6 DEF ResultInv
    <3> QED
      BY <2>2, <3>7 DEF Inv
  <2> QED
    BY <2>4, <2>5
<1>7. CASE LookupTrusting
  <2>1. request' = None /\ result' = LookupResult(Len(FPs), FPs)
    BY <1>7 DEF LookupTrusting, FPs
  <2>2. PromptsInv'
    BY <1>1, <1>2, <2>1 DEF PromptsInv
  <2>3. Len(FPs) \in 0 .. NumChunks(registered)
    BY <1>1, FPsCount
  <2>4. ResultInv'
    BY <1>2, <1>3, <2>1, <2>3 DEF ResultInv, Answered
  <2> QED
    BY <2>2, <2>4 DEF Inv
<1>8. CASE UNCHANGED vars
  <2>1. request' = request /\ result' = result
    BY <1>8 DEF vars
  <2>2. PromptsInv'
    BY <1>1, <1>2, <2>1 DEF PromptsInv
  <2>3. ResultInv'
    BY <1>1, <1>2, <1>3, <1>4, <1>5, <2>1 DEF ResultInv, Answered
  <2> QED
    BY <2>2, <2>3 DEF Inv
<1> QED
  BY <1>6, <1>7, <1>8 DEF Next

LEMMA InvHolds == Spec => []Inv
BY InitInv, NextInv, PTL DEF Spec

\* What is known of an answer.
LEMMA AnswerIsRight ==
  ASSUME Inv, Answered
  PROVE  /\ result.num_tokens <= Shared /\ result.num_tokens > Shared - chunk_size
         /\ request = registered => result.full
<1>1. /\ chunk_size \in Nat \ {0} /\ registered \in Seq(InRange) /\ request \in Seq(Token)
      /\ ~Overflows(request, FPs) /\ result = LookupResult(MatchedChunkCount(request, FPs), FPs)
  BY DEF Inv, PromptsInv, ResultInv
<1> QED
  BY <1>1, LookupIsRight DEF FPs, Shared

\* lookup answers with a number of tokens and of chunks that the registered prompt has, or
\* raises OverflowError.
THEOREM TypeCorrect == Spec => []TypeOK
<1>1. Inv => TypeOK
  <2> SUFFICES ASSUME Inv PROVE TypeOK
    OBVIOUS
  <2>1. PromptsInv /\ ResultInv
    BY DEF Inv
  <2>2. registered \in Seq(Token)
    <3>1. InRange \subseteq Token
      BY DEF InRange
    <3> QED
      BY <2>1, <3>1, Wider DEF PromptsInv
  <2>3. ASSUME NEW m \in 0 .. NumChunks(registered)
        PROVE  LookupResult(m, FPs) \in [num_tokens : 0 .. Len(registered),
                                         num_chunks : 0 .. NumChunks(registered), full : BOOLEAN]
    <3>1. PICK c \in Nat \ {0}, n \in Nat, k \in Nat : c = chunk_size /\ n = Len(registered) /\ k = NumChunks(registered)
      BY <2>1, <2>2, ChunkCount, LenProperties DEF PromptsInv
    <3>2. k * c < n + c /\ k * c \in Nat
      BY <2>1, <2>2, <3>1, ChunkCount DEF PromptsInv
    <3>3. m \in Nat /\ m <= k /\ (m # k => m < k)
      BY <3>1
    <3>4. m < k => m * c \in 0 .. n
      <4> SUFFICES ASSUME m < k PROVE m * c \in 0 .. n
        OBVIOUS
      <4>1. m * chunk_size \in Nat /\ m * chunk_size + chunk_size <= k * chunk_size
        BY <3>1, <3>3, Whole
      <4>2. m * c \in Nat /\ m * c + c <= k * c
        BY <3>1, <4>1
      <4> QED
        BY <3>2, <4>2
    <3>5. Len(FPs) = k
      BY <2>1, <3>1, FPsCount
    <3>6. (IF m = k THEN n ELSE m * c) \in 0 .. n
      BY <3>3, <3>4
    <3>7. LookupResult(m, FPs) =
             [num_tokens |-> IF m = k THEN n ELSE m * c, num_chunks |-> m, full |-> (m = k)]
      BY <3>1, <3>5 DEF LookupResult
    <3>8. m \in 0 .. k /\ (m = k) \in BOOLEAN
      BY <3>1
    <3> HIDE DEF FPs
    <3> QED
      BY <3>1, <3>6, <3>7, <3>8
  <2> QED
    BY <2>1, <2>2, <2>3 DEF TypeOK, PromptsInv, ResultInv
<1> QED
  BY <1>1, InvHolds, PTL

\* What lookup calls reusable are tokens on which the request and the registered prompt
\* agree from the start, whatever the chunk size: the fingerprints that it compares tell
\* the tokens of a chunk and their number, so that chunks that match are the same chunks,
\* and the last of them may be counted in full only if it is in both prompts.
THEOREM ReuseShared == Spec => []ReuseIsShared
<1>1. Inv => ReuseIsShared
  BY AnswerIsRight DEF ReuseIsShared
<1> QED
  BY <1>1, InvHolds, PTL

\* lookup misses less than a chunk of what could be reused.
THEOREM WholeReused == Spec => []WholeChunksReused
<1>1. Inv => WholeChunksReused
  BY AnswerIsRight DEF WholeChunksReused
<1> QED
  BY <1>1, InvHolds, PTL

\* A request for the registered prompt itself reuses all of it.
THEOREM SameIsFull == Spec => []SamePromptIsFull
<1>1. Inv => SamePromptIsFull
  BY AnswerIsRight DEF SamePromptIsFull
<1> QED
  BY <1>1, InvHolds, PTL
=============================================================================
