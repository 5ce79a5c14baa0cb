-------------------------- MODULE CPUBackendProofs --------------------------
(***************************************************************************)
(* Proofs about CPUBackend, for every set of keys and objects and every    *)
(* capacity.                                                               *)
(***************************************************************************)
EXTENDS CPUBackend, FiniteSetTheorems, TLAPS

-----------------------------------------------------------------------------
(***************************************************************************)
(* Counting bytes.  Held(d, S) is Slots(S) for an arbitrary content d, so  *)
(* that the lemmas speak of the state before and after a step alike.       *)
(***************************************************************************)
Held(d, S) == UNION {{k} \X (1 .. Nbytes[d[k]]) : k \in S}

\* The elements of two disjoint finite sets add up.
LEMMA DisjointUnion ==
  ASSUME NEW S, NEW T, IsFiniteSet(S), IsFiniteSet(T), S \intersect T = {}
  PROVE  /\ IsFiniteSet(S \union T)
         /\ Cardinality(S) \in Nat /\ Cardinality(T) \in Nat
         /\ Cardinality(S \union T) = Cardinality(S) + Cardinality(T)
<1>1. /\ IsFiniteSet(S \union T)
      /\ Cardinality(S \union T) = Cardinality(S) + Cardinality(T) - Cardinality(S \intersect T)
  BY FS_Union
<1>2. Cardinality(S \intersect T) = 0
  BY FS_EmptySet
<1>3. Cardinality(S) \in Nat /\ Cardinality(T) \in Nat
  BY FS_CardinalityType
<1> QED
  BY <1>1, <1>2, <1>3

\* Held and Slots agree, before and after a step.
LEMMA SlotsAreHeld ==
  ASSUME NEW S
  PROVE  /\ Slots(S) = Held(data, S)
         /\ Bytes(S) = Cardinality(Held(data, S))
BY DEF Slots, Bytes, Held

\* The bytes under two disjoint sets of keys are those under the one and the other.
LEMMA HeldUnion ==
  ASSUME NEW d, NEW A, NEW B
  PROVE  /\ Held(d, A \union B) = Held(d, A) \union Held(d, B)
         /\ A \intersect B = {} => Held(d, A) \intersect Held(d, B) = {}
BY DEF Held

\* The bytes under a set of keys depend on the objects under these keys only.
LEMMA HeldAgree ==
  ASSUME NEW d, NEW e, NEW A, \A k \in A : d[k] = e[k]
  PROVE  Held(d, A) = Held(e, A)
BY DEF Held

\* An object has Nbytes bytes.
LEMMA HeldOne ==
  ASSUME NEW d, NEW k, d[k] \in Obj
  PROVE  /\ IsFiniteSet(Held(d, {k}))
         /\ Cardinality(Held(d, {k})) = Nbytes[d[k]]
<1> DEFINE n == Nbytes[d[k]]
<1>1. n \in Nat
  BY NbytesAssumption
<1> HIDE DEF n
<1>2. Held(d, {k}) = {k} \X (1 .. n)
  BY DEF Held, n
<1>3. IsFiniteSet(1 .. n) /\ Cardinality(1 .. n) = n
  <2>1. 1 \in Int /\ n \in Int
    BY <1>1
  <2>2. /\ IsFiniteSet(1 .. n)
        /\ Cardinality(1 .. n) = IF 1 > n THEN 0 ELSE n - 1 + 1
    BY <2>1, FS_Interval
  <2> QED
    BY <1>1, <2>2
<1>4. IsFiniteSet({k}) /\ Cardinality({k}) = 1
  BY FS_Singleton
<1>5. /\ IsFiniteSet({k} \X (1 .. n))
      /\ Cardinality({k} \X (1 .. n)) = 1 * n
  BY <1>3, <1>4, FS_Product
<1>6. 1 * n = n
  BY <1>1
<1>7. IsFiniteSet(Held(d, {k})) /\ Cardinality(Held(d, {k})) = n
  BY <1>2, <1>5, <1>6, Zenon
<1> QED
  BY <1>7 DEF n

\* Taking the keys B away takes their bytes away.
LEMMA HeldWithout ==
  ASSUME NEW d, NEW A, NEW B, B \subseteq A, IsFiniteSet(Held(d, A))
  PROVE  /\ IsFiniteSet(Held(d, A \ B)) /\ IsFiniteSet(Held(d, B))
         /\ Cardinality(Held(d, A)) \in Nat
         /\ Cardinality(Held(d, B)) \in Nat
         /\ Cardinality(Held(d, A \ B)) \in Nat
         /\ Cardinality(Held(d, A \ B)) = Cardinality(Held(d, A)) - Cardinality(Held(d, B))
<1>1. A = (A \ B) \union B /\ (A \ B) \intersect B = {}
  OBVIOUS
<1>2. /\ Held(d, A) = Held(d, A \ B) \union Held(d, B)
      /\ Held(d, A \ B) \intersect Held(d, B) = {}
  BY <1>1, HeldUnion
<1>3. IsFiniteSet(Held(d, A \ B)) /\ IsFiniteSet(Held(d, B))
  BY <1>2, FS_Subset
<1>4. /\ Cardinality(Held(d, B)) \in Nat
      /\ Cardinality(Held(d, A \ B)) \in Nat
      /\ Cardinality(Held(d, A)) = Cardinality(Held(d, A \ B)) + Cardinality(Held(d, B))
  BY <1>2, <1>3, DisjointUnion
<1> QED
  BY <1>3, <1>4

-----------------------------------------------------------------------------
(***************************************************************************)
(* The inductive invariant behind the accounting.  Accounting alone is not *)
(* inductive: the cardinalities add up only while the bytes are finitely   *)
(* many.                                                                   *)
(***************************************************************************)
ContentInv == /\ data \in [Key -> Obj \union {None}]
              /\ pinned \subseteq Key
              /\ IsFiniteSet(Slots(Resident))
              /\ Accounting
              /\ WithinCapacity

\* Dropping objects keeps the count right, and needs no more room.
LEMMA DropContent ==
  ASSUME ContentInv, NEW gone, gone \subseteq Resident, Drop(gone)
  PROVE  /\ data' \in [Key -> Obj \union {None}]
         /\ Resident' = Resident \ gone
         /\ IsFiniteSet(Slots(Resident))'
         /\ Accounting'
         /\ WithinCapacity'
<1>1. data' \in [Key -> Obj \union {None}]
  BY DEF ContentInv, Drop
<1>2. Resident' = Resident \ gone
  BY DEF ContentInv, Drop, Resident
<1>3. Held(data', Resident \ gone) = Held(data, Resident \ gone)
  <2>1. \A k \in Resident \ gone : data'[k] = data[k]
    BY DEF Drop, Resident
  <2> QED
    BY <2>1, HeldAgree
<1>4. IsFiniteSet(Held(data, Resident))
  BY SlotsAreHeld DEF ContentInv
<1>5. /\ IsFiniteSet(Held(data, Resident \ gone))
      /\ Cardinality(Held(data, Resident)) \in Nat
      /\ Cardinality(Held(data, gone)) \in Nat
      /\ Cardinality(Held(data, Resident \ gone)) =
            Cardinality(Held(data, Resident)) - Cardinality(Held(data, gone))
  BY <1>4, HeldWithout
<1>6. /\ Slots(Resident)' = Held(data, Resident \ gone)
      /\ Bytes(Resident)' = Cardinality(Held(data, Resident \ gone))
  BY <1>2, <1>3 DEF Slots, Bytes, Held
<1>7. used' = Cardinality(Held(data, Resident)) - Cardinality(Held(data, gone))
  BY SlotsAreHeld DEF ContentInv, Accounting, Drop
<1>8. Accounting'
  BY <1>5, <1>6, <1>7 DEF Accounting
<1>9. WithinCapacity'
  BY <1>5, <1>7, SlotsAreHeld, CapacityAssumption DEF ContentInv, Accounting, WithinCapacity
<1> QED
  BY <1>1, <1>2, <1>5, <1>6, <1>8, <1>9

\* The keys a put drops all hold an object.
LEMMA GoneResident ==
  ASSUME NEW k, NEW n
  PROVE  Replaced(k) \union Victims(k, n) \subseteq Resident
BY DEF Replaced, Victims, Evictable

\* A put that succeeds adds the bytes of its object to those that are left.
LEMMA StoredContent ==
  ASSUME ContentInv, NEW k \in Key, NEW o \in Obj, NEW p \in BOOLEAN, Stored(k, o, p)
  PROVE  ContentInv'
<1> DEFINE gone == Replaced(k) \union Victims(k, Nbytes[o])
           left == Resident \ gone
<1>1. gone \subseteq Resident
  BY GoneResident
<1>2. /\ Fits(Nbytes[o], gone)
      /\ data' = [j \in Key |-> IF j = k THEN o ELSE IF j \in gone THEN None ELSE data[j]]
      /\ used' = (used - Bytes(gone)) + Nbytes[o]
      /\ pinned' = IF p THEN pinned \union {k} ELSE pinned
  BY DEF Stored
<1> HIDE DEF gone
<1>3. k \notin left
  BY DEF gone, left, Replaced
<1>4. data' \in [Key -> Obj \union {None}] /\ pinned' \subseteq Key
  BY <1>2 DEF ContentInv
<1>5. Resident' = left \union {k}
  BY <1>2, <1>3, NoneAssumption DEF left, Resident, ContentInv
<1>6. Held(data', left) = Held(data, left)
  <2>1. \A j \in left : data'[j] = data[j]
    BY <1>2, <1>3 DEF left, Resident
  <2> QED
    BY <2>1, HeldAgree
<1>7. IsFiniteSet(Held(data, Resident))
  BY SlotsAreHeld DEF ContentInv
<1>8. /\ IsFiniteSet(Held(data, left))
      /\ Cardinality(Held(data, left)) \in Nat
      /\ Cardinality(Held(data, left)) =
            Cardinality(Held(data, Resident)) - Cardinality(Held(data, gone))
  BY <1>1, <1>7, HeldWithout DEF left
<1>9. /\ IsFiniteSet(Held(data', {k}))
      /\ Cardinality(Held(data', {k})) = Nbytes[o]
  BY <1>2, HeldOne
<1>10. /\ Held(data', left \union {k}) = Held(data', left) \union Held(data', {k})
       /\ Held(data', left) \intersect Held(data', {k}) = {}
  <2>1. left \intersect {k} = {}
    BY <1>3
  <2> HIDE DEF left
  <2> QED
    BY <2>1, HeldUnion
<1>11. Nbytes[o] \in Nat
  BY NbytesAssumption
<1>12. /\ IsFiniteSet(Held(data', left \union {k}))
       /\ Cardinality(Held(data', left \union {k})) =
             Cardinality(Held(data', left)) + Cardinality(Held(data', {k}))
  <2>1. IsFiniteSet(Held(data', left)) /\ IsFiniteSet(Held(data', {k}))
    BY <1>6, <1>8, <1>9
  <2>2. /\ IsFiniteSet(Held(data', left) \union Held(data', {k}))
        /\ Cardinality(Held(data', left) \union Held(data', {k})) =
              Cardinality(Held(data', left)) + Cardinality(Held(data', {k}))
    BY <1>10, <2>1, DisjointUnion
  <2> HIDE DEF left
  <2> QED
    BY <1>10, <2>2
<1>13. Cardinality(Held(data', left \union {k})) = Cardinality(Held(data, left)) + Nbytes[o]
  BY <1>6, <1>9, <1>12
<1>14. /\ Slots(Resident)' = Held(data', left \union {k})
       /\ Bytes(Resident)' = Cardinality(Held(data', left \union {k}))
  BY <1>5 DEF Slots, Bytes, Held
<1>15. /\ used = Cardinality(Held(data, Resident))
       /\ Bytes(gone) = Cardinality(Held(data, gone))
  BY SlotsAreHeld DEF ContentInv, Accounting
<1>16. used' = Cardinality(Held(data, left)) + Nbytes[o]
  BY <1>2, <1>8, <1>15
<1>17. Accounting'
  BY <1>13, <1>14, <1>16 DEF Accounting
<1>18. WithinCapacity'
  BY <1>2 DEF WithinCapacity, Fits
<1> QED
  BY <1>4, <1>12, <1>14, <1>17, <1>18 DEF ContentInv

\* A put that is refused only drops objects.
LEMMA RefusedContent ==
  ASSUME ContentInv, NEW k \in Key, NEW o \in Obj, Refused(k, o)
  PROVE  ContentInv'
<1> DEFINE gone == Replaced(k) \union Victims(k, Nbytes[o])
<1>1. gone \subseteq Resident
  BY GoneResident
<1>2. Drop(gone) /\ pinned' = pinned
  BY DEF Refused
<1> HIDE DEF gone
<1> QED
  BY <1>1, <1>2, DropContent DEF ContentInv

\* So does remove.
LEMMA RemoveContent ==
  ASSUME ContentInv, NEW k \in Key, Remove(k)
  PROVE  ContentInv'
<1>1. CASE k \in Resident /\ Drop({k}) /\ pinned' = pinned \ {k}
  BY <1>1, DropContent DEF ContentInv
<1>2. CASE UNCHANGED <<data, older, pinned, used>>
  BY <1>2 DEF ContentInv, Accounting, WithinCapacity, Slots, Bytes, Resident
<1> QED
  BY <1>1, <1>2 DEF Remove, Removed

\* A store that holds nothing.
LEMMA EmptyContent ==
  Empty => ContentInv /\ older = {} /\ Resident = {}
<1> SUFFICES ASSUME Empty PROVE ContentInv /\ older = {} /\ Resident = {}
  OBVIOUS
<1>1. data \in [Key -> Obj \union {None}] /\ pinned \subseteq Key
  BY DEF Empty
<1>2. Resident = {} /\ Slots(Resident) = {}
  BY DEF Empty, Resident, Slots
<1>3. IsFiniteSet(Slots(Resident)) /\ Bytes(Resident) = 0
  BY <1>2, FS_EmptySet DEF Bytes
<1>4. WithinCapacity
  BY CapacityAssumption DEF Empty, WithinCapacity
<1> QED
  BY <1>1, <1>2, <1>3, <1>4 DEF ContentInv, Accounting, Empty

\* The three facts that make ContentInv an invariant.
LEMMA ContentInvInductive ==
  /\ Init => ContentInv
  /\ ContentInv /\ [Next]_vars => ContentInv'
<1>1. Init => ContentInv
  BY EmptyContent DEF Init
<1>2. ContentInv /\ [Next]_vars => ContentInv'
  <2> SUFFICES ASSUME ContentInv, [Next]_vars PROVE ContentInv'
    OBVIOUS
  <2>1. ASSUME NEW k \in Key, NEW o \in Obj, NEW p \in BOOLEAN, Put(k, o, p)
        PROVE  ContentInv'
    BY <2>1, StoredContent, RefusedContent DEF Put
  <2>2. ASSUME NEW k \in Key, Remove(k)
        PROVE  ContentInv'
    BY <2>2, RemoveContent
  <2>3. ASSUME NEW k \in Key, Get(k) \/ PinKey(k) \/ UnpinKey(k)
        PROVE  ContentInv'
    <3>1. data' = data /\ used' = used /\ pinned' \subseteq Key
      BY <2>3 DEF Get, PinKey, UnpinKey, Touched, Pinned, Unpinned, ContentInv
    <3> QED
      BY <3>1 DEF ContentInv, Accounting, WithinCapacity, Slots, Bytes, Resident
  <2>4. CASE UNCHANGED vars
    BY <2>4 DEF vars, ContentInv, Accounting, WithinCapacity, Slots, Bytes, Resident
  <2> QED
    BY <2>1, <2>2, <2>3, <2>4 DEF Next
<1> QED
  BY <1>1, <1>2

\* ContentInv holds in every reachable state.
THEOREM ContentInvHolds == Spec => []ContentInv
<1>1. Init => ContentInv
  BY ContentInvInductive
<1>2. ContentInv /\ [Next]_vars => ContentInv'
  BY ContentInvInductive
<1> QED
  BY <1>1, <1>2, PTL DEF Spec

\* The count _used is the number of bytes held, whatever was replaced, evicted or
\* refused (cpu.py:41, 46, 66, 108).
THEOREM AccountingHolds == Spec => []Accounting
<1>1. ContentInv => Accounting
  BY DEF ContentInv
<1> QED
  BY <1>1, ContentInvHolds, PTL

\* The byte budget is never exceeded, between any two calls.
THEOREM WithinCapacityHolds == Spec => []WithinCapacity
<1>1. ContentInv => WithinCapacity
  BY DEF ContentInv
<1> QED
  BY <1>1, ContentInvHolds, PTL

-----------------------------------------------------------------------------
(***************************************************************************)
(* The type invariant, with the order of use.                              *)
(***************************************************************************)

\* r is a strict total order of S.
Orders(r, S) == /\ r \subseteq S \X S
                /\ \A a, b \in S : a # b => (<<a, b>> \in r <=> <<b, a>> \notin r)
                /\ \A a, b, c \in S : <<a, b>> \in r /\ <<b, c>> \in r => <<a, c>> \in r
                /\ \A a \in S : <<a, a>> \notin r

\* Forgetting keys leaves the others in order.
LEMMA OrderedAfterDrop ==
  ASSUME NEW r, NEW S, Orders(r, S), NEW gone
  PROVE  Orders({e \in r : e[1] \notin gone /\ e[2] \notin gone}, S \ gone)
BY DEF Orders

\* A key moved to the end comes after the ones that are kept.
LEMMA OrderedAfterMove ==
  ASSUME Orders(older, Resident), NEW S, S \subseteq Resident, NEW k, k \notin S
  PROVE  Orders(Newest(k, S), S \union {k})
<1> DEFINE r == Newest(k, S)
<1>1. \A a, b \in S : <<a, b>> \in r <=> <<a, b>> \in older
  BY DEF Newest
<1>2. \A a \in S : <<a, k>> \in r /\ <<k, a>> \notin r
  BY DEF Newest
<1>3. <<k, k>> \notin r
  BY DEF Newest
<1>4. r \subseteq (S \union {k}) \X (S \union {k})
  BY DEF Newest
<1> HIDE DEF r
<1>5. ASSUME NEW a \in S \union {k}, NEW b \in S \union {k}, a # b
      PROVE  <<a, b>> \in r <=> <<b, a>> \notin r
  BY <1>1, <1>2, <1>5 DEF Orders
<1>6. ASSUME NEW a \in S \union {k}, NEW b \in S \union {k}, NEW c \in S \union {k},
             <<a, b>> \in r, <<b, c>> \in r
      PROVE  <<a, c>> \in r
  <2>1. b # k
    BY <1>2, <1>3, <1>6
  <2>2. a # k
    BY <1>2, <1>6, <2>1
  <2> QED
    BY <1>1, <1>2, <1>6, <2>1, <2>2 DEF Orders
<1>7. ASSUME NEW a \in S \union {k}
      PROVE  <<a, a>> \notin r
  BY <1>1, <1>3 DEF Orders
<1>8. Orders(r, S \union {k})
  BY <1>4, <1>5, <1>6, <1>7 DEF Orders
<1> QED
  BY <1>8 DEF r

\* TypeOK is the order of use besides the shapes that ContentInv bounds.
LEMMA TypeParts ==
  ContentInv => (TypeOK <=> Orders(older, Resident))
<1>1. ASSUME ContentInv PROVE used \in Nat
  BY <1>1, FS_CardinalityType DEF ContentInv, Accounting, Bytes
<1> QED
  BY <1>1 DEF TypeOK, Orders, ContentInv

\* A put that succeeds moves its key to the end and forgets what it has dropped.
LEMMA StoredOrder ==
  ASSUME ContentInv, Orders(older, Resident), NEW k \in Key, NEW o \in Obj, NEW p, Stored(k, o, p)
  PROVE  Orders(older', Resident')
<1> DEFINE gone == Replaced(k) \union Victims(k, Nbytes[o])
<1>1. /\ data' = [j \in Key |-> IF j = k THEN o ELSE IF j \in gone THEN None ELSE data[j]]
      /\ older' = Newest(k, Resident \ (gone \union {k}))
  BY DEF Stored
<1> HIDE DEF gone
<1>2. Resident' = (Resident \ (gone \union {k})) \union {k}
  BY <1>1, NoneAssumption DEF Resident, ContentInv
<1>3. Orders(Newest(k, Resident \ (gone \union {k})), (Resident \ (gone \union {k})) \union {k})
  BY OrderedAfterMove
<1> QED
  BY <1>1, <1>2, <1>3

\* What is dropped is forgotten.
LEMMA DropOrder ==
  ASSUME Orders(older, Resident), NEW gone, Drop(gone)
  PROVE  Orders(older', Resident')
<1>1. Resident' = Resident \ gone
  BY DEF Drop, Resident
<1> QED
  BY <1>1, OrderedAfterDrop DEF Drop

\* A read moves its key to the end.
LEMMA TouchedOrder ==
  ASSUME Orders(older, Resident), NEW k, Touched(k)
  PROVE  Orders(older', Resident')
<1>1. Resident' = Resident
  BY DEF Touched, Resident
<1>2. CASE k \in Resident
  <2>1. Orders(Newest(k, Resident \ {k}), (Resident \ {k}) \union {k})
    BY OrderedAfterMove
  <2>2. (Resident \ {k}) \union {k} = Resident
    BY <1>2
  <2> QED
    BY <1>1, <1>2, <2>1, <2>2 DEF Touched
<1> QED
  BY <1>1, <1>2 DEF Touched

\* Both invariants together, for the store that TieredBackend makes of this one.
TierInv == ContentInv /\ Orders(older, Resident)

\* What each method does preserves TierInv, whatever else happens in the same step.
LEMMA TierEmpty ==
  Empty => TierInv
BY EmptyContent DEF TierInv, Orders

LEMMA TierStored ==
  ASSUME TierInv, NEW k \in Key, NEW o \in Obj, NEW p \in BOOLEAN, Stored(k, o, p)
  PROVE  TierInv'
<1>1. ContentInv'
  BY StoredContent DEF TierInv
<1>2. Orders(older', Resident')
  BY StoredOrder DEF TierInv
<1> QED
  BY <1>1, <1>2 DEF TierInv, Orders, Resident

LEMMA TierDrop ==
  ASSUME TierInv, NEW gone, gone \subseteq Resident, Drop(gone), pinned' \subseteq pinned
  PROVE  TierInv'
<1>1. ContentInv'
  BY DropContent DEF TierInv, ContentInv
<1>2. Orders(older', Resident')
  BY DropOrder DEF TierInv
<1> QED
  BY <1>1, <1>2 DEF TierInv, Orders, Resident

LEMMA TierTouched ==
  ASSUME TierInv, NEW k, Touched(k)
  PROVE  TierInv'
<1>1. ContentInv'
  BY DEF TierInv, Touched, ContentInv, Accounting, WithinCapacity, Slots, Bytes, Resident
<1>2. Orders(older', Resident')
  BY TouchedOrder DEF TierInv
<1> QED
  BY <1>1, <1>2 DEF TierInv, Orders, Resident

LEMMA TierKept ==
  ASSUME TierInv, UNCHANGED <<data, older, used>>, pinned' \subseteq Key
  PROVE  TierInv'
BY DEF TierInv, ContentInv, Accounting, WithinCapacity, Slots, Bytes, Resident, Orders

LEMMA TierType ==
  TierInv => TypeOK
BY TypeParts DEF TierInv

\* Every call leaves the keys that hold an object in order.
LEMMA NextKeepsOrder ==
  ASSUME ContentInv, Orders(older, Resident), [Next]_vars
  PROVE  Orders(older, Resident)'
<1>1. ASSUME NEW k \in Key, NEW o \in Obj, NEW p \in BOOLEAN, Put(k, o, p)
      PROVE  Orders(older', Resident')
  BY <1>1, StoredOrder, DropOrder DEF Put, Refused
<1>2. ASSUME NEW k \in Key, Get(k)
      PROVE  Orders(older', Resident')
  BY <1>2, TouchedOrder DEF Get
<1>3. ASSUME UNCHANGED <<data, older>>
      PROVE  Orders(older', Resident')
  BY <1>3 DEF Resident
<1>4. ASSUME NEW k \in Key, Remove(k)
      PROVE  Orders(older', Resident')
  BY <1>3, <1>4, DropOrder DEF Remove, Removed
<1>5. Orders(older', Resident')
  BY <1>1, <1>2, <1>3, <1>4 DEF Next, PinKey, UnpinKey, Pinned, Unpinned, vars
<1> QED
  BY <1>5 DEF Orders, Resident

\* Every variable keeps its shape, and the keys that hold an object are always in a
\* strict order of use: move_to_end, the evictions and the removals never lose one.
THEOREM TypeCorrect == Spec => []TypeOK
<1> DEFINE IInv == ContentInv /\ TypeOK
<1>1. Init => IInv
  BY ContentInvInductive DEF Init, Empty, TypeOK, Resident
<1>2. IInv /\ [Next]_vars => IInv'
  <2> SUFFICES ASSUME IInv, [Next]_vars PROVE IInv'
    OBVIOUS
  <2>1. ContentInv'
    BY ContentInvInductive
  <2>2. Orders(older, Resident)'
    BY TypeParts, NextKeepsOrder
  <2>3. used' \in Nat
    BY <2>1, FS_CardinalityType DEF ContentInv, Accounting, Bytes
  <2> QED
    BY <2>1, <2>2, <2>3 DEF TypeOK, Orders, ContentInv
<1>3. IInv => TypeOK
  OBVIOUS
<1> HIDE DEF IInv
<1> QED
  BY <1>1, <1>2, <1>3, PTL DEF Spec

-----------------------------------------------------------------------------
(***************************************************************************)
(* What a single step may do.                                              *)
(***************************************************************************)

\* A put never evicts a pinned object: the only key it can take out of the store
\* against a pin is its own, when it is refused.
LEMMA PutKeepsPinned ==
  ASSUME ContentInv, NEW k \in Key, NEW o \in Obj, NEW p \in BOOLEAN, Put(k, o, p),
         NEW j \in pinned \intersect Resident, j \notin Resident'
  PROVE  last'.key = j /\ last'.op = "put" /\ last'.res = "StorageFullError"
<1> DEFINE gone == Replaced(k) \union Victims(k, Nbytes[o])
<1>1. j \in gone => j = k
  BY DEF Replaced, Victims, Evictable
<1>2. j \in Key /\ data[j] # None
  BY DEF Resident
<1>3. CASE Stored(k, o, p)
  <2>1. data' = [i \in Key |-> IF i = k THEN o ELSE IF i \in gone THEN None ELSE data[i]]
    BY <1>3 DEF Stored
  <2> HIDE DEF gone
  <2>2. data'[j] # None
    BY <1>1, <1>2, <2>1, NoneAssumption
  <2> QED
    BY <1>2, <2>2 DEF Resident
<1>4. CASE Refused(k, o) /\ Returned("put", k, o, "StorageFullError")
  <2>1. /\ data' = [i \in Key |-> IF i \in gone THEN None ELSE data[i]]
        /\ last' = [op |-> "put", key |-> k, obj |-> o, res |-> "StorageFullError"]
    BY <1>4 DEF Refused, Drop, Returned
  <2> HIDE DEF gone
  <2>2. j = k
    BY <1>1, <1>2, <2>1 DEF Resident
  <2> QED
    BY <2>1, <2>2
<1> QED
  BY <1>3, <1>4 DEF Put

\* A pinned object goes only when remove is called on its key or a put on the same key
\* is refused: no other call can take it away.
THEOREM PinnedKept == Spec => PinnedKeptUntilRemoved
<1>1. ContentInv /\ [Next]_vars => [KeepsPinned]_vars
  <2> SUFFICES ASSUME ContentInv, Next, NEW j \in pinned \intersect Resident, j \notin Resident'
               PROVE  /\ last'.key = j
                      /\ \/ last'.op = "remove"
                         \/ last'.op = "put" /\ last'.res = "StorageFullError"
    BY DEF KeepsPinned
  <2>1. ASSUME NEW k \in Key, NEW o \in Obj, NEW p \in BOOLEAN, Put(k, o, p)
        PROVE  last'.key = j /\ last'.op = "put" /\ last'.res = "StorageFullError"
    BY <2>1, PutKeepsPinned
  <2>2. ASSUME NEW k \in Key, Remove(k)
        PROVE  last'.key = j /\ last'.op = "remove"
    <3>1. k \in Resident /\ Drop({k}) /\ last'.key = k /\ last'.op = "remove"
      BY <2>2 DEF Remove, Removed, Returned, Resident
    <3>2. j = k
      BY <3>1 DEF Drop, Resident
    <3> QED
      BY <3>1, <3>2
  <2>3. ASSUME NEW k \in Key, Get(k) \/ PinKey(k) \/ UnpinKey(k)
        PROVE  FALSE
    BY <2>3 DEF Get, PinKey, UnpinKey, Touched, Pinned, Unpinned, Resident
  <2> QED
    BY <2>1, <2>2, <2>3 DEF Next
<1> QED
  BY <1>1, ContentInvHolds, PTL DEF Spec, PinnedKeptUntilRemoved

-----------------------------------------------------------------------------
(***************************************************************************)
(* CPUBackend implements StorageBackend, with the objects as its content.  *)
(***************************************************************************)

\* put evicts only what the contract allows, and nothing when there is no capacity.
LEMMA PutImplements ==
  ASSUME ContentInv, NEW k \in Key, NEW o \in Obj, NEW p \in BOOLEAN, Put(k, o, p)
  PROVE  Abstract!Put(k, o, p)
<1> DEFINE gone == Replaced(k) \union Victims(k, Nbytes[o])
<1>1. gone \subseteq Resident
  BY GoneResident
<1>2. gone \ {k} \subseteq Abstract!Evictable
  <2>1. gone \ {k} \subseteq {j \in Key \ pinned : data[j] # None}
    BY DEF Replaced, Victims, Evictable, Resident
  <2>2. Capacity = None => gone \ {k} = {}
    BY DEF Replaced, Victims, Fits
  <2> QED
    BY <2>1, <2>2 DEF Abstract!Evictable
<1>3. CASE Stored(k, o, p) /\ Returned("put", k, o, "stored")
  <2>1. /\ data' = [i \in Key |-> IF i = k THEN o ELSE IF i \in gone THEN None ELSE data[i]]
        /\ pinned' = IF p THEN pinned \union {k} ELSE pinned
        /\ Returned("put", k, o, "stored")
    BY <1>3 DEF Stored
  <2> HIDE DEF gone
  <2>2. data' = [Abstract!Without(gone \ {k}) EXCEPT ![k] = o]
    BY <2>1 DEF Abstract!Without
  <2>3. Abstract!Stored(k, o, p)
    BY <1>2, <2>1, <2>2 DEF Abstract!Stored
  <2> QED
    BY <2>1, <2>3 DEF Abstract!Put, Abstract!Returned, Returned
<1>4. CASE Refused(k, o) /\ Returned("put", k, o, "StorageFullError")
  <2>1. /\ data' = [i \in Key |-> IF i \in gone THEN None ELSE data[i]]
        /\ pinned' = pinned
        /\ Returned("put", k, o, "StorageFullError")
        /\ Capacity # None
    BY <1>4 DEF Refused, Drop, Fits
  <2> HIDE DEF gone
  <2>2. Abstract!Refused(k)
    BY <1>2, <2>1 DEF Abstract!Refused, Abstract!Without
  <2> QED
    BY <2>1, <2>2 DEF Abstract!Put, Abstract!Returned, Returned
<1> QED
  BY <1>3, <1>4 DEF Put

\* The other calls do what the contract says of them.
LEMMA OthersImplement ==
  ASSUME ContentInv, NEW k \in Key
  PROVE  /\ Get(k) => Abstract!Get(k)
         /\ Remove(k) => Abstract!Remove(k)
         /\ PinKey(k) => Abstract!PinKey(k)
         /\ UnpinKey(k) => Abstract!UnpinKey(k)
<1>1. Get(k) => Abstract!Get(k)
  BY DEF Get, Touched, Returned, Abstract!Get, Abstract!Returned
<1>2. Remove(k) => Abstract!Remove(k)
  <2>1. Removed(k) => Abstract!Removed(k)
    <3>1. CASE k \in Resident /\ Drop({k}) /\ pinned' = pinned \ {k}
      BY <3>1 DEF Drop, Abstract!Removed, Abstract!Without
    <3>2. CASE k \notin Resident /\ UNCHANGED <<data, pinned>>
      <4>1. data[k] = None
        BY <3>2 DEF Resident
      <4>2. data' = Abstract!Without({k})
        BY <3>2, <4>1 DEF Abstract!Without, ContentInv
      <4> QED
        BY <3>2, <4>1, <4>2 DEF Abstract!Removed
    <3> QED
      BY <3>1, <3>2 DEF Removed
  <2>2. k \in Resident <=> data[k] # None
    BY DEF Resident
  <2> QED
    BY <2>1, <2>2 DEF Remove, Returned, Abstract!Remove, Abstract!Returned
<1>3. PinKey(k) => Abstract!PinKey(k)
  BY DEF PinKey, Pinned, Resident, Returned, Abstract!PinKey, Abstract!Pinned, Abstract!Returned
<1>4. UnpinKey(k) => Abstract!UnpinKey(k)
  BY DEF UnpinKey, Unpinned, Returned, Abstract!UnpinKey, Abstract!Unpinned, Abstract!Returned
<1> QED
  BY <1>1, <1>2, <1>3, <1>4

\* Every behaviour of the in-memory tier is one that the contract of base.py allows; with
\* capacity_bytes = None the contract is that nothing is ever evicted or refused.
THEOREM Refinement == Spec => ImplementsStorageBackend
<1>1. Init => Abstract!Init
  BY DEF Init, Empty, Abstract!Init, Abstract!Empty
<1>2. ContentInv /\ [Next]_vars => [Abstract!Next]_(Abstract!vars)
  <2> SUFFICES ASSUME ContentInv, [Next]_vars
               PROVE  Abstract!Next \/ UNCHANGED Abstract!vars
    OBVIOUS
  <2>1. ASSUME NEW k \in Key, NEW o \in Obj, NEW p \in BOOLEAN, Put(k, o, p)
        PROVE  Abstract!Next
    BY <2>1, PutImplements DEF Abstract!Next
  <2>2. ASSUME NEW k \in Key, Get(k) \/ Remove(k) \/ PinKey(k) \/ UnpinKey(k)
        PROVE  Abstract!Next
    BY <2>2, OthersImplement DEF Abstract!Next
  <2>3. CASE UNCHANGED vars
    BY <2>3 DEF vars, Abstract!vars
  <2> QED
    BY <2>1, <2>2, <2>3 DEF Next
<1>3. Spec => Abstract!Spec
  BY <1>1, <1>2, ContentInvHolds, PTL DEF Spec, Abstract!Spec
<1> QED
  BY <1>3 DEF ImplementsStorageBackend
-----------------------------------------------------------------------------
(***************************************************************************)
(* What is evicted.  The keys older than a victim that may be evicted are  *)
(* victims as well, so the victims are the first of the evictable keys.    *)
(***************************************************************************)
OlderThan(k, v) == {u \in Evictable(k) : <<u, v>> \in older}

\* More dropped is more room.
LEMMA FitsMore ==
  ASSUME ContentInv, NEW A, NEW B, A \subseteq B, B \subseteq Resident, NEW n \in Nat, Fits(n, A)
  PROVE  Fits(n, B)
<1>1. IsFiniteSet(Held(data, Resident))
  BY SlotsAreHeld DEF ContentInv
<1>2. IsFiniteSet(Held(data, B)) /\ Cardinality(Held(data, B)) \in Nat
      /\ Cardinality(Held(data, Resident)) \in Nat
  BY <1>1, HeldWithout
<1>3. /\ Cardinality(Held(data, A)) \in Nat /\ Cardinality(Held(data, B \ A)) \in Nat
      /\ Cardinality(Held(data, B \ A)) = Cardinality(Held(data, B)) - Cardinality(Held(data, A))
  BY <1>2, HeldWithout
<1>4. Bytes(A) \in Nat /\ Bytes(B) \in Nat /\ Bytes(A) <= Bytes(B)
  BY <1>2, <1>3, SlotsAreHeld
<1>5. used \in Nat
  BY <1>2, SlotsAreHeld DEF ContentInv, Accounting
<1> QED
  BY <1>4, <1>5, CapacityAssumption DEF Fits

\* What is dropped for an object is at most what may be, and what remains then is pinned.
LEMMA Unevictable ==
  ASSUME ContentInv, NEW k, NEW n \in Nat
  PROVE  Fits(n, Replaced(k) \union Evictable(k))
            <=> Capacity = None \/ Bytes((pinned \intersect Resident) \ {k}) + n <= Capacity
<1> DEFINE all == Replaced(k) \union Evictable(k)
<1>1. all \subseteq Resident /\ Resident \ all = (pinned \intersect Resident) \ {k}
  BY DEF Replaced, Evictable
<1>2. IsFiniteSet(Held(data, Resident))
  BY SlotsAreHeld DEF ContentInv
<1> HIDE DEF all
<1>3. /\ Cardinality(Held(data, Resident \ all)) = Cardinality(Held(data, Resident)) - Cardinality(Held(data, all))
      /\ Cardinality(Held(data, Resident)) \in Nat /\ Cardinality(Held(data, all)) \in Nat
  BY <1>1, <1>2, HeldWithout
<1>4. Bytes((pinned \intersect Resident) \ {k}) = used - Bytes(all)
  BY <1>1, <1>3, SlotsAreHeld DEF ContentInv, Accounting
<1> QED
  BY <1>4 DEF Fits, all

\* A victim takes the older evictable keys with it.
LEMMA OlderVictims ==
  ASSUME TierInv, NEW k, NEW n \in Nat, NEW u \in Evictable(k), NEW v \in Victims(k, n),
         <<u, v>> \in older
  PROVE  u \in Victims(k, n)
<1>1. OlderThan(k, u) \subseteq OlderThan(k, v)
  BY DEF TierInv, Orders, OlderThan, Victims, Evictable
<1>2. Replaced(k) \union OlderThan(k, v) \subseteq Resident
  BY DEF OlderThan, Evictable, Replaced
<1>3. ~TooBig(n) /\ ~Fits(n, Replaced(k) \union OlderThan(k, v))
  BY DEF Victims, OlderThan
<1>4. ~Fits(n, Replaced(k) \union OlderThan(k, u))
  BY <1>1, <1>2, <1>3, FitsMore DEF TierInv
<1> QED
  BY <1>3, <1>4 DEF Victims, OlderThan

-----------------------------------------------------------------------------
(***************************************************************************)
(* The object just used is the newest.                                     *)
(***************************************************************************)
NewestInv == \A k \in JustUsed : \A j \in Resident \ {k} : <<j, k>> \in older

LEMMA NewestStep ==
  ASSUME TierInv, NewestInv, [Next]_vars
  PROVE  NewestInv'
<1>1. ASSUME NEW k \in Key, NEW o \in Obj, NEW p \in BOOLEAN, Stored(k, o, p), Returned("put", k, o, "stored")
      PROVE  NewestInv'
  <2> DEFINE gone == Replaced(k) \union Victims(k, Nbytes[o])
  <2>1. /\ older' = Newest(k, Resident \ (gone \union {k}))
        /\ data' = [j \in Key |-> IF j = k THEN o ELSE IF j \in gone THEN None ELSE data[j]]
    BY <1>1 DEF Stored
  <2>2. JustUsed' = {k}
    BY <1>1 DEF Returned, JustUsed
  <2> HIDE DEF gone
  <2>3. Resident' \ {k} \subseteq Resident \ (gone \union {k})
    BY <2>1 DEF Resident
  <2> QED
    BY <2>1, <2>2, <2>3 DEF NewestInv, Newest
<1>2. ASSUME NEW k \in Key, Get(k) PROVE NewestInv'
  <2>1. JustUsed' \subseteq {k} /\ (JustUsed' # {} => k \in Resident) /\ Resident' = Resident
    BY <1>2 DEF Get, Returned, JustUsed, Resident, Touched
  <2>2. k \in Resident => older' = Newest(k, Resident \ {k})
    BY <1>2 DEF Get, Touched
  <2> QED
    BY <2>1, <2>2 DEF NewestInv, Newest
<1>3. ASSUME NEW k \in Key, NEW o \in Obj, Returned("put", k, o, "StorageFullError")
      PROVE  NewestInv'
  BY <1>3 DEF Returned, JustUsed, NewestInv
<1>4. ASSUME NEW k \in Key, Remove(k) \/ PinKey(k) \/ UnpinKey(k)
      PROVE  NewestInv'
  <2>1. last'.op \in {"remove", "pin", "unpin"}
    BY <1>4 DEF Remove, PinKey, UnpinKey, Returned
  <2>2. JustUsed' = {}
    BY <2>1 DEF JustUsed
  <2> QED
    BY <2>2 DEF NewestInv
<1>5. CASE UNCHANGED vars
  BY <1>5 DEF vars, NewestInv, JustUsed, Resident
<1> QED
  BY <1>1, <1>2, <1>3, <1>4, <1>5 DEF Next, Put

LEMMA NewestInit == Init => NewestInv
BY DEF Init, NewestInv, JustUsed

\* Both parts of TierInv.
LEMMA TierInductive ==
  /\ Init => TierInv
  /\ TierInv /\ [Next]_vars => TierInv'
BY ContentInvInductive, NextKeepsOrder, TierEmpty DEF TierInv, Init

\* What a put returns, and takes away.
LEMMA PutEffect ==
  ASSUME NEW k \in Key, NEW o \in Obj, NEW p \in BOOLEAN, Put(k, o, p)
  PROVE  /\ last'.op = "put" /\ last'.key = k /\ last'.obj = o
         /\ LET gone == Replaced(k) \union Victims(k, Nbytes[o])
            IN  /\ last'.res = "StorageFullError" <=> ~Fits(Nbytes[o], gone)
                /\ last'.res = "stored" => used' = (used - Bytes(gone)) + Nbytes[o]
         /\ Resident' \subseteq Resident \union {k}
         /\ Resident \ Resident' \subseteq Victims(k, Nbytes[o]) \union {k}
         /\ Resident' \intersect Victims(k, Nbytes[o]) = {}
<1> DEFINE gone == Replaced(k) \union Victims(k, Nbytes[o])
<1>1. k \notin Victims(k, Nbytes[o]) /\ gone \subseteq Victims(k, Nbytes[o]) \union {k}
      /\ Victims(k, Nbytes[o]) \subseteq gone
  BY DEF Victims, Evictable, Replaced
<1>2. CASE Stored(k, o, p) /\ Returned("put", k, o, "stored")
  <2>1. /\ data' = [j \in Key |-> IF j = k THEN o ELSE IF j \in gone THEN None ELSE data[j]]
        /\ last' = [op |-> "put", key |-> k, obj |-> o, res |-> "stored"]
        /\ Fits(Nbytes[o], gone) /\ used' = (used - Bytes(gone)) + Nbytes[o]
    BY <1>2 DEF Stored, Returned
  <2>2. last'.op = "put" /\ last'.key = k /\ last'.obj = o /\ last'.res = "stored"
    BY <2>1
  <2> HIDE DEF gone
  <2>3. /\ Resident' \subseteq Resident \union {k} /\ Resident \ Resident' \subseteq Victims(k, Nbytes[o]) \union {k}
        /\ Resident' \intersect Victims(k, Nbytes[o]) = {}
    BY <1>1, <2>1 DEF Resident
  <2> QED
    BY <2>1, <2>2, <2>3 DEF gone
<1>3. CASE Refused(k, o) /\ Returned("put", k, o, "StorageFullError")
  <2>1. /\ data' = [j \in Key |-> IF j \in gone THEN None ELSE data[j]]
        /\ last' = [op |-> "put", key |-> k, obj |-> o, res |-> "StorageFullError"]
        /\ ~Fits(Nbytes[o], gone)
    BY <1>3 DEF Refused, Drop, Returned
  <2>2. last'.op = "put" /\ last'.key = k /\ last'.obj = o /\ last'.res = "StorageFullError"
    BY <2>1
  <2> HIDE DEF gone
  <2>3. /\ Resident' \subseteq Resident \union {k} /\ Resident \ Resident' \subseteq Victims(k, Nbytes[o]) \union {k}
        /\ Resident' \intersect Victims(k, Nbytes[o]) = {}
    BY <1>1, <2>1 DEF Resident
  <2> QED
    BY <2>1, <2>2, <2>3 DEF gone
<1> QED
  BY <1>2, <1>3 DEF Put

\* The other calls are not puts.
LEMMA OtherCalls ==
  ASSUME Next, last'.op = "put"
  PROVE  \E k \in Key, o \in Obj, p \in BOOLEAN : Put(k, o, p)
BY DEF Next, Get, Remove, PinKey, UnpinKey, Returned

\* Least recently used first (move_to_end in put and get): a put takes away the object
\* used just before only together with every other one that is not pinned.
THEOREM LeastRecentlyUsedFirst == Spec => MostRecentlyUsedEvictedLast
<1> DEFINE A == \A k \in JustUsed :
                   last'.op = "put" /\ last'.key # k /\ k \in Resident /\ k \notin Resident'
                      => Resident' \subseteq pinned \union {last'.key}
<1>1. Init => TierInv /\ NewestInv
  BY TierInductive, NewestInit
<1>2. TierInv /\ NewestInv /\ [Next]_vars => TierInv' /\ NewestInv'
  BY TierInductive, NewestStep
<1>3. TierInv /\ NewestInv /\ [Next]_vars => [A]_vars
  <2> SUFFICES ASSUME TierInv, NewestInv, Next, NEW m \in JustUsed, last'.op = "put", last'.key # m,
                      m \in Resident, m \notin Resident', NEW u \in Resident', u # last'.key
               PROVE  u \in pinned
    OBVIOUS
  <2>1. PICK k \in Key, o \in Obj, p \in BOOLEAN : Put(k, o, p)
    BY OtherCalls
  <2>2. /\ last'.key = k
        /\ Resident' \subseteq Resident \union {k} /\ Resident \ Resident' \subseteq Victims(k, Nbytes[o]) \union {k}
        /\ Resident' \intersect Victims(k, Nbytes[o]) = {}
    BY <2>1, PutEffect
  <2>3. u \in Resident /\ u # k /\ m \in Victims(k, Nbytes[o]) /\ u \notin Victims(k, Nbytes[o]) /\ u # m
    BY <2>2
  <2>4. <<u, m>> \in older
    BY <2>3 DEF NewestInv
  <2>5. Nbytes[o] \in Nat
    BY NbytesAssumption
  <2>6. u \notin Evictable(k)
    BY <2>3, <2>4, <2>5, OlderVictims
  <2> QED
    BY <2>3, <2>6 DEF Evictable
<1>4. MostRecentlyUsedEvictedLast <=> [][A]_vars
  BY DEF MostRecentlyUsedEvictedLast
<1> HIDE DEF A
<1> QED
  BY <1>1, <1>2, <1>3, <1>4, PTL DEF Spec
-----------------------------------------------------------------------------
(***************************************************************************)
(* Puts that succeed, and puts that are refused.  Both need that a finite  *)
(* set of keys has an oldest and a newest one.                             *)
(***************************************************************************)

\* A finite set of keys in order has a first and a last.
LEMMA FirstAndLast ==
  ASSUME Orders(older, Resident), IsFiniteSet(Resident), NEW S, S \subseteq Resident, S # {}
  PROVE  /\ \E v \in S : \A u \in S \ {v} : <<v, u>> \in older
         /\ \E v \in S : \A u \in S \ {v} : <<u, v>> \in older
<1> DEFINE Before(v) == {u \in Resident : <<u, v>> \in older}
           After(v) == {u \in Resident : <<v, u>> \in older}
           R == StrictSubsetOrdering(Resident)
<1>1. IsWellFoundedOn(R, SUBSET Resident)
  BY FS_StrictSubsetOrderingWellFounded, FS_FiniteSubsetsOfFinite
<1>2. ASSUME NEW a \in Resident, NEW b \in Resident, <<a, b>> \in older
      PROVE  <<Before(a), Before(b)>> \in R /\ <<After(b), After(a)>> \in R
  <2>1. /\ Before(a) \subseteq Before(b) /\ a \in Before(b) /\ a \notin Before(a)
        /\ After(b) \subseteq After(a) /\ b \in After(a) /\ b \notin After(b)
    BY <1>2 DEF Orders
  <2>2. Before(a) # Before(b) /\ After(a) # After(b)
    BY <2>1
  <2>3. /\ Before(a) \in SUBSET Resident /\ Before(b) \in SUBSET Resident
        /\ After(a) \in SUBSET Resident /\ After(b) \in SUBSET Resident
    OBVIOUS
  <2> HIDE DEF Before, After
  <2> QED
    BY <2>1, <2>2, <2>3 DEF StrictSubsetOrdering
<1>3. \E v \in S : \A u \in S \ {v} : <<v, u>> \in older
  <2> DEFINE T == {Before(v) : v \in S}
  <2>1. T \subseteq SUBSET Resident /\ T # {}
    OBVIOUS
  <2> HIDE DEF R
  <2>2. \E x \in T : \A y \in T : ~ (<<y, x>> \in R)
    <3> HIDE DEF T
    <3> QED
      BY <1>1, <2>1, WFMin
  <2>3. PICK v \in S : \A u \in S : <<Before(u), Before(v)>> \notin R
    BY <2>2
  <2> HIDE DEF T, Before, After
  <2> QED
    BY <1>2, <2>3 DEF Orders
<1>4. \E v \in S : \A u \in S \ {v} : <<u, v>> \in older
  <2> DEFINE T == {After(v) : v \in S}
  <2>1. T \subseteq SUBSET Resident /\ T # {}
    OBVIOUS
  <2> HIDE DEF R
  <2>2. \E x \in T : \A y \in T : ~ (<<y, x>> \in R)
    <3> HIDE DEF T
    <3> QED
      BY <1>1, <2>1, WFMin
  <2>3. PICK v \in S : \A u \in S : <<After(u), After(v)>> \notin R
    BY <2>2
  <2> HIDE DEF T, Before, After
  <2> QED
    BY <1>2, <2>3 DEF Orders
<1> QED
  BY <1>3, <1>4

\* Only a put adds a key, its own.
LEMMA FinitelyHeld ==
  /\ Init => IsFiniteSet(Resident)
  /\ IsFiniteSet(Resident) /\ [Next]_vars => IsFiniteSet(Resident)'
<1>1. Init => IsFiniteSet(Resident)
  BY EmptyContent, FS_EmptySet DEF Init
<1>2. ASSUME IsFiniteSet(Resident), [Next]_vars PROVE IsFiniteSet(Resident')
  <2>1. \E k : Resident' \subseteq Resident \union {k}
    <3>1. ASSUME NEW k \in Key, Get(k) \/ PinKey(k) \/ UnpinKey(k) PROVE Resident' = Resident
      BY <3>1 DEF Get, PinKey, UnpinKey, Touched, Pinned, Unpinned, Resident
    <3>2. ASSUME NEW k \in Key, Remove(k) PROVE Resident' \subseteq Resident
      BY <3>2 DEF Remove, Removed, Drop, Resident
    <3>3. CASE UNCHANGED vars
      BY <3>3 DEF vars, Resident
    <3> QED
      BY <1>2, <3>1, <3>2, <3>3, PutEffect DEF Next
  <2>2. PICK k : Resident' \subseteq Resident \union {k}
    BY <2>1
  <2>3. IsFiniteSet(Resident \union {k})
    BY <1>2, FS_AddElement
  <2> QED
    BY <2>2, <2>3, FS_Subset
<1> QED
  BY <1>1, <1>2

\* The object under one key counts by itself.
LEMMA BytesOfOne ==
  ASSUME ContentInv, NEW A, A \subseteq Resident, NEW v \in A
  PROVE  /\ Bytes(A) \in Nat /\ Bytes(A \ {v}) \in Nat /\ Nbytes[data[v]] \in Nat
         /\ Bytes(A) = Bytes(A \ {v}) + Nbytes[data[v]]
<1>1. IsFiniteSet(Held(data, A))
  BY HeldWithout, SlotsAreHeld DEF ContentInv
<1>2. data[v] \in Obj
  BY DEF ContentInv, Resident
<1>3. Cardinality(Held(data, {v})) = Nbytes[data[v]] /\ Nbytes[data[v]] \in Nat
  BY <1>2, HeldOne, NbytesAssumption
<1>4. /\ Cardinality(Held(data, A \ {v})) = Cardinality(Held(data, A)) - Cardinality(Held(data, {v}))
      /\ Cardinality(Held(data, A)) \in Nat /\ Cardinality(Held(data, A \ {v})) \in Nat
  BY <1>1, HeldWithout
<1> QED
  BY <1>3, <1>4, SlotsAreHeld

\* With the newest victim still there the new object would not fit.
LEMMA NeedsVictims ==
  ASSUME TierInv, IsFiniteSet(Resident), NEW k \in Key, NEW o \in Obj, NEW p \in BOOLEAN,
         Put(k, o, p), last'.res = "stored"
  PROVE  LET evicted == (Resident \ Resident') \ {k}
         IN  evicted # {} => \E v \in evicted : used' + Nbytes[data[v]] > Capacity
<1> DEFINE n == Nbytes[o]
           gone == Replaced(k) \union Victims(k, n)
           evicted == (Resident \ Resident') \ {k}
<1> SUFFICES ASSUME evicted # {} PROVE \E v \in evicted : used' + Nbytes[data[v]] > Capacity
  OBVIOUS
<1>1. evicted = Victims(k, n) /\ k \notin Victims(k, n) /\ gone \subseteq Resident
  <2>1. k \notin Victims(k, n) /\ gone \subseteq Resident /\ Victims(k, n) \subseteq Resident
    BY GoneResident DEF Victims, Evictable
  <2>2. Resident \ Resident' \subseteq Victims(k, n) \union {k} /\ Resident' \intersect Victims(k, n) = {}
    BY PutEffect
  <2> QED
    BY <2>1, <2>2
<1>2. PICK v \in Victims(k, n) : \A u \in Victims(k, n) \ {v} : <<u, v>> \in older
  BY <1>1, FirstAndLast DEF TierInv
<1>3. n \in Nat
  BY NbytesAssumption
<1>4. ~Fits(n, Replaced(k) \union OlderThan(k, v))
  BY DEF Victims, OlderThan
<1>5. gone \ {v} \subseteq Replaced(k) \union OlderThan(k, v)
  BY <1>2 DEF OlderThan, Victims
<1>6. Replaced(k) \union OlderThan(k, v) \subseteq Resident
  BY DEF OlderThan, Evictable, Replaced
<1>7. ~Fits(n, gone \ {v})
  BY <1>3, <1>4, <1>5, <1>6, FitsMore DEF TierInv
<1>8. used' = (used - Bytes(gone)) + n
  BY PutEffect
<1>9. v \in gone
  OBVIOUS
<1> HIDE DEF gone, n, evicted
<1>10. /\ Bytes(gone) \in Nat /\ Bytes(gone \ {v}) \in Nat /\ Nbytes[data[v]] \in Nat
       /\ Bytes(gone) = Bytes(gone \ {v}) + Nbytes[data[v]]
  BY <1>1, <1>9, BytesOfOne DEF TierInv
<1>11. Capacity \in Nat /\ used - Bytes(gone \ {v}) + n > Capacity /\ used \in Nat
  <2>1. used \in Nat
    BY TypeParts DEF TierInv, TypeOK
  <2> QED
    BY <1>3, <1>7, <1>10, <2>1, CapacityAssumption DEF Fits
<1>12. used' + Nbytes[data[v]] > Capacity
  BY <1>3, <1>8, <1>10, <1>11
<1> QED
  BY <1>1, <1>12

\* Either there is room after the victims, or all that may be evicted is a victim: below
\* the first that is not, there is room.
LEMMA EvictedEnough ==
  ASSUME TierInv, IsFiniteSet(Resident), NEW k, NEW n \in Nat, ~TooBig(n)
  PROVE  \/ Fits(n, Replaced(k) \union Victims(k, n))
         \/ Victims(k, n) = Evictable(k)
<1> DEFINE spared == Evictable(k) \ Victims(k, n)
<1> SUFFICES ASSUME spared # {} PROVE Fits(n, Replaced(k) \union Victims(k, n))
  BY DEF Victims
<1>1. spared \subseteq Resident
  BY DEF Evictable
<1>2. PICK v \in spared : \A u \in spared \ {v} : <<v, u>> \in older
  BY <1>1, FirstAndLast DEF TierInv
<1>3. Fits(n, Replaced(k) \union OlderThan(k, v))
  BY DEF Victims, OlderThan
<1>4. OlderThan(k, v) \subseteq Victims(k, n)
  <2> SUFFICES ASSUME NEW u \in OlderThan(k, v) PROVE u \in Victims(k, n)
    OBVIOUS
  <2>1. u \in Evictable(k) /\ <<u, v>> \in older /\ u \in Resident /\ v \in Resident
    BY <1>1 DEF OlderThan, Evictable
  <2> QED
    BY <1>2, <2>1 DEF TierInv, Orders
<1> QED
  BY <1>3, <1>4, FitsMore, GoneResident DEF TierInv

\* A put is refused when and only when the pins leave no room.
LEMMA RefusedForPins ==
  ASSUME TierInv, IsFiniteSet(Resident), NEW k \in Key, NEW o \in Obj
  PROVE  ~Fits(Nbytes[o], Replaced(k) \union Victims(k, Nbytes[o])) <=> PinnedLeaveNoRoom(k, o)
<1> DEFINE n == Nbytes[o]
           gone == Replaced(k) \union Victims(k, n)
           all == Replaced(k) \union Evictable(k)
<1>1. n \in Nat
  BY NbytesAssumption
<1>2. gone \subseteq all /\ all \subseteq Resident
  BY DEF Victims, Evictable, Replaced
<1>3. Fits(n, all) <=> ~PinnedLeaveNoRoom(k, o)
  <2>1. Fits(n, all) <=> Capacity = None \/ Bytes((pinned \intersect Resident) \ {k}) + n <= Capacity
    BY <1>1, Unevictable DEF TierInv
  <2>2. Bytes((pinned \intersect Resident) \ {k}) \in Nat
    <3>1. IsFiniteSet(Held(data, Resident)) /\ (pinned \intersect Resident) \ {k} \subseteq Resident
      BY SlotsAreHeld DEF TierInv, ContentInv
    <3> QED
      BY <3>1, HeldWithout, SlotsAreHeld
  <2> QED
    BY <1>1, <2>1, <2>2, CapacityAssumption DEF PinnedLeaveNoRoom
<1>4. Fits(n, gone) => Fits(n, all)
  BY <1>1, <1>2, FitsMore DEF TierInv
<1>5. CASE ~TooBig(n)
  BY <1>1, <1>3, <1>4, <1>5, EvictedEnough
<1>6. CASE TooBig(n)
  <2>1. /\ Capacity # None /\ n > Capacity /\ pinned = {}
    BY <1>6 DEF TooBig
  <2>2. Bytes((pinned \intersect Resident) \ {k}) = 0
    BY <2>1, FS_EmptySet DEF Bytes, Slots
  <2>3. PinnedLeaveNoRoom(k, o)
    BY <1>1, <2>1, <2>2 DEF PinnedLeaveNoRoom
  <2> QED
    BY <1>3, <1>4, <2>3
<1> QED
  BY <1>5, <1>6

\* A put that succeeds evicts nothing it need not (the check at cpu.py:103 precedes each
\* pop): with the last of its victims the store would be over its budget.
THEOREM OnlyForRoom == Spec => EvictsOnlyForRoom
<1> DEFINE A == last'.op = "put" /\ last'.res = "stored" =>
                   LET evicted == (Resident \ Resident') \ {last'.key}
                   IN  evicted # {} => \E v \in evicted : used' + Nbytes[data[v]] > Capacity
<1>1. Init => TierInv /\ IsFiniteSet(Resident)
  BY TierInductive, FinitelyHeld
<1>2. TierInv /\ IsFiniteSet(Resident) /\ [Next]_vars => TierInv' /\ IsFiniteSet(Resident)'
  BY TierInductive, FinitelyHeld
<1>3. TierInv /\ IsFiniteSet(Resident) /\ [Next]_vars => [A]_vars
  <2> SUFFICES ASSUME TierInv, IsFiniteSet(Resident), Next, last'.op = "put", last'.res = "stored"
               PROVE  LET evicted == (Resident \ Resident') \ {last'.key}
                      IN  evicted # {} => \E v \in evicted : used' + Nbytes[data[v]] > Capacity
    OBVIOUS
  <2>1. PICK k \in Key, o \in Obj, p \in BOOLEAN : Put(k, o, p)
    BY OtherCalls
  <2>2. last'.key = k
    BY <2>1, PutEffect
  <2> QED
    BY <2>1, <2>2, NeedsVictims
<1>4. EvictsOnlyForRoom <=> [][A]_vars
  BY DEF EvictsOnlyForRoom
<1> HIDE DEF A
<1> QED
  BY <1>1, <1>2, <1>3, <1>4, PTL DEF Spec

\* "cannot free enough space: remaining objects are pinned" (cpu.py:111-114) is the truth:
\* a put is refused when, and only when, the pinned objects of other keys leave no room.
THEOREM OnlyPinsRefuse == Spec => RefusedWhenPinsLeaveNoRoom
<1> DEFINE A == last'.op = "put" =>
                   (last'.res = "StorageFullError" <=> PinnedLeaveNoRoom(last'.key, last'.obj))
<1>1. Init => TierInv /\ IsFiniteSet(Resident)
  BY TierInductive, FinitelyHeld
<1>2. TierInv /\ IsFiniteSet(Resident) /\ [Next]_vars => TierInv' /\ IsFiniteSet(Resident)'
  BY TierInductive, FinitelyHeld
<1>3. TierInv /\ IsFiniteSet(Resident) /\ [Next]_vars => [A]_vars
  <2> SUFFICES ASSUME TierInv, IsFiniteSet(Resident), Next, last'.op = "put"
               PROVE  last'.res = "StorageFullError" <=> PinnedLeaveNoRoom(last'.key, last'.obj)
    OBVIOUS
  <2>1. PICK k \in Key, o \in Obj, p \in BOOLEAN : Put(k, o, p)
    BY OtherCalls
  <2>2. /\ last'.key = k /\ last'.obj = o
        /\ last'.res = "StorageFullError" <=> ~Fits(Nbytes[o], Replaced(k) \union Victims(k, Nbytes[o]))
    BY <2>1, PutEffect
  <2> QED
    BY <2>2, RefusedForPins
<1>4. RefusedWhenPinsLeaveNoRoom <=> [][A]_vars
  BY DEF RefusedWhenPinsLeaveNoRoom
<1> HIDE DEF A
<1> QED
  BY <1>1, <1>2, <1>3, <1>4, PTL DEF Spec
=============================================================================
