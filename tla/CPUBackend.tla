----------------------------- MODULE CPUBackend -----------------------------
(***************************************************************************)
(* The in-memory tier, store/cpu.py: an OrderedDict kept in order of use,  *)
(* a set of pinned keys and a running count of the bytes held.  Every      *)
(* method runs under one lock, so a call is one step.  The on_evict        *)
(* callback of TieredBackend is not set here: an evicted object is dropped.*)
(***************************************************************************)
EXTENDS Integers, FiniteSets

CONSTANTS Key,        \* the ChunkKeys
          Obj,        \* the KVPayloads
          None,       \* Python's None
          Nbytes,     \* KVPayload.nbytes of each object
          Capacity    \* capacity_bytes: a byte budget, or None

ASSUME NoneAssumption == None \notin Obj
ASSUME NbytesAssumption == Nbytes \in [Obj -> Nat]
ASSUME CapacityAssumption == Capacity \in Nat \/ Capacity = None

VARIABLES data,       \* self._data: the object under each key, or None
          older,      \* the order of self._data: <<a, b>> when a comes before b
          pinned,     \* self._pinned
          used,       \* self._used
          last        \* the call that returned last, with its result

vars == <<data, older, pinned, used, last>>

Resident == {k \in Key : data[k] # None}

\* The bytes of the objects held under the keys S, one by one, and their number.
Slots(S) == UNION {{k} \X (1 .. Nbytes[data[k]]) : k \in S}
Bytes(S) == Cardinality(Slots(S))

Empty == data = [k \in Key |-> None] /\ older = {} /\ pinned = {} /\ used = 0

(***************************************************************************)
(* put.  The object the key held is dropped first; then _ensure_room walks *)
(* the other keys from the least recently used one and evicts those that   *)
(* are not pinned until the new object fits.  A key is therefore evicted   *)
(* exactly when evicting everything older than it is not enough.           *)
(***************************************************************************)
Replaced(k) == Resident \intersect {k}

\* Mutant: pins are not looked at.
Evictable_IgnoringPins(k) == Resident \ {k}

Evictable(k) == Resident \ (pinned \union {k})

\* Mutant: the incoming object is not counted.
Fits_WithoutIncoming(n, gone) == Capacity = None \/ used - Bytes(gone) <= Capacity

Fits(n, gone) == Capacity = None \/ used - Bytes(gone) + n <= Capacity

\* The object is larger than the whole store: refused before anything is evicted,
\* but only while nothing is pinned.
TooBig(n) == Capacity # None /\ n > Capacity /\ pinned = {}

\* Mutants: at most the oldest object is evicted; everything is, once there is no room.
Victims_OnlyOldest(k, n) ==
    {v \in Evictable(k) : /\ ~TooBig(n) /\ ~Fits(n, Replaced(k))
                          /\ \A u \in Evictable(k) : <<u, v>> \notin older}
Victims_All(k, n) == {v \in Evictable(k) : ~TooBig(n) /\ ~Fits(n, Replaced(k))}

Victims(k, n) ==
    {v \in Evictable(k) :
        /\ ~TooBig(n)
        /\ ~Fits(n, Replaced(k) \union {u \in Evictable(k) : <<u, v>> \in older})}

\* Mutant: the bytes dropped stay counted.
Drop_KeepsCount(gone) == /\ data' = [j \in Key |-> IF j \in gone THEN None ELSE data[j]]
                         /\ older' = {e \in older : e[1] \notin gone /\ e[2] \notin gone}
                         /\ used' = used

Drop(gone) == /\ data' = [j \in Key |-> IF j \in gone THEN None ELSE data[j]]
              /\ older' = {e \in older : e[1] \notin gone /\ e[2] \notin gone}
              /\ used' = used - Bytes(gone)

\* Mutant: the key keeps its old place as well.
Newest_NotMoved(k, S) == older \union (S \X {k})

\* Move k behind the keys S, which keep their order.
Newest(k, S) == (older \intersect (S \X S)) \union (S \X {k})

Stored(k, o, p) ==
    LET gone == Replaced(k) \union Victims(k, Nbytes[o])
    IN  /\ Fits(Nbytes[o], gone)
        /\ data' = [j \in Key |-> IF j = k THEN o
                                  ELSE IF j \in gone THEN None ELSE data[j]]
        /\ older' = Newest(k, Resident \ (gone \union {k}))
        /\ used' = (used - Bytes(gone)) + Nbytes[o]
        /\ pinned' = IF p THEN pinned \union {k} ELSE pinned

\* StorageFullError: what was dropped and evicted stays so, the pin of the key too.
Refused(k, o) ==
    LET gone == Replaced(k) \union Victims(k, Nbytes[o])
    IN  /\ ~Fits(Nbytes[o], gone)
        /\ Drop(gone)
        /\ UNCHANGED pinned

(***************************************************************************)
(* The effect of the other operations.                                     *)
(***************************************************************************)

\* Mutant: a read does not count as use.
Touched_NoMove(k) == UNCHANGED <<data, older, pinned, used>>

Touched(k) == /\ older' = IF k \in Resident THEN Newest(k, Resident \ {k}) ELSE older
              /\ UNCHANGED <<data, pinned, used>>

\* Mutant: the pin outlives the object.
Removed_KeepsPin(k) == k \in Resident /\ Drop({k}) /\ UNCHANGED pinned

\* A key that holds nothing keeps the pin it may have.
Removed(k) == \/ k \in Resident /\ Drop({k}) /\ pinned' = pinned \ {k}
              \/ k \notin Resident /\ UNCHANGED <<data, older, pinned, used>>

Pinned(k) == /\ pinned' = IF k \in Resident THEN pinned \union {k} ELSE pinned
             /\ UNCHANGED <<data, older, used>>

Unpinned(k) == /\ pinned' = pinned \ {k}
               /\ UNCHANGED <<data, older, used>>

(***************************************************************************)
(* The store on its own: every call, with what it returns or raises.       *)
(***************************************************************************)
Returned(op, k, o, res) == last' = [op |-> op, key |-> k, obj |-> o, res |-> res]

Init == Empty /\ last = [op |-> "init", key |-> None, obj |-> None, res |-> None]

Put(k, o, p) == \/ Stored(k, o, p) /\ Returned("put", k, o, "stored")
                \/ Refused(k, o) /\ Returned("put", k, o, "StorageFullError")

Get(k) == Touched(k) /\ Returned("get", k, None, data[k])

Remove(k) == /\ Removed(k)
             /\ Returned("remove", k, None, IF k \in Resident THEN "removed" ELSE "absent")

PinKey(k) == Pinned(k) /\ Returned("pin", k, None, None)

UnpinKey(k) == Unpinned(k) /\ Returned("unpin", k, None, None)

Next == \E k \in Key : \/ \E o \in Obj, p \in BOOLEAN : Put(k, o, p)
                       \/ Get(k)
                       \/ Remove(k)
                       \/ PinKey(k)
                       \/ UnpinKey(k)

Spec == Init /\ [][Next]_vars

-----------------------------------------------------------------------------
(***************************************************************************)
(* Properties.                                                             *)
(***************************************************************************)

\* Every variable has its shape: the order of use is a strict total order of the
\* keys that hold an object (the keys of the OrderedDict, cpu.py:33).
TypeOK ==
    /\ data \in [Key -> Obj \union {None}]
    /\ older \subseteq Resident \X Resident
    /\ \A a, b \in Resident : a # b => (<<a, b>> \in older <=> <<b, a>> \notin older)
    /\ \A a, b, c \in Resident : <<a, b>> \in older /\ <<b, c>> \in older => <<a, c>> \in older
    /\ \A a \in Resident : <<a, a>> \notin older
    /\ pinned \subseteq Key
    /\ used \in Nat

\* The running count _used, updated piecemeal by put, remove and _ensure_room, is
\* the number of bytes held, whatever was replaced, evicted or refused before.
Accounting == used = Bytes(Resident)

\* The store never holds more than capacity_bytes, also after a put that raised.
WithinCapacity == Capacity # None => used <= Capacity

\* A pinned object leaves the store only when remove is called on its key, or when
\* a put on the same key, which drops the old object first (cpu.py:40-43), is refused.
KeepsPinned == \A k \in pinned \intersect Resident :
                  k \notin Resident' =>
                     /\ last'.key = k
                     /\ \/ last'.op = "remove"
                        \/ last'.op = "put" /\ last'.res = "StorageFullError"

PinnedKeptUntilRemoved == [][KeepsPinned]_vars

\* put is refused exactly when the pinned objects of the other keys leave no room for
\* the object: never while evicting unpinned objects would do ("cannot free enough
\* space: remaining objects are pinned", cpu.py:111-114).
PinnedLeaveNoRoom(k, o) ==
    Capacity # None /\ Bytes((pinned \intersect Resident) \ {k}) + Nbytes[o] > Capacity

RefusedWhenPinsLeaveNoRoom ==
    [][last'.op = "put" =>
          (last'.res = "StorageFullError" <=> PinnedLeaveNoRoom(last'.key, last'.obj))]_vars

\* Least recently used first: the object that the call before stored or read is evicted
\* only together with every other object that may be (move_to_end in put and get).
JustUsed == IF \/ last.op = "put" /\ last.res = "stored"
               \/ last.op = "get" /\ last.res # None
            THEN {last.key} ELSE {}

MostRecentlyUsedEvictedLast ==
    [][\A k \in JustUsed :
          last'.op = "put" /\ last'.key # k /\ k \in Resident /\ k \notin Resident'
             => Resident' \subseteq pinned \union {last'.key}]_vars

\* A put that succeeds evicts no object it need not: with the last one evicted still
\* there, the store would be over its budget (the check at cpu.py:103 precedes each pop).
EvictsOnlyForRoom ==
    [][last'.op = "put" /\ last'.res = "stored" =>
          LET evicted == (Resident \ Resident') \ {last'.key}
          IN  evicted # {} => \E v \in evicted : used' + Nbytes[data[v]] > Capacity]_vars

\* The contract of StorageBackend holds of this store, call by call.
Abstract == INSTANCE StorageBackend
              WITH content <- data, Bounded <- (Capacity # None), Lossy <- FALSE

ImplementsStorageBackend == Abstract!Spec
=============================================================================
