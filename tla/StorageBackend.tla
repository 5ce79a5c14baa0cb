--------------------------- MODULE StorageBackend ---------------------------
(***************************************************************************)
(* What store/base.py promises of every store of KV objects: a map from    *)
(* keys to objects with a set of pins.  put may evict unpinned objects to  *)
(* make room and, when that is not enough, refuses (StorageFullError);     *)
(* remove takes an object away even if it is pinned.  Which objects are    *)
(* evicted, and when there is no room, is the implementation's business.   *)
(*                                                                         *)
(* CPUBackend implements this module call by call; DiskBackend and         *)
(* RedisBackend, whose calls take several steps, implement its effects     *)
(* (Contract); ExplicitKVCache is written over it.                         *)
(***************************************************************************)
CONSTANTS Key,       \* the ChunkKeys
          Obj,       \* the KVPayloads
          None,      \* Python's None: no object
          Bounded,   \* TRUE iff the store has a capacity
          Lossy      \* TRUE iff unpinned objects may vanish by themselves (key_ttl)

VARIABLES content,   \* the object held under each key, or None
          pinned,    \* the keys marked as pinned
          last       \* the call that returned last, with its result

vars == <<content, pinned, last>>

Empty == content = [k \in Key |-> None] /\ pinned = {}

Init == /\ Empty
        /\ last = [op |-> "init", key |-> None, obj |-> None, res |-> None]

Returned(op, k, o, res) == last' = [op |-> op, key |-> k, obj |-> o, res |-> res]

(***************************************************************************)
(* The effect of each operation on the objects and the pins, without the   *)
(* record of the call.                                                     *)
(***************************************************************************)
Without(gone) == [j \in Key |-> IF j \in gone THEN None ELSE content[j]]

\* A store with a capacity may evict any of the objects that are not pinned.
Evictable == IF Bounded THEN {j \in Key \ pinned : content[j] # None} ELSE {}

\* put that returns.  Whether an earlier pin of the key outlives a put that does not ask
\* for one is open: it does in memory and on disk, and does not in Redis.
Stored(k, o, p) ==
    /\ \E gone \in SUBSET (Evictable \ {k}) :
         content' = [Without(gone) EXCEPT ![k] = o]
    /\ pinned' \in IF p THEN {pinned \union {k}} ELSE {pinned, pinned \ {k}}

\* put that raises StorageFullError: the object the key held before may be lost.
Refused(k) ==
    /\ Bounded
    /\ \E gone \in SUBSET (Evictable \union {k}) : content' = Without(gone)
    /\ pinned' = pinned

\* remove, "even if pinned"; what becomes of the pin of an absent key is open.
Removed(k) ==
    /\ content' = Without({k})
    /\ \/ pinned' = pinned \ {k}
       \/ content[k] = None /\ pinned' = pinned

\* pin of an absent key may or may not be remembered.
Pinned(k) ==
    /\ \/ pinned' = pinned \union {k}
       \/ content[k] = None /\ pinned' = pinned
    /\ content' = content

Unpinned(k) == /\ pinned' = pinned \ {k}
               /\ content' = content

\* An object nobody has pinned vanishes: the ttl of its key has run out.
Lost(k) == /\ Lossy /\ k \notin pinned
           /\ content' = Without({k})
           /\ pinned' = pinned

\* What may happen to a store, whoever calls it and however its calls overlap.
Effect(k) == \/ \E o \in Obj, p \in BOOLEAN : Stored(k, o, p)
             \/ Refused(k) \/ Removed(k) \/ Pinned(k) \/ Unpinned(k) \/ Lost(k)

Contract == Empty /\ [][\E k \in Key : Effect(k)]_<<content, pinned>>

(***************************************************************************)
(* The specification of a store whose every call is one step.              *)
(***************************************************************************)
Put(k, o, p) == \/ Stored(k, o, p) /\ Returned("put", k, o, "stored")
                \/ Refused(k) /\ Returned("put", k, o, "StorageFullError")

Get(k) == /\ UNCHANGED <<content, pinned>>
          /\ Returned("get", k, None, content[k])

Remove(k) == /\ Removed(k)
             /\ Returned("remove", k, None, IF content[k] = None THEN "absent" ELSE "removed")

PinKey(k) == Pinned(k) /\ Returned("pin", k, None, None)

UnpinKey(k) == Unpinned(k) /\ Returned("unpin", k, None, None)

Next == \E k \in Key : \/ \E o \in Obj, p \in BOOLEAN : Put(k, o, p)
                       \/ Get(k)
                       \/ Remove(k)
                       \/ PinKey(k)
                       \/ UnpinKey(k)
                       \/ Lost(k) /\ UNCHANGED last

Spec == Init /\ [][Next]_vars
=============================================================================
