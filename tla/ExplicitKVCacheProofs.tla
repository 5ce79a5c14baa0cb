------------------------ MODULE ExplicitKVCacheProofs ------------------------
(***************************************************************************)
(* Proofs about ExplicitKVCache, for every set of threads, ids, prompts    *)
(* and shards and any number of registrations.                             *)
(***************************************************************************)
EXTENDS ExplicitKVCache, FiniteSetTheorems, TLAPS

-----------------------------------------------------------------------------
(***************************************************************************)
(* The keys of a cache, as a set.                                          *)
(***************************************************************************)
KeySet(c, n, shards) == {c} \X (1 .. n) \X (1 .. shards)
KeysetOf(d) == KeySet(d.cid, Len(d.prompt), d.shards)

\* Quotient and remainder, as Python's // and % give them for indices.
LEMMA DivMod ==
  ASSUME NEW n \in Nat \ {0}, NEW m \in Nat
  PROVE  m % n \in 0 .. n - 1 /\ m \div n \in Nat /\ m = n * (m \div n) + (m % n)
OBVIOUS

LEMMA Quotient ==
  ASSUME NEW n \in Nat \ {0}, NEW q \in Nat, NEW r \in 0 .. n - 1
  PROVE  (n * q + r) % n = r /\ (n * q + r) \div n = q
OBVIOUS

\* The two nested loops visit every chunk of every worker.
LEMMA ChunkKeysAre ==
  ASSUME NEW c, NEW n \in Nat \ {0}, NEW shards \in Nat \ {0}
  PROVE  /\ ChunkKeys(c, n, shards) \in Seq(KeySet(c, n, shards)) \ {<<>>}
         /\ \A k \in KeySet(c, n, shards) :
               \E j \in DOMAIN ChunkKeys(c, n, shards) : ChunkKeys(c, n, shards)[j] = k
<1>1. n * shards \in Nat \ {0}
  OBVIOUS
<1>2. ASSUME NEW j \in 1 .. n * shards PROVE ChunkKeys(c, n, shards)[j] \in KeySet(c, n, shards)
  <2>1. j \in Int /\ 1 <= j /\ j <= n * shards /\ j - 1 \in Nat
    BY <1>1
  <2> DEFINE q == (j - 1) \div n
  <2>2. (j - 1) % n \in 0 .. n - 1 /\ q \in Nat /\ j - 1 = n * q + ((j - 1) % n)
    BY <2>1, DivMod
  <2>3. q < shards
    <3>1. n * q < n * shards
      BY <1>1, <2>1, <2>2
    <3> HIDE DEF q
    <3> QED
      BY <2>2, <3>1
  <2> QED
    BY <2>1, <2>2, <2>3 DEF ChunkKeys, KeySet
<1>3. ASSUME NEW i \in 1 .. n, NEW w \in 1 .. shards
      PROVE  \E j \in 1 .. n * shards : ChunkKeys(c, n, shards)[j] = <<c, i, w>>
  <2> DEFINE j == n * (w - 1) + (i - 1) + 1
  <2>1. /\ w - 1 \in Nat /\ i - 1 \in 0 .. n - 1 /\ n * (w - 1) \in Nat
        /\ w - 1 <= shards - 1
    OBVIOUS
  <2>2. n * (w - 1) <= n * (shards - 1)
    BY <2>1
  <2>3. n * (shards - 1) = n * shards - n
    OBVIOUS
  <2>4. j \in 1 .. n * shards
    BY <1>1, <2>1, <2>2, <2>3
  <2>5. j - 1 = n * (w - 1) + (i - 1)
    BY <2>1
  <2>6. (j - 1) % n = i - 1 /\ (j - 1) \div n = w - 1
    BY <2>1, <2>5, Quotient
  <2> HIDE DEF j
  <2> QED
    BY <2>4, <2>6 DEF ChunkKeys
<1> DEFINE keys == ChunkKeys(c, n, shards)
<1>4. DOMAIN keys = 1 .. n * shards
  BY DEF ChunkKeys
<1>5. keys = [j \in 1 .. n * shards |-> keys[j]]
  BY DEF ChunkKeys
<1> HIDE DEF keys
<1>6. keys \in Seq(KeySet(c, n, shards))
  BY <1>1, <1>2, <1>5 DEF keys
<1>7. keys # <<>>
  BY <1>1, <1>4
<1>8. ASSUME NEW k \in KeySet(c, n, shards) PROVE \E j \in DOMAIN keys : keys[j] = k
  <2>1. PICK i \in 1 .. n, w \in 1 .. shards : k = <<c, i, w>>
    BY DEF KeySet
  <2> QED
    BY <1>3, <1>4, <2>1 DEF keys
<1> QED
  BY <1>6, <1>7, <1>8 DEF keys

-----------------------------------------------------------------------------
(***************************************************************************)
(* The type invariant.  Fits says what a call carries at each of its       *)
(* steps; it is a condition on the descriptors built so far, which only    *)
(* grow.                                                                   *)
(***************************************************************************)
Fetching == {"get", "reuse", "load", "extend_ttl", "pin", "unpin"}
Labels == {"idle", "put", "fetch", "check", "load", "extend", "pin", "pop", "remove", "next"}

Calling == [at : Labels, op : Operation \union {"none"}, cid : CacheId \union {None},
            prompt : Seq(Chunk) \union {None}, shards : Nat, pin : BOOLEAN,
            ttl : {"none", "some", "invalid"}, desc : Nat, count : Nat \union {-1},
            todo : Seq(Key), out : Seq(Obj \union {None}), rest : SUBSET CacheId]

Fits(call) ==
    /\ call \in Calling
    /\ call.desc \in 0 .. Len(descs)
    /\ call.desc # 0 => call.op \in Fetching /\ descs[call.desc].cid = call.cid
    /\ call.at \notin {"idle", "next"} => call.cid \in CacheId
    /\ call.op = "register" <=> call.at = "put"
    /\ call.at = "put" => /\ call.prompt \in PromptsOf[call.cid] /\ call.shards \in ShardCounts
                          /\ call.todo \in Seq(KeySet(call.cid, Len(call.prompt), call.shards))
    /\ call.op \in {"reuse", "load"} => call.shards \in Worker
    /\ call.at = "fetch" => call.op \in Fetching
    /\ call.at = "check" => call.op \in Fetching /\ call.desc # 0
    /\ call.at = "load" => call.op \in {"reuse", "load"}
    /\ call.at = "extend" => call.op = "extend_ttl" /\ call.desc # 0
    /\ call.at = "pin" => /\ call.op \in {"pin", "unpin"} /\ call.desc # 0 /\ call.todo # <<>>
                          /\ call.todo \in Seq(KeysetOf(descs[call.desc]))
    /\ call.at \in {"pop", "remove"} => call.op \in Fetching \union {"delete", "sweep"}
    /\ call.at = "remove" => call.todo # <<>>
    /\ call.at = "next" => call.op = "sweep"

CallsFit == DOMAIN proc = Thread /\ \A t \in Thread : Fits(proc[t])

DescsInv == /\ descs \in Seq(Descriptor)
            /\ \A d \in DOMAIN descs : descs[d].prompt \in PromptsOf[descs[d].cid]
            /\ table \in [CacheId -> 0 .. Len(descs)]
            /\ \A c \in Published : descs[table[c]].cid = c

StoreInv == content \in [Key -> Obj \union {None}] /\ kept \subseteq Key

BoundInv == /\ IsFiniteSet(Registering)
            /\ Len(descs) + Cardinality(Registering) <= MaxRegistrations

TypeInv == CallsFit /\ DescsInv /\ StoreInv /\ BoundInv

\* Descriptors are added, and what a call has read of the old ones stays true.
DescsGrow == /\ Len(descs') >= Len(descs)
             /\ \A d \in DOMAIN descs : /\ descs'[d].cid = descs[d].cid
                                        /\ descs'[d].prompt = descs[d].prompt
                                        /\ descs'[d].shards = descs[d].shards

\* A prompt that may be registered, its length and its chunks.
LEMMA PromptFacts ==
  ASSUME NEW c \in CacheId, NEW p \in PromptsOf[c]
  PROVE  /\ p \in Prompt /\ p \in Seq(Chunk) /\ Len(p) \in Nat \ {0}
         /\ 1 .. Len(p) \subseteq Index
         /\ \A i \in 1 .. Len(p) : Payload(p, i) \in Obj /\ Payload(p, i) # None
<1>1. p \in Prompt
  BY DEF Prompt
<1>2. p \in Seq(Chunk) /\ p # <<>>
  BY PromptsAssumption
<1>3. Len(p) \in Nat \ {0} /\ DOMAIN p = 1 .. Len(p)
  BY <1>2
<1>4. 1 .. Len(p) \subseteq Index
  BY <1>1, <1>3 DEF Index
<1>5. \A i \in 1 .. Len(p) : Payload(p, i) \in Obj
  BY <1>1, <1>3 DEF Obj
<1> QED
  BY <1>1, <1>2, <1>3, <1>4, <1>5, NoneIsNoPayload

\* The keys of a cache are keys of the store.
LEMMA KeysetFacts ==
  ASSUME NEW c \in CacheId, NEW p \in PromptsOf[c], NEW n \in ShardCounts
  PROVE  KeySet(c, Len(p), n) \subseteq Key
<1>1. 1 .. Len(p) \subseteq Index
  BY PromptFacts
<1>2. 1 .. n \subseteq Worker
  BY DEF Worker
<1> QED
  BY <1>1, <1>2 DEF KeySet, Key

LEMMA KeysOfFacts ==
  ASSUME NEW d \in Descriptor, d.prompt \in PromptsOf[d.cid]
  PROVE  /\ KeysOf(d) \in Seq(KeysetOf(d)) \ {<<>>}
         /\ KeysOf(d) \in Seq(Key)
         /\ KeysetOf(d) \subseteq Key
         /\ \A k \in KeysetOf(d) : \E j \in DOMAIN KeysOf(d) : KeysOf(d)[j] = k
<1>1. d.cid \in CacheId /\ d.shards \in ShardCounts /\ d.shards \in Nat \ {0}
  BY ShardsAssumption DEF Descriptor
<1>2. Len(d.prompt) \in Nat \ {0}
  BY <1>1, PromptFacts
<1>3. KeysetOf(d) \subseteq Key
  BY <1>1, KeysetFacts DEF KeysetOf
<1> QED
  BY <1>1, <1>2, <1>3, ChunkKeysAre DEF KeysOf, KeysetOf

\* What a call carries stays true while descriptors are added.
LEMMA FitsStays ==
  ASSUME DescsInv, DescsGrow, NEW call, Fits(call)
  PROVE  Fits(call)'
<1>1. Len(descs) \in Nat /\ DOMAIN descs = 1 .. Len(descs) /\ descs \in Seq(Descriptor)
  BY DEF DescsInv
<1>2. call.desc \in 0 .. Len(descs) /\ (call.desc # 0 => call.desc \in DOMAIN descs)
  BY <1>1 DEF Fits
<1>3. call.desc \in 0 .. Len(descs')
  <2>1. Len(descs') >= Len(descs)
    BY DEF DescsGrow
  <2>2. CASE call.desc = 0
    BY <1>1, <2>1, <2>2
  <2> QED
    BY <1>1, <1>2, <2>1
<1>4. call.desc # 0 => /\ descs'[call.desc].cid = descs[call.desc].cid
                       /\ KeysetOf(descs'[call.desc]) = KeysetOf(descs[call.desc])
  BY <1>2 DEF DescsGrow, KeysetOf
<1> QED
  BY <1>3, <1>4 DEF Fits, KeysetOf

\* One thread moves.
LEMMA CallMoves ==
  ASSUME CallsFit, DescsInv, DescsGrow, NEW t \in Thread, NEW call, Goto(t, call), Fits(call)'
  PROVE  CallsFit'
<1>1. DOMAIN proc' = Thread /\ proc'[t] = call /\ \A u \in Thread \ {t} : proc'[u] = proc[u]
  BY DEF CallsFit, Goto
<1>2. ASSUME NEW u \in Thread PROVE Fits(proc[u])'
  <2>1. CASE u = t
    BY <1>1, <2>1 DEF Fits
  <2>2. CASE u # t
    <3>1. PICK other : other = proc[u]
      OBVIOUS
    <3>2. Fits(other)'
      BY <3>1, FitsStays DEF CallsFit
    <3>3. proc'[u] = other
      BY <1>1, <2>2, <3>1
    <3> QED
      BY <3>2, <3>3 DEF Fits
  <2> QED
    BY <2>1, <2>2
<1> QED
  BY <1>1, <1>2 DEF CallsFit

\* The registrations under way, and what they will add to the descriptors.
LEMMA BoundMoves ==
  ASSUME CallsFit, DescsInv, BoundInv, NEW t \in Thread, NEW call, Goto(t, call),
         \/ Len(descs') = Len(descs) /\ (call.op = "register" => proc[t].op = "register")
         \/ Len(descs') = Len(descs) + 1 /\ call.op # "register" /\ proc[t].op = "register"
         \/ Len(descs') = Len(descs) /\ Len(descs) + Cardinality(Registering) < MaxRegistrations
  PROVE  BoundInv'
<1>1. DOMAIN proc' = Thread /\ proc'[t] = call /\ \A u \in Thread \ {t} : proc'[u] = proc[u]
  BY DEF CallsFit, Goto
<1>2. Registering' = IF call.op = "register" THEN Registering \union {t} ELSE Registering \ {t}
  BY <1>1 DEF Registering
<1>3. IsFiniteSet(Registering) /\ Cardinality(Registering) \in Nat
  BY FS_CardinalityType DEF BoundInv
<1>4. Len(descs) \in Nat /\ MaxRegistrations \in Nat
  BY RegistrationsAssumption DEF DescsInv
<1>5. t \in Registering <=> proc[t].op = "register"
  BY DEF Registering
<1>6. CASE call.op = "register"
  <2>1. /\ IsFiniteSet(Registering \union {t})
        /\ Cardinality(Registering \union {t}) =
              IF t \in Registering THEN Cardinality(Registering) ELSE Cardinality(Registering) + 1
    BY <1>3, FS_AddElement
  <2> QED
    BY <1>2, <1>3, <1>4, <1>5, <1>6, <2>1 DEF BoundInv
<1>7. CASE call.op # "register"
  <2>1. /\ IsFiniteSet(Registering \ {t})
        /\ Cardinality(Registering \ {t}) =
              IF t \in Registering THEN Cardinality(Registering) - 1 ELSE Cardinality(Registering)
    BY <1>3, FS_RemoveElement
  <2> QED
    BY <1>2, <1>3, <1>4, <1>5, <1>7, <2>1 DEF BoundInv
<1> QED
  BY <1>6, <1>7

\* One thread moves and the descriptors stay as they are.
LEMMA Moves ==
  ASSUME TypeInv, NEW t \in Thread, NEW call, Goto(t, call), Fits(call),
         call.op = "register" => proc[t].op = "register",
         descs' = descs, table' = table, StoreInv'
  PROVE  TypeInv'
<1>1. DescsGrow /\ Len(descs') = Len(descs)
  BY DEF DescsGrow, TypeInv, DescsInv
<1>2. Fits(call)'
  BY <1>1, FitsStays DEF TypeInv
<1>3. CallsFit'
  BY <1>1, <1>2, CallMoves DEF TypeInv
<1>4. BoundInv'
  BY <1>1, BoundMoves DEF TypeInv
<1>5. DescsInv'
  BY DEF TypeInv, DescsInv, Published
<1> QED
  BY <1>3, <1>4, <1>5 DEF TypeInv

\* A call that has returned.
LEMMA IdleFits ==
  ASSUME DescsInv PROVE Fits(Idle)
<1>1. Idle \in Calling
  BY DEF Idle, Calling, Labels
<1>2. 0 \in 0 .. Len(descs)
  BY DEF DescsInv
<1> QED
  BY <1>1, <1>2 DEF Fits, Idle, Fetching

LEMMA Returns ==
  ASSUME TypeInv, NEW t \in Thread, Return(t), descs' = descs, table' = table, StoreInv'
  PROVE  TypeInv'
<1>1. Fits(Idle)
  BY IdleFits DEF TypeInv
<1>2. Idle.op # "register"
  BY DEF Idle
<1> QED
  BY <1>1, <1>2, Moves DEF Return

-----------------------------------------------------------------------------
(***************************************************************************)
(* The type invariant, step by step.                                       *)
(***************************************************************************)
LEMMA BeginType ==
  ASSUME TypeInv, NEW t \in Thread, NEW op \in Operation, NEW c \in CacheId, Begin(t, op, c)
  PROVE  TypeInv'
<1>1. descs' = descs /\ table' = table /\ StoreInv'
  BY DEF Begin, TypeInv, StoreInv
<1>2. DescsInv /\ <<>> \in Seq(Key) /\ <<>> \in Seq(Obj \union {None}) /\ <<>> \in Seq(Chunk)
  BY DEF TypeInv
<1>3. 0 \in 0 .. Len(descs) /\ Idle \in Calling
  BY <1>2, IdleFits DEF DescsInv, Fits
<1>4. CASE op = "register" /\ BeginRegister(t, c)
  <2>1. PICK p \in PromptsOf[c], n \in ShardCounts, pin \in PinChoices, ttl \in TTLChoices :
          Goto(t, [Idle EXCEPT !.at = "put", !.op = "register", !.cid = c, !.prompt = p,
                               !.shards = n, !.pin = pin, !.ttl = ttl,
                               !.todo = ChunkKeys(c, Len(p), n)])
    BY <1>4 DEF BeginRegister
  <2> DEFINE call == [Idle EXCEPT !.at = "put", !.op = "register", !.cid = c, !.prompt = p,
                                  !.shards = n, !.pin = pin, !.ttl = ttl,
                                  !.todo = ChunkKeys(c, Len(p), n)]
  <2>2. n \in Nat \ {0} /\ pin \in BOOLEAN /\ ttl \in {"none", "some", "invalid"}
    BY ShardsAssumption, ChoicesAssumption
  <2>3. p \in Seq(Chunk) /\ Len(p) \in Nat \ {0}
    BY PromptFacts
  <2>4. ChunkKeys(c, Len(p), n) \in Seq(KeySet(c, Len(p), n))
    BY <2>2, <2>3, ChunkKeysAre
  <2>5. ChunkKeys(c, Len(p), n) \in Seq(Key)
    BY <2>4, KeysetFacts
  <2> DEFINE todo == ChunkKeys(c, Len(p), n)
  <2>6. "put" \in Labels /\ "register" \in Operation
    BY DEF Labels, Operation
  <2> HIDE DEF todo
  <2>7. [Idle EXCEPT !.at = "put", !.op = "register", !.cid = c, !.prompt = p,
                      !.shards = n, !.pin = pin, !.ttl = ttl, !.todo = todo] \in Calling
    <3>1. todo \in Seq(Key)
      BY <2>5 DEF todo
    <3> QED
      BY <1>3, <2>2, <2>3, <2>6, <3>1 DEF Calling
  <2>8. call \in Calling
    BY <2>7 DEF todo
  <2>9. Fits(call)
    BY <1>3, <2>4, <2>8 DEF Fits, Idle, Fetching
  <2>10. Goto(t, call)
    BY <2>1
  <2> HIDE DEF call
  <2>11. DescsGrow
    BY <1>1, <1>2 DEF DescsGrow, DescsInv
  <2>12. CallsFit'
    BY <2>9, <2>10, <2>11, CallMoves, FitsStays DEF TypeInv
  <2>13. BoundInv'
    <3>1. Len(descs) + Cardinality(Registering) < MaxRegistrations
      BY <1>4 DEF BeginRegister
    <3> QED
      BY <1>1, <2>10, <3>1, BoundMoves DEF TypeInv
  <2>14. DescsInv'
    BY <1>1, <1>2 DEF DescsInv, Published
  <2> QED
    BY <1>1, <2>12, <2>13, <2>14 DEF TypeInv
<1>5. CASE \E p \in Request, w \in Worker : op = "reuse" /\ BeginReuse(t, c, p, w)
  <2>1. PICK p \in Request, w \in Worker : BeginReuse(t, c, p, w)
    BY <1>5
  <2> DEFINE call == [Idle EXCEPT !.at = "fetch", !.op = "reuse", !.cid = c,
                                  !.prompt = p, !.shards = w, !.count = -1]
  <2>2. w \in Nat
    BY ShardsAssumption DEF Worker
  <2>3. p \in Seq(Chunk) \union {None}
    BY RequestAssumption
  <2>4. call \in Calling
    <3>1. -1 \in Nat \union {-1} /\ "reuse" \in Operation /\ "fetch" \in Labels
      BY DEF Operation, Labels
    <3> QED
      BY <1>3, <2>2, <2>3, <3>1 DEF Calling
  <2>5. Fits(call) /\ call.op = "reuse"
    BY <1>3, <2>4 DEF Fits, Idle, Fetching
  <2>6. Goto(t, call)
    BY <2>1 DEF BeginReuse
  <2> HIDE DEF call
  <2> QED
    BY <1>1, <2>5, <2>6, Moves
<1>6. CASE op = "load" /\ \E w \in Worker :
             Goto(t, [Idle EXCEPT !.at = "fetch", !.op = op, !.cid = c, !.shards = w])
  <2>1. PICK w \in Worker : Goto(t, [Idle EXCEPT !.at = "fetch", !.op = op, !.cid = c, !.shards = w])
    BY <1>6
  <2> DEFINE call == [Idle EXCEPT !.at = "fetch", !.op = op, !.cid = c, !.shards = w]
  <2>2. w \in Nat
    BY ShardsAssumption DEF Worker
  <2>3. call \in Calling
    BY <1>3, <1>6, <2>2 DEF Calling, Labels, Operation
  <2>4. Fits(call) /\ call.op = "load"
    BY <1>3, <1>6, <2>3 DEF Fits, Idle, Fetching
  <2>5. Goto(t, call)
    BY <2>1
  <2> HIDE DEF call
  <2> QED
    BY <1>1, <2>4, <2>5, Moves
<1>7. ASSUME NEW at \in {"fetch", "pop"}, Goto(t, [Idle EXCEPT !.at = at, !.op = op, !.cid = c]),
             IF at = "pop" THEN op = "delete" ELSE op \in {"get", "extend_ttl", "pin", "unpin"}
      PROVE  TypeInv'
  <2> DEFINE call == [Idle EXCEPT !.at = at, !.op = op, !.cid = c]
  <2>1. call \in Calling
    BY <1>3, <1>7 DEF Calling, Labels, Operation
  <2>2. Fits(call) /\ call.op # "register"
    BY <1>3, <1>7, <2>1 DEF Fits, Idle, Fetching
  <2>3. Goto(t, call)
    BY <1>7
  <2> HIDE DEF call
  <2> QED
    BY <1>1, <2>2, <2>3, Moves
<1>8. CASE op = "sweep" /\ Goto(t, [Idle EXCEPT !.at = "next", !.op = op,
                                        !.rest = {e \in Published : descs[table[e]].expired}])
  <2> DEFINE due == {e \in Published : descs[table[e]].expired}
             call == [Idle EXCEPT !.at = "next", !.op = op, !.rest = due]
  <2>1. due \in SUBSET CacheId
    BY DEF Published
  <2>2. Goto(t, call)
    BY <1>8
  <2> HIDE DEF due
  <2>3. call \in Calling
    BY <1>3, <1>8, <2>1 DEF Calling, Labels, Operation
  <2>4. Fits(call) /\ call.op = "sweep"
    BY <1>3, <1>8, <2>3 DEF Fits, Idle, Fetching
  <2> HIDE DEF call
  <2> QED
    BY <1>1, <2>2, <2>4, Moves
<1> QED
  BY <1>4, <1>5, <1>6, <1>7, <1>8 DEF Begin

\* What is left to do.
LEMMA TailFacts ==
  ASSUME NEW S, NEW s \in Seq(S), s # <<>>
  PROVE  /\ Head(s) \in S /\ Tail(s) \in Seq(S)
         /\ \A i \in DOMAIN s : s[i] = Head(s) \/ \E j \in DOMAIN Tail(s) : Tail(s)[j] = s[i]
         /\ Len(s) = 1 <=> Tail(s) = <<>>
<1>1. Len(s) \in Nat \ {0} /\ DOMAIN s = 1 .. Len(s) /\ Head(s) = s[1]
  OBVIOUS
<1>2. /\ Tail(s) \in Seq(S) /\ Len(Tail(s)) = Len(s) - 1 /\ DOMAIN Tail(s) = 1 .. Len(s) - 1
      /\ \A j \in 1 .. Len(s) - 1 : Tail(s)[j] = s[j + 1]
  OBVIOUS
<1>3. ASSUME NEW i \in DOMAIN s, i # 1 PROVE \E j \in DOMAIN Tail(s) : Tail(s)[j] = s[i]
  <2>1. i - 1 \in 1 .. Len(s) - 1 /\ (i - 1) + 1 = i
    BY <1>1, <1>3
  <2> QED
    BY <1>2, <2>1
<1>4. Len(s) = 1 <=> Tail(s) = <<>>
  <2>1. Tail(s) = <<>> <=> Len(Tail(s)) = 0
    BY <1>2
  <2> QED
    BY <1>1, <1>2, <2>1
<1> QED
  BY <1>1, <1>2, <1>3, <1>4

\* What the store's operations leave is of its type.
LEMMA StoreTyped ==
  ASSUME StoreInv, NEW k \in Key, NEW o \in Obj, NEW p,
         \/ Store!Stored(k, o, p) \/ Store!Refused(k) \/ Store!Removed(k)
         \/ Store!Pinned(k) \/ Store!Unpinned(k) \/ Store!Lost(k) \/ UNCHANGED <<content, kept>>
  PROVE  StoreInv'
<1>1. \A gone : Store!Without(gone) \in [Key -> Obj \union {None}]
  BY DEF Store!Without, StoreInv
<1>2. CASE Store!Stored(k, o, p)
  <2>1. content' \in [Key -> Obj \union {None}]
    BY <1>1, <1>2 DEF Store!Stored
  <2>2. kept' \in {kept \union {k}, kept, kept \ {k}}
    BY <1>2 DEF Store!Stored
  <2> QED
    BY <2>1, <2>2 DEF StoreInv
<1>3. CASE Store!Refused(k)
  BY <1>1, <1>3 DEF Store!Refused, StoreInv
<1>4. CASE Store!Removed(k)
  BY <1>1, <1>4 DEF Store!Removed, StoreInv
<1>5. CASE Store!Pinned(k) \/ Store!Unpinned(k)
  BY <1>5 DEF Store!Pinned, Store!Unpinned, StoreInv
<1>6. CASE Store!Lost(k)
  BY <1>1, <1>6 DEF Store!Lost, StoreInv
<1>7. CASE UNCHANGED <<content, kept>>
  BY <1>7 DEF StoreInv
<1> QED
  BY <1>2, <1>3, <1>4, <1>5, <1>6, <1>7

\* The descriptor that a call has fetched.
LEMMA DescFacts ==
  ASSUME DescsInv, NEW d \in 1 .. Len(descs)
  PROVE  /\ d \in DOMAIN descs /\ descs[d] \in Descriptor
         /\ descs[d].cid \in CacheId /\ descs[d].prompt \in PromptsOf[descs[d].cid]
         /\ Len(descs[d].prompt) \in Nat \ {0}
<1>1. descs \in Seq(Descriptor) /\ d \in DOMAIN descs
  BY DEF DescsInv
<1>4. descs[d] \in Descriptor
  BY <1>1
<1>2. descs[d] \in Descriptor /\ descs[d].cid \in CacheId
  BY <1>4 DEF Descriptor
<1>3. descs[d].prompt \in PromptsOf[descs[d].cid]
  BY <1>1 DEF DescsInv
<1> QED
  BY <1>1, <1>2, <1>3, PromptFacts

LEMMA PutChunkType ==
  ASSUME TypeInv, NEW t \in Thread, PutChunk(t)
  PROVE  TypeInv'
<1> PICK call : call = proc[t]
  OBVIOUS
<1> DEFINE k == Head(call.todo)
           next == [call EXCEPT !.todo = Tail(@)]
<1>1. Fits(call) /\ call.at = "put" /\ call.todo # <<>> /\ descs' = descs /\ table' = table
  BY DEF PutChunk, TypeInv, CallsFit, At
<1>2. /\ call.cid \in CacheId /\ call.prompt \in PromptsOf[call.cid] /\ call.shards \in ShardCounts
      /\ call.todo \in Seq(KeySet(call.cid, Len(call.prompt), call.shards)) /\ call.op = "register"
      /\ call \in Calling
  BY <1>1 DEF Fits
<1>3. /\ k \in KeySet(call.cid, Len(call.prompt), call.shards)
      /\ Tail(call.todo) \in Seq(KeySet(call.cid, Len(call.prompt), call.shards))
  BY <1>1, <1>2, TailFacts
<1>4. k \in Key /\ Tail(call.todo) \in Seq(Key)
  <2>1. KeySet(call.cid, Len(call.prompt), call.shards) \subseteq Key
    BY <1>2, KeysetFacts
  <2>2. \A s \in Seq(KeySet(call.cid, Len(call.prompt), call.shards)) : s \in Seq(Key)
    BY <2>1
  <2> QED
    BY <1>3, <2>1, <2>2
<1>5. Payload(call.prompt, k[2]) \in Obj
  BY <1>2, <1>3, PromptFacts DEF KeySet
<1>6. next \in Calling
  BY <1>2, <1>4 DEF Calling
<1>7. Fits(next)
  BY <1>1, <1>2, <1>3, <1>6 DEF Fits, Calling
<1>8. StoreInv'
  BY <1>1, <1>4, <1>5, StoreTyped DEF PutChunk, TypeInv
<1>9. Goto(t, next) \/ Return(t)
  BY DEF PutChunk
<1> HIDE DEF next
<1>10. call.op = "register" => proc[t].op = "register"
  OBVIOUS
<1> QED
  BY <1>1, <1>2, <1>7, <1>8, <1>9, <1>10, Moves, Returns

LEMMA PublishType ==
  ASSUME TypeInv, NEW t \in Thread, Publish(t)
  PROVE  TypeInv'
<1> PICK call : call = proc[t]
  OBVIOUS
<1> DEFINE d == [cid |-> call.cid, prompt |-> call.prompt, shards |-> call.shards,
                 pinned |-> call.pin, ttl |-> call.ttl = "some", expired |-> FALSE]
<1>1. /\ Fits(call) /\ call.at = "put" /\ descs' = Append(descs, d)
      /\ table' = [table EXCEPT ![call.cid] = Len(descs')] /\ Return(t) /\ StoreInv'
  BY DEF Publish, TypeInv, CallsFit, At, StoreInv
<1>2. /\ call.cid \in CacheId /\ call.prompt \in PromptsOf[call.cid] /\ call.shards \in ShardCounts
      /\ call.op = "register" /\ call \in Calling
  BY <1>1 DEF Fits
<1>3. d \in Descriptor
  <2>1. call.prompt \in Prompt
    BY <1>2, PromptFacts
  <2>2. (call.ttl = "some") \in BOOLEAN /\ call.pin \in BOOLEAN
    BY <1>2 DEF Calling
  <2> QED
    BY <1>2, <2>1, <2>2 DEF Descriptor
<1>4. d.cid = call.cid /\ d.prompt = call.prompt
  OBVIOUS
<1> HIDE DEF d
<1>5. /\ descs \in Seq(Descriptor) /\ descs' \in Seq(Descriptor) /\ Len(descs') = Len(descs) + 1
      /\ DOMAIN descs = 1 .. Len(descs) /\ Len(descs) \in Nat
      /\ DOMAIN descs' = 1 .. Len(descs) + 1
      /\ descs'[Len(descs) + 1] = d
      /\ \A e \in 1 .. Len(descs) : descs'[e] = descs[e]
  BY <1>1, <1>3 DEF TypeInv, DescsInv
<1>6. DescsGrow
  BY <1>5 DEF DescsGrow
<1>7. DescsInv'
  <2>1. \A e \in DOMAIN descs' : descs'[e].prompt \in PromptsOf[descs'[e].cid]
    BY <1>2, <1>4, <1>5 DEF TypeInv, DescsInv
  <2>2. table' \in [CacheId -> 0 .. Len(descs')]
    <3>1. table \in [CacheId -> 0 .. Len(descs)] /\ 0 .. Len(descs) \subseteq 0 .. Len(descs) + 1
      BY <1>5 DEF TypeInv, DescsInv
    <3>2. Len(descs) + 1 \in 0 .. Len(descs) + 1
      BY <1>5
    <3>3. table' = [table EXCEPT ![call.cid] = Len(descs) + 1] /\ Len(descs') = Len(descs) + 1
      BY <1>1, <1>5
    <3> QED
      BY <3>1, <3>2, <3>3
  <2>3. ASSUME NEW c \in CacheId, table'[c] # 0 PROVE descs'[table'[c]].cid = c
    <3>1. CASE c = call.cid
      BY <1>1, <1>4, <1>5, <3>1 DEF TypeInv, DescsInv
    <3>2. CASE c # call.cid
      <4>1. table'[c] = table[c] /\ table[c] \in 1 .. Len(descs) /\ descs[table[c]].cid = c
        BY <1>1, <1>5, <2>3, <3>2 DEF TypeInv, DescsInv, Published
      <4> QED
        BY <1>5, <4>1
    <3> QED
      BY <3>1, <3>2
  <2> QED
    BY <1>5, <2>1, <2>2, <2>3 DEF DescsInv, Published
<1>8. Fits(Idle)' /\ Goto(t, Idle) /\ Idle.op # "register"
  BY <1>1, <1>6, IdleFits, FitsStays DEF TypeInv, Return, Idle
<1>9. CallsFit'
  BY <1>6, <1>8, CallMoves DEF TypeInv
<1>10. proc[t].op = "register"
  BY <1>2
<1>11. BoundInv'
  BY <1>5, <1>8, <1>10, BoundMoves DEF TypeInv
<1> QED
  BY <1>1, <1>7, <1>9, <1>11 DEF TypeInv

\* Two prompts that agree up to a chunk agree before it.
LEMMA PayloadPrefix ==
  ASSUME NEW r \in Seq(Chunk), NEW p \in Seq(Chunk),
         NEW i \in DOMAIN r \intersect DOMAIN p, Payload(r, i) = Payload(p, i), NEW j \in 1 .. i
  PROVE  j \in DOMAIN r \intersect DOMAIN p /\ Payload(r, j) = Payload(p, j)
<1>1. /\ i \in Nat /\ i <= Len(r) /\ i <= Len(p) /\ j \in Nat /\ 1 <= j /\ j <= i
      /\ DOMAIN r = 1 .. Len(r) /\ DOMAIN p = 1 .. Len(p) /\ Len(r) \in Nat /\ Len(p) \in Nat
  OBVIOUS
<1>2. \A x \in 1 .. i : r[x] = p[x]
  <2>1. \A x \in 1 .. i : Payload(r, i)[x] = r[x] /\ Payload(p, i)[x] = p[x]
    BY <1>1 DEF Payload
  <2> QED
    BY <2>1
<1>3. Payload(r, j) = [x \in 1 .. j |-> r[x]] /\ Payload(p, j) = [x \in 1 .. j |-> p[x]]
  BY <1>1 DEF Payload
<1>4. \A x \in 1 .. j : r[x] = p[x]
  BY <1>1, <1>2
<1> QED
  BY <1>1, <1>3, <1>4

\* matched_chunk_count: as many chunks of the request as it says are those of the prompt.
LEMMA MatchedFacts ==
  ASSUME NEW r \in Seq(Chunk) \union {None}, NEW p \in Seq(Chunk)
  PROVE  /\ MatchedChunks(r, p) \in Nat
         /\ r # None => \A i \in 1 .. MatchedChunks(r, p) :
                           i \in DOMAIN r \intersect DOMAIN p /\ Payload(r, i) = Payload(p, i)
<1>1. CASE r = None
  BY <1>1 DEF MatchedChunks
<1>2. CASE r # None
  <2> DEFINE M == {i \in DOMAIN r \intersect DOMAIN p : Payload(r, i) = Payload(p, i)}
  <2>1. MatchedChunks(r, p) = Cardinality(M) /\ r \in Seq(Chunk)
    BY <1>2 DEF MatchedChunks
  <2>2. DOMAIN p = 1 .. Len(p) /\ Len(p) \in Nat /\ M \subseteq 1 .. Len(p)
    OBVIOUS
  <2>3. IsFiniteSet(1 .. Len(p))
    BY <2>2, FS_Interval
  <2>4. IsFiniteSet(M) /\ Cardinality(M) \in Nat
    BY <2>2, <2>3, FS_Subset, FS_CardinalityType
  <2>5. ASSUME NEW i \in M, NEW j \in 1 .. i PROVE j \in M
    BY <2>1, PayloadPrefix
  <2>6. ASSUME NEW i \in 1 .. Cardinality(M), i \notin M PROVE FALSE
    <3>1. i \in Nat /\ 1 <= i /\ i <= Cardinality(M)
      BY <2>4
    <3>2. M \subseteq 1 .. i - 1
      <4> SUFFICES ASSUME NEW m \in M PROVE m \in 1 .. i - 1
        OBVIOUS
      <4>1. m \in Nat /\ 1 <= m
        BY <2>2
      <4>2. ~(i <= m)
        BY <2>5, <2>6, <3>1, <4>1
      <4> QED
        BY <3>1, <4>1, <4>2
    <3>3. IsFiniteSet(1 .. i - 1) /\ Cardinality(1 .. i - 1) = i - 1
      <4>1. 1 \in Int /\ i - 1 \in Int
        BY <3>1
      <4>2. /\ IsFiniteSet(1 .. i - 1)
            /\ Cardinality(1 .. i - 1) = IF 1 > i - 1 THEN 0 ELSE (i - 1) - 1 + 1
        BY <4>1, FS_Interval
      <4> QED
        BY <3>1, <4>2
    <3>4. Cardinality(M) <= i - 1
      BY <3>2, <3>3, FS_Subset
    <3> QED
      BY <2>4, <3>1, <3>4
  <2> HIDE DEF M
  <2>7. 1 .. Cardinality(M) \subseteq M
    BY <2>6
  <2> QED
    BY <2>1, <2>4, <2>7 DEF M
<1> QED
  BY <1>1, <1>2

\* The steps that move one call and touch nothing but the local variables of it.
LEMMA LocalType ==
  ASSUME TypeInv, NEW t \in Thread,
         \/ BuildFailed(t) \/ Fetch(t) \/ CheckExpired(t) \/ GetLive(t) \/ LookupLive(t)
         \/ LoadLive(t) \/ GetChunk(t) \/ Loaded(t) \/ ExtendLive(t) \/ NextExpired(t)
  PROVE  TypeInv'
<1> PICK call : call = proc[t]
  OBVIOUS
<1>1. Fits(call) /\ call \in Calling
  BY DEF TypeInv, CallsFit, Fits
<1>2. DescsInv /\ descs \in Seq(Descriptor) /\ Len(descs) \in Nat
  BY DEF TypeInv, DescsInv
<1>3. UNCHANGED <<content, kept, descs, table>>
  BY DEF BuildFailed, Fetch, CheckExpired, GetLive, LookupLive, LoadLive, GetChunk, Loaded,
         ExtendLive, NextExpired
<1>4. StoreInv'
  BY <1>3 DEF TypeInv, StoreInv
<1>5. ASSUME Return(t) PROVE TypeInv'
  BY <1>3, <1>4, <1>5, Returns
<1>6. ASSUME NEW next, Goto(t, next), Fits(next), next.op = call.op PROVE TypeInv'
  BY <1>3, <1>4, <1>6, Moves
<1>7. CASE Fetch(t)
  <2> DEFINE next == [call EXCEPT !.at = "check", !.desc = table[call.cid]]
  <2>1. CASE call.cid \in Published /\ Goto(t, next)
    <3>1. call.at = "fetch" /\ call.op \in Fetching /\ call.cid \in CacheId
      BY <1>1, <1>7 DEF Fetch, At, Fits
    <3>2. table[call.cid] \in 1 .. Len(descs) /\ descs[table[call.cid]].cid = call.cid
      BY <1>2, <2>1 DEF DescsInv, Published
    <3>3. next \in Calling
      <4>1. table[call.cid] \in Nat /\ "check" \in Labels
        BY <1>2, <3>2 DEF Labels
      <4> QED
        BY <1>1, <4>1 DEF Calling
    <3>4. next.op = call.op /\ next.cid = call.cid /\ next.at = "check" /\ next.desc = table[call.cid]
          /\ next.shards = call.shards
      BY <1>1 DEF Calling
    <3> HIDE DEF next
    <3>5. Fits(next)
      BY <1>1, <1>2, <3>1, <3>2, <3>3, <3>4 DEF Fits, Fetching
    <3> QED
      BY <1>6, <2>1, <3>4, <3>5
  <2> QED
    BY <1>5, <1>7, <2>1 DEF Fetch
\* A step that changes where the call is, and neither its descriptor nor its key.
<1>8. ASSUME NEW next \in Calling, Goto(t, next),
             next.op = call.op, next.cid = call.cid, next.desc = call.desc,
             next.shards = call.shards,
             \/ next.at = "pop" /\ call.at = "check"
             \/ next.at = "fetch" /\ call.at = "check"
             \/ next.at = "load" /\ call.op \in {"reuse", "load"} /\ call.at \in {"check", "load"}
             \/ next.at = "extend" /\ call.op = "extend_ttl" /\ call.at = "check"
      PROVE  TypeInv'
  <2>1. Fits(next)
    BY <1>1, <1>8 DEF Fits, Fetching
  <2> QED
    BY <1>6, <1>8, <2>1
<1>9. CASE CheckExpired(t)
  <2> DEFINE next == [call EXCEPT !.at = "pop"]
  <2>1. /\ next \in Calling /\ next.at = "pop" /\ next.op = call.op /\ next.cid = call.cid
        /\ next.desc = call.desc /\ next.shards = call.shards
    BY <1>1 DEF Calling, Labels
  <2>2. call.at = "check" /\ Goto(t, next)
    BY <1>9 DEF CheckExpired, At
  <2> HIDE DEF next
  <2> QED
    BY <1>8, <2>1, <2>2
<1>10. CASE LookupLive(t)
  <2> DEFINE n == MatchedChunks(call.prompt, descs[call.desc].prompt)
             next == [call EXCEPT !.at = "fetch", !.count = n]
  <2>1. call.at = "check" /\ call.desc \in 1 .. Len(descs)
    BY <1>1, <1>2, <1>10 DEF LookupLive, Live, At, Fits
  <2>2. descs[call.desc].prompt \in Seq(Chunk) /\ call.prompt \in Seq(Chunk) \union {None}
    BY <1>1, <1>2, <2>1, DescFacts, PromptFacts DEF Calling
  <2>3. n \in Nat
    BY <2>2, MatchedFacts
  <2>4. Goto(t, next)
    BY <1>10 DEF LookupLive
  <2> HIDE DEF n
  <2>5. /\ next \in Calling /\ next.at = "fetch" /\ next.op = call.op /\ next.cid = call.cid
        /\ next.desc = call.desc /\ next.shards = call.shards
    BY <1>1, <2>3 DEF Calling, Labels
  <2> HIDE DEF next
  <2> QED
    BY <1>8, <2>1, <2>4, <2>5
<1>11. CASE LoadLive(t)
  <2> DEFINE d == descs[call.desc]
             n == IF call.op = "load" \/ call.count > Len(d.prompt) THEN Len(d.prompt) ELSE call.count
             todo == [i \in 1 .. n |-> <<d.cid, i, call.shards>>]
             next == [call EXCEPT !.at = "load", !.todo = todo]
  <2>1. /\ call.at = "check" /\ call.desc \in 1 .. Len(descs) /\ call.op \in {"reuse", "load"}
        /\ call.op = "reuse" => call.count # -1
        /\ Goto(t, next)
    BY <1>1, <1>2, <1>11 DEF LoadLive, Live, At, Fits
  <2>2. d.cid \in CacheId /\ d.prompt \in PromptsOf[d.cid] /\ Len(d.prompt) \in Nat
    BY <1>2, <2>1, DescFacts
  <2>3. 1 .. Len(d.prompt) \subseteq Index
    BY <2>2, PromptFacts
  <2>4. call.shards \in Worker
    BY <1>1, <2>1 DEF Fits
  <2>5. call.count \in Nat \union {-1}
    BY <1>1 DEF Calling
  <2>6. n \in Nat /\ n <= Len(d.prompt)
    BY <2>1, <2>2, <2>5
  <2> HIDE DEF d, n
  <2>7. \A i \in 1 .. n : <<d.cid, i, call.shards>> \in Key
    BY <2>2, <2>3, <2>4, <2>6 DEF Key
  <2>8. todo \in Seq(Key)
    BY <2>6, <2>7
  <2> HIDE DEF todo
  <2>9. /\ next \in Calling /\ next.at = "load" /\ next.op = call.op /\ next.cid = call.cid
        /\ next.desc = call.desc /\ next.shards = call.shards
    BY <1>1, <2>8 DEF Calling, Labels
  <2> HIDE DEF next
  <2> QED
    BY <1>8, <2>1, <2>9
<1>12. CASE GetChunk(t)
  <2> DEFINE k == Head(call.todo)
             next == [call EXCEPT !.todo = Tail(call.todo), !.out = Append(call.out, content[k])]
  <2>1. call.at = "load" /\ call.todo # <<>> /\ call.todo \in Seq(Key) /\ call.op \in {"reuse", "load"}
    BY <1>1, <1>12 DEF GetChunk, At, Fits, Calling
  <2>2. k \in Key /\ Tail(call.todo) \in Seq(Key)
    BY <2>1, TailFacts
  <2>3. content[k] \in Obj \union {None}
    BY <2>2 DEF TypeInv, StoreInv
  <2>4. call.out \in Seq(Obj \union {None})
    BY <1>1 DEF Calling
  <2>5. Append(call.out, content[k]) \in Seq(Obj \union {None})
    BY <2>3, <2>4
  <2>6. Return(t) \/ Goto(t, next)
    BY <1>12 DEF GetChunk
  <2>7. /\ next \in Calling /\ next.at = "load" /\ next.op = call.op /\ next.cid = call.cid
        /\ next.desc = call.desc /\ next.shards = call.shards
    BY <1>1, <2>1, <2>2, <2>5 DEF Calling
  <2> HIDE DEF next
  <2> QED
    BY <1>5, <1>8, <2>1, <2>6, <2>7
<1>13. CASE ExtendLive(t)
  <2> DEFINE next == [call EXCEPT !.at = "extend"]
  <2>1. /\ next \in Calling /\ next.at = "extend" /\ next.op = call.op /\ next.cid = call.cid
        /\ next.desc = call.desc /\ next.shards = call.shards
    BY <1>1 DEF Calling, Labels
  <2>2. call.at = "check" /\ call.op = "extend_ttl" /\ Goto(t, next)
    BY <1>13 DEF ExtendLive, Live, At
  <2> HIDE DEF next
  <2> QED
    BY <1>8, <2>1, <2>2
<1>14. CASE NextExpired(t)
  <2>1. call.at = "next" /\ call.op = "sweep" /\ call.desc = 0 /\ call.rest \subseteq CacheId
    BY <1>1, <1>14 DEF NextExpired, At, Fits, Fetching, Calling
  <2>2. ASSUME NEW c \in call.rest,
               Goto(t, [call EXCEPT !.at = "pop", !.cid = c, !.rest = call.rest \ {c}])
        PROVE  TypeInv'
    <3> DEFINE next == [call EXCEPT !.at = "pop", !.cid = c, !.rest = call.rest \ {c}]
    <3>1. /\ next \in Calling /\ next.at = "pop" /\ next.op = call.op /\ next.cid = c
          /\ next.desc = call.desc /\ next.shards = call.shards
      BY <1>1, <2>1 DEF Calling, Labels
    <3> HIDE DEF next
    <3>2. Fits(next)
      BY <1>1, <2>1, <3>1 DEF Fits
    <3>3. Goto(t, next)
      BY <2>2 DEF next
    <3> QED
      BY <1>6, <3>1, <3>2, <3>3
  <2> QED
    BY <1>5, <1>14, <2>2 DEF NextExpired
<1> QED
  BY <1>5, <1>7, <1>9, <1>10, <1>11, <1>12, <1>13, <1>14 DEF BuildFailed, GetLive, Loaded

\* A descriptor is written in place: its expiry, its ttl or its pin.
LEMMA DescWritten ==
  ASSUME DescsInv, NEW d \in 1 .. Len(descs), NEW new \in Descriptor, table' = table,
         new.cid = descs[d].cid, new.prompt = descs[d].prompt, new.shards = descs[d].shards,
         descs' = [descs EXCEPT ![d] = new]
  PROVE  DescsInv' /\ DescsGrow /\ Len(descs') = Len(descs)
<1>1. /\ descs \in Seq(Descriptor) /\ DOMAIN descs = 1 .. Len(descs) /\ Len(descs) \in Nat
      /\ descs' \in Seq(Descriptor) /\ Len(descs') = Len(descs) /\ DOMAIN descs' = DOMAIN descs
      /\ descs'[d] = new /\ \A e \in DOMAIN descs \ {d} : descs'[e] = descs[e]
  BY DEF DescsInv
<1>2. \A e \in DOMAIN descs : /\ descs'[e].cid = descs[e].cid /\ descs'[e].prompt = descs[e].prompt
                              /\ descs'[e].shards = descs[e].shards
  BY <1>1
<1>3. DescsGrow
  BY <1>1, <1>2 DEF DescsGrow
<1>4. \A e \in DOMAIN descs' : descs'[e].prompt \in PromptsOf[descs'[e].cid]
  BY <1>1, <1>2 DEF DescsInv
<1>5. \A c \in CacheId : table'[c] # 0 => descs'[table'[c]].cid = c
  BY <1>1, <1>2 DEF DescsInv, Published
<1> QED
  BY <1>1, <1>3, <1>4, <1>5 DEF DescsInv, Published

LEMMA DescMoves ==
  ASSUME TypeInv, NEW t \in Thread, NEW d \in 1 .. Len(descs), NEW new \in Descriptor, table' = table,
         new.cid = descs[d].cid, new.prompt = descs[d].prompt, new.shards = descs[d].shards,
         descs' = [descs EXCEPT ![d] = new], StoreInv',
         NEW call, Goto(t, call), Fits(call), call.op # "register"
  PROVE  TypeInv'
<1>1. DescsInv' /\ DescsGrow /\ Len(descs') = Len(descs)
  BY DescWritten DEF TypeInv
<1>2. Fits(call)'
  BY <1>1, FitsStays DEF TypeInv
<1>3. CallsFit' /\ BoundInv'
  BY <1>1, <1>2, CallMoves, BoundMoves DEF TypeInv
<1> QED
  BY <1>1, <1>3 DEF TypeInv

LEMMA ExtendType ==
  ASSUME TypeInv, NEW t \in Thread, Extend(t)
  PROVE  TypeInv'
<1> DEFINE d == proc[t].desc
           new == [descs[d] EXCEPT !.ttl = TRUE, !.expired = FALSE]
<1>1. d \in 1 .. Len(descs)
  BY DEF Extend, At, TypeInv, CallsFit, Fits, DescsInv
<1>2. descs[d] \in Descriptor
  BY <1>1, DescFacts DEF TypeInv
<1>3. new \in Descriptor /\ new.cid = descs[d].cid /\ new.prompt = descs[d].prompt
      /\ new.shards = descs[d].shards
  BY <1>2 DEF Descriptor
<1>4. descs' = [descs EXCEPT ![d] = new]
  BY <1>1, <1>2 DEF Extend, TypeInv, DescsInv, Descriptor
<1>5. table' = table /\ Goto(t, Idle) /\ StoreInv'
  BY DEF Extend, Return, TypeInv, StoreInv
<1>6. Fits(Idle) /\ Idle.op # "register"
  BY IdleFits DEF TypeInv, Idle
<1> HIDE DEF d, new
<1> QED
  BY <1>1, <1>3, <1>4, <1>5, <1>6, DescMoves

LEMMA PinLiveType ==
  ASSUME TypeInv, NEW t \in Thread, PinLive(t)
  PROVE  TypeInv'
<1> PICK call : call = proc[t]
  OBVIOUS
<1> DEFINE d == call.desc
           new == [descs[d] EXCEPT !.pinned = (call.op = "pin")]
           todo == KeysOf(descs[d])
           next == [call EXCEPT !.at = "pin", !.todo = todo]
<1>1. Fits(call) /\ call \in Calling /\ call.op \in {"pin", "unpin"} /\ call.at = "check"
  BY DEF PinLive, Live, At, TypeInv, CallsFit, Fits
<1>2. d \in 1 .. Len(descs)
  BY <1>1 DEF TypeInv, Fits, DescsInv
<1>3. descs[d] \in Descriptor /\ descs[d].prompt \in PromptsOf[descs[d].cid]
  BY <1>2, DescFacts DEF TypeInv
<1>4. (call.op = "pin") \in BOOLEAN
  OBVIOUS
<1>5. new \in Descriptor /\ new.cid = descs[d].cid /\ new.prompt = descs[d].prompt
      /\ new.shards = descs[d].shards
  BY <1>3, <1>4 DEF Descriptor
<1>6. descs' = [descs EXCEPT ![d] = new]
  BY DEF PinLive
<1>7. todo \in Seq(KeysetOf(descs[d])) /\ todo # <<>> /\ todo \in Seq(Key)
  BY <1>3, KeysOfFacts
<1>8. table' = table /\ Goto(t, next) /\ StoreInv'
  BY DEF PinLive, TypeInv, StoreInv
<1> HIDE DEF todo
<1>9. /\ next \in Calling /\ next.at = "pin" /\ next.op = call.op /\ next.cid = call.cid
      /\ next.desc = call.desc /\ next.shards = call.shards /\ next.todo = todo
  BY <1>1, <1>7 DEF Calling, Labels
<1> HIDE DEF next
<1>10. Fits(next) /\ next.op # "register"
  BY <1>1, <1>2, <1>7, <1>9 DEF Fits, Fetching
<1> HIDE DEF new
<1> QED
  BY <1>2, <1>5, <1>6, <1>8, <1>10, DescMoves

LEMMA PinChunkType ==
  ASSUME TypeInv, NEW t \in Thread, PinChunk(t)
  PROVE  TypeInv'
<1> PICK call : call = proc[t]
  OBVIOUS
<1> DEFINE next == [call EXCEPT !.todo = Tail(call.todo)]
<1>1. /\ Fits(call) /\ call \in Calling /\ call.op \in {"pin", "unpin"} /\ call.at = "pin"
      /\ call.todo # <<>> /\ call.todo \in Seq(KeysetOf(descs[call.desc])) /\ call.todo \in Seq(Key)
  BY DEF PinChunk, At, TypeInv, CallsFit, Fits, Calling
<1>2. Head(call.todo) \in Key /\ Tail(call.todo) \in Seq(Key)
  BY <1>1, TailFacts
<1>3. Tail(call.todo) \in Seq(KeysetOf(descs[call.desc]))
  BY <1>1, TailFacts
<1>4. descs' = descs /\ table' = table
  BY DEF PinChunk
<1>5. StoreInv'
  <2>1. Store!Pinned(Head(call.todo)) \/ Store!Unpinned(Head(call.todo))
    BY DEF PinChunk
  <2>2. kept' \subseteq kept \union {Head(call.todo)} /\ content' = content
    BY <2>1 DEF Store!Pinned, Store!Unpinned
  <2> QED
    BY <1>2, <2>2 DEF TypeInv, StoreInv
<1>6. /\ next \in Calling /\ next.at = "pin" /\ next.op = call.op /\ next.cid = call.cid
      /\ next.desc = call.desc /\ next.shards = call.shards /\ next.todo = Tail(call.todo)
  BY <1>1, <1>2 DEF Calling
<1>7. Return(t) \/ (Len(call.todo) # 1 /\ Goto(t, next))
  BY DEF PinChunk
<1> HIDE DEF next
<1>8. CASE Len(call.todo) # 1 /\ Goto(t, next)
  <2>1. Tail(call.todo) # <<>>
    BY <1>1, <1>8, TailFacts
  <2>2. Fits(next) /\ next.op # "register"
    BY <1>1, <1>3, <1>6, <2>1 DEF Fits, Fetching
  <2> QED
    BY <1>4, <1>5, <1>8, <2>2, Moves
<1> QED
  BY <1>4, <1>5, <1>7, <1>8, Returns

\* Where delete and sweep_expired go on.
LEMMA DeletedType ==
  ASSUME TypeInv, NEW t \in Thread, Deleted(t), ~At(t, "put"), descs' = descs, table' = table, StoreInv'
  PROVE  TypeInv'
<1> PICK call : call = proc[t]
  OBVIOUS
<1>1. Fits(call) /\ call \in Calling
  BY DEF TypeInv, CallsFit, Fits
<1>2. CASE Return(t)
  BY <1>2, Returns
<1>3. CASE call.op = "sweep" /\ Goto(t, [call EXCEPT !.at = "next", !.todo = <<>>])
  <2> DEFINE next == [call EXCEPT !.at = "next", !.todo = <<>>]
  <2>1. <<>> \in Seq(Key)
    OBVIOUS
  <2>2. /\ next \in Calling /\ next.at = "next" /\ next.op = call.op /\ next.cid = call.cid
        /\ next.desc = call.desc /\ next.shards = call.shards
    BY <1>1, <2>1 DEF Calling, Labels
  <2>3. Goto(t, next)
    BY <1>3
  <2> HIDE DEF next
  <2>4. Fits(next) /\ next.op # "register"
    BY <1>1, <1>3, <2>2 DEF Fits, Fetching
  <2> QED
    BY <2>3, <2>4, Moves
<1> QED
  BY <1>2, <1>3 DEF Deleted

LEMMA PopType ==
  ASSUME TypeInv, NEW t \in Thread, Pop(t)
  PROVE  TypeInv'
<1> PICK call : call = proc[t]
  OBVIOUS
<1> DEFINE c == call.cid
           todo == KeysOf(descs[table[c]])
           next == [call EXCEPT !.at = "remove", !.todo = todo]
<1>1. Fits(call) /\ call \in Calling /\ call.at = "pop"
  BY DEF Pop, At, TypeInv, CallsFit, Fits
<1>2. descs' = descs /\ StoreInv'
  BY DEF Pop, TypeInv, StoreInv
<1>3. CASE Deleted(t) /\ table' = table
  <2>1. ~At(t, "put")
    BY <1>1 DEF At
  <2> QED
    BY <1>2, <1>3, <2>1, DeletedType
<1>4. CASE c \in Published /\ table' = [table EXCEPT ![c] = 0] /\ Goto(t, next)
  <2>1. table[c] \in 1 .. Len(descs)
    BY <1>4 DEF TypeInv, DescsInv, Published
  <2>2. descs[table[c]] \in Descriptor /\ descs[table[c]].prompt \in PromptsOf[descs[table[c]].cid]
    BY <2>1, DescFacts DEF TypeInv
  <2>3. todo \in Seq(Key) /\ todo # <<>>
    BY <2>2, KeysOfFacts
  <2> HIDE DEF todo
  <2>4. /\ next \in Calling /\ next.at = "remove" /\ next.op = call.op /\ next.cid = call.cid
        /\ next.desc = call.desc /\ next.shards = call.shards /\ next.todo = todo
    BY <1>1, <2>3 DEF Calling, Labels
  <2> HIDE DEF next
  <2>5. Fits(next) /\ next.op # "register"
    BY <1>1, <2>3, <2>4 DEF Fits, Fetching
  <2>6. DescsGrow /\ Len(descs') = Len(descs)
    BY <1>2 DEF DescsGrow, TypeInv, DescsInv
  <2>7. CallsFit'
    BY <1>4, <2>5, <2>6, CallMoves, FitsStays DEF TypeInv
  <2>8. BoundInv'
    BY <1>4, <2>5, <2>6, BoundMoves DEF TypeInv
  <2>9. DescsInv'
    <3>1. table' \in [CacheId -> 0 .. Len(descs)]
      <4>1. table \in [CacheId -> 0 .. Len(descs)] /\ 0 \in 0 .. Len(descs)
        BY DEF TypeInv, DescsInv
      <4> QED
        BY <1>4, <4>1
    <3>2. \A e \in CacheId : table'[e] # 0 => table'[e] = table[e]
      BY <1>4 DEF TypeInv, DescsInv
    <3> QED
      BY <1>2, <3>1, <3>2 DEF TypeInv, DescsInv, Published
  <2> QED
    BY <1>2, <2>7, <2>8, <2>9 DEF TypeInv
<1> QED
  BY <1>3, <1>4 DEF Pop

LEMMA RemoveChunkType ==
  ASSUME TypeInv, NEW t \in Thread, RemoveChunk(t)
  PROVE  TypeInv'
<1> PICK call : call = proc[t]
  OBVIOUS
<1> DEFINE next == [call EXCEPT !.todo = Tail(call.todo)]
<1>1. /\ Fits(call) /\ call \in Calling /\ call.at = "remove" /\ call.todo # <<>>
      /\ call.todo \in Seq(Key) /\ call.op # "register"
  BY DEF RemoveChunk, At, TypeInv, CallsFit, Fits, Calling
<1>2. Head(call.todo) \in Key /\ Tail(call.todo) \in Seq(Key)
  BY <1>1, TailFacts
<1>3. descs' = descs /\ table' = table
  BY DEF RemoveChunk
<1>4. StoreInv'
  <2>1. Store!Removed(Head(call.todo))
    BY DEF RemoveChunk
  <2>2. /\ kept' \subseteq kept
        /\ content' = [j \in Key |-> IF j \in {Head(call.todo)} THEN None ELSE content[j]]
    BY <2>1 DEF Store!Removed, Store!Without
  <2> QED
    BY <2>2 DEF TypeInv, StoreInv
<1>5. CASE Deleted(t)
  <2>1. ~At(t, "put")
    BY <1>1 DEF At
  <2> QED
    BY <1>3, <1>4, <1>5, <2>1, DeletedType
<1>6. CASE Len(call.todo) # 1 /\ Goto(t, next)
  <2>1. Tail(call.todo) # <<>>
    BY <1>1, <1>6, TailFacts
  <2>2. /\ next \in Calling /\ next.at = "remove" /\ next.op = call.op /\ next.cid = call.cid
        /\ next.desc = call.desc /\ next.shards = call.shards /\ next.todo = Tail(call.todo)
    BY <1>1, <1>2 DEF Calling
  <2> HIDE DEF next
  <2>3. Fits(next) /\ next.op # "register"
    BY <1>1, <2>1, <2>2 DEF Fits, Fetching
  <2> QED
    BY <1>3, <1>4, <1>6, <2>3, Moves
<1> QED
  BY <1>5, <1>6 DEF RemoveChunk

\* Time passes and chunks vanish under the calls.
LEMMA StillType ==
  ASSUME TypeInv, Expire \/ Vanish
  PROVE  TypeInv'
<1>1. proc' = proc /\ table' = table
  BY DEF Expire, Vanish
<1>2. StoreInv'
  <2>1. CASE Vanish
    <3>1. PICK k \in Key : Store!Lost(k)
      BY <2>1 DEF Vanish
    <3>2. kept' = kept /\ content' = [j \in Key |-> IF j \in {k} THEN None ELSE content[j]]
      BY <3>1 DEF Store!Lost, Store!Without
    <3> QED
      BY <3>2 DEF TypeInv, StoreInv
  <2> QED
    BY <2>1 DEF Expire, TypeInv, StoreInv
<1>3. DescsInv' /\ DescsGrow /\ Len(descs') = Len(descs)
  <2>1. CASE Expire
    <3>1. PICK d \in DOMAIN descs : descs' = [descs EXCEPT ![d].expired = TRUE]
      BY <2>1 DEF Expire
    <3> DEFINE new == [descs[d] EXCEPT !.expired = TRUE]
    <3>2. d \in 1 .. Len(descs)
      BY DEF TypeInv, DescsInv
    <3>3. new \in Descriptor /\ new.cid = descs[d].cid /\ new.prompt = descs[d].prompt
          /\ new.shards = descs[d].shards
      BY <3>2, DescFacts DEF TypeInv, Descriptor
    <3>4. descs' = [descs EXCEPT ![d] = new]
      BY <3>1
    <3> HIDE DEF new
    <3> QED
      BY <1>1, <3>2, <3>3, <3>4, DescWritten DEF TypeInv
  <2>2. CASE Vanish
    BY <1>1, <2>2 DEF Vanish, TypeInv, DescsInv, DescsGrow, Published
  <2> QED
    BY <2>1, <2>2
<1>4. ASSUME NEW t \in Thread PROVE Fits(proc[t])'
  <2>1. PICK call : call = proc[t]
    OBVIOUS
  <2>2. Fits(call)'
    BY <1>3, <2>1, FitsStays DEF TypeInv, CallsFit
  <2> QED
    BY <1>1, <2>1, <2>2 DEF Fits
<1>5. CallsFit'
  BY <1>1, <1>4 DEF TypeInv, CallsFit
<1>6. BoundInv'
  BY <1>1, <1>3 DEF TypeInv, BoundInv, Registering
<1> QED
  BY <1>2, <1>3, <1>5, <1>6 DEF TypeInv

LEMMA StepType ==
  ASSUME TypeInv, NEW t \in Thread, Step(t)
  PROVE  TypeInv'
BY PutChunkType, PublishType, LocalType, ExtendType, PinLiveType, PinChunkType, PopType,
   RemoveChunkType DEF Step

\* A step of the engine whoever takes it: OpsOf bounds what the threads of this module
\* call, but the threads of a larger system begin the same calls for reasons of their own.
Moving == \/ Expire \/ Vanish
          \/ \E t \in Thread : Step(t) \/ \E op \in Operation, c \in CacheId : Begin(t, op, c)

LEMMA NextMoves ==
  [Next]_vars => [Moving]_vars
BY OpsAssumption DEF Next, Moving, Call

LEMMA TypeStep ==
  ASSUME TypeInv, [Moving]_vars
  PROVE  TypeInv'
<1>1. CASE UNCHANGED vars
  BY <1>1 DEF vars, TypeInv, CallsFit, Fits, DescsInv, StoreInv, BoundInv, Published, Registering
<1> QED
  BY <1>1, BeginType, StepType, StillType DEF Moving

LEMMA InitType ==
  Init => TypeInv
<1> SUFFICES ASSUME Init PROVE TypeInv
  OBVIOUS
<1>1. DescsInv
  BY DEF Init, DescsInv, Published
<1>2. Fits(Idle)
  BY <1>1, IdleFits
<1>3. CallsFit
  BY <1>2 DEF Init, CallsFit
<1>4. Registering = {}
  BY DEF Init, Registering, Idle
<1>5. BoundInv
  BY <1>4, FS_EmptySet, RegistrationsAssumption DEF Init, BoundInv
<1> QED
  BY <1>1, <1>3, <1>5 DEF Init, TypeInv, StoreInv

\* The table leads to descriptors of the ids it lists, a call that has fetched a
\* descriptor holds one of its own id, and every key it has left to visit is one of the
\* store, whatever has been published, popped, pinned or extended since.
THEOREM TypeCorrect == Spec => []TypeOK
<1>1. TypeInv /\ [Next]_vars => TypeInv'
  BY TypeStep, NextMoves
<1>2. TypeInv => TypeOK
  <2> SUFFICES ASSUME TypeInv PROVE TypeOK
    OBVIOUS
  <2>1. Len(descs) <= MaxRegistrations
    BY FS_CardinalityType, RegistrationsAssumption DEF TypeInv, BoundInv, DescsInv
  <2>2. ASSUME NEW t \in Thread
        PROVE  /\ proc[t].desc \in 0 .. Len(descs)
               /\ proc[t].desc # 0 => descs[proc[t].desc].cid = proc[t].cid
               /\ proc[t].rest \subseteq CacheId /\ proc[t].todo \in Seq(Key)
    BY DEF TypeInv, CallsFit, Fits, Calling
  <2>3. \A t \in Thread : \A i \in DOMAIN proc[t].todo : proc[t].todo[i] \in Key
    BY <2>2
  <2> QED
    BY <2>1, <2>2, <2>3 DEF TypeInv, CallsFit, DescsInv, StoreInv, TypeOK
<1> QED
  BY <1>1, <1>2, InitType, PTL DEF Spec

-----------------------------------------------------------------------------
(***************************************************************************)
(* What a caller loads after it has looked its request up, when the        *)
(* prompts registered under an id extend one another.  Every chunk in the  *)
(* store is then the chunk of any of them, so that it does not matter      *)
(* which descriptor was fetched when, nor what was put or removed between  *)
(* the lookup and the load, nor between two chunks of the load.            *)
(***************************************************************************)
Compatible ==
    \A c \in CacheId : \A p, q \in PromptsOf[c] :
        \A i \in DOMAIN p \intersect DOMAIN q : Payload(p, i) = Payload(q, i)

IsChunk(o, c, i) == \E p \in PromptsOf[c] : i \in DOMAIN p /\ o = Payload(p, i)

ContentRight == \A k \in Key : content[k] # None => IsChunk(content[k], k[1], k[2])

\* The chunks that matched are the request's; those loaded so far too, and those to come
\* follow them.
CallRight(call) ==
    call.op = "reuse" =>
       /\ call.at \in {"fetch", "check"} => call.out = <<>>
       /\ call.at = "load" => \A j \in DOMAIN call.todo : call.todo[j] = <<call.cid, Len(call.out) + j, call.shards>>
       /\ call.prompt # None =>
            /\ \A i \in 1 .. call.count :
                  i \in DOMAIN call.prompt /\ IsChunk(Payload(call.prompt, i), call.cid, i)
            /\ call.at = "load" =>
                 /\ Len(call.out) + Len(call.todo) <= call.count
                 /\ \A i \in DOMAIN call.out : call.out[i] = Payload(call.prompt, i)

HitInv == ContentRight /\ \A t \in Thread : CallRight(proc[t])

\* Under Compatible, a chunk of an id is known by its index.
LEMMA ChunkUnique ==
  ASSUME Compatible, NEW c \in CacheId, NEW i, NEW o, NEW q, IsChunk(o, c, i), IsChunk(q, c, i)
  PROVE  o = q
BY DEF Compatible, IsChunk

\* What the store holds after a put was there before, or is what was put.
LEMMA StoredKeeps ==
  ASSUME NEW k, NEW o, NEW p, NEW j \in Key, content'[j] # None, Store!Stored(k, o, p)
  PROVE  IF j = k THEN content'[j] = o ELSE content'[j] = content[j]
<1>1. \A gone : Store!Without(gone)[j] = None \/ Store!Without(gone)[j] = content[j]
  BY DEF Store!Without
<1>2. PICK gone : content' = [Store!Without(gone) EXCEPT ![k] = o]
  BY DEF Store!Stored
<1>3. DOMAIN Store!Without(gone) = Key
  BY DEF Store!Without
<1>4. content'[j] = IF j = k THEN o ELSE Store!Without(gone)[j]
  BY <1>2, <1>3
<1> QED
  BY <1>1, <1>4

\* The other operations only take objects away.
LEMMA StoreKeeps ==
  ASSUME NEW k, NEW j \in Key, content'[j] # None,
         \/ Store!Refused(k) \/ Store!Removed(k) \/ Store!Pinned(k)
         \/ Store!Unpinned(k) \/ Store!Lost(k)
  PROVE  content'[j] = content[j]
<1>1. \A gone : Store!Without(gone)[j] = None \/ Store!Without(gone)[j] = content[j]
  BY DEF Store!Without
<1> QED
  BY <1>1 DEF Store!Refused, Store!Removed, Store!Lost, Store!Pinned, Store!Unpinned

\* Only register writes chunks, and it writes those of a prompt of the id.
LEMMA ContentRightStep ==
  ASSUME TypeInv, ContentRight, [Moving]_vars
  PROVE  ContentRight'
<1> SUFFICES ASSUME NEW j \in Key, content'[j] # None PROVE IsChunk(content'[j], j[1], j[2])
  BY DEF ContentRight
<1> USE DEF TypeInv
<1>1. CASE content'[j] = content[j]
  BY <1>1 DEF ContentRight
<1>2. ASSUME NEW t \in Thread, PutChunk(t), content'[j] # content[j]
      PROVE  IsChunk(content'[j], j[1], j[2])
  <2> PICK call : call = proc[t]
    OBVIOUS
  <2> DEFINE k == Head(call.todo)
  <2>1. /\ call.cid \in CacheId /\ call.prompt \in PromptsOf[call.cid]
        /\ call.todo \in Seq(KeySet(call.cid, Len(call.prompt), call.shards)) /\ call.todo # <<>>
    BY <1>2 DEF PutChunk, CallsFit, Fits, At
  <2>2. k \in KeySet(call.cid, Len(call.prompt), call.shards)
    BY <2>1, TailFacts
  <2>3. \/ Store!Stored(k, Payload(call.prompt, k[2]), call.pin) \/ Store!Refused(k)
    BY <1>2 DEF PutChunk
  <2> HIDE DEF k
  <2>4. j = k /\ content'[j] = Payload(call.prompt, k[2])
    BY <1>2, <2>3, StoredKeeps, StoreKeeps
  <2>5. k[1] = call.cid /\ k[2] \in 1 .. Len(call.prompt)
    BY <2>2 DEF KeySet
  <2>6. k[2] \in DOMAIN call.prompt
    BY <2>1, <2>5, PromptFacts
  <2> QED
    BY <2>1, <2>4, <2>5, <2>6 DEF IsChunk
<1>4. ASSUME NEW t \in Thread, RemoveChunk(t) \/ PinChunk(t) PROVE content'[j] = content[j]
  BY <1>4, StoreKeeps DEF RemoveChunk, PinChunk
<1>5. CASE Vanish
  BY <1>1, <1>5, StoreKeeps DEF Vanish
<1>6. ASSUME NEW t \in Thread, NEW op, NEW c, Begin(t, op, c) PROVE content'[j] = content[j]
  BY <1>6 DEF Begin
<1>7. ASSUME NEW t \in Thread, Step(t), ~PutChunk(t), ~RemoveChunk(t), ~PinChunk(t)
      PROVE  content'[j] = content[j]
  BY <1>7 DEF Step, Publish, BuildFailed, Fetch, CheckExpired, GetLive, LookupLive, LoadLive,
              GetChunk, Loaded, ExtendLive, Extend, PinLive, NextExpired, Pop
<1>8. CASE Expire \/ UNCHANGED vars
  BY <1>1, <1>8 DEF Expire, vars
<1> QED
  BY <1>1, <1>2, <1>4, <1>5, <1>6, <1>7, <1>8 DEF Moving

\* One thread moves, in CallRight.
LEMMA RightMoves ==
  ASSUME CallsFit, \A u \in Thread : CallRight(proc[u]),
         NEW t \in Thread, NEW next, Goto(t, next), CallRight(next)
  PROVE  \A u \in Thread : CallRight(proc[u])'
<1> SUFFICES ASSUME NEW u \in Thread PROVE CallRight(proc[u])'
  OBVIOUS
<1>1. proc'[u] = IF u = t THEN next ELSE proc[u]
  BY DEF CallsFit, Goto
<1>2. CASE u = t
  <2>1. proc'[u] = next
    BY <1>1, <1>2
  <2> QED
    BY <2>1 DEF CallRight
<1>3. CASE u # t
  <2>1. proc'[u] = proc[u] /\ CallRight(proc[u])
    BY <1>1, <1>3
  <2> QED
    BY <2>1 DEF CallRight
<1> QED
  BY <1>2, <1>3

LEMMA IdleRight == CallRight(Idle)
<1>1. Idle.op = "none"
  BY DEF Idle
<1> QED
  BY <1>1 DEF CallRight

\* A call that begins has matched and loaded nothing.
LEMMA BeginRight ==
  ASSUME TypeInv, \A u \in Thread : CallRight(proc[u]),
         NEW t \in Thread, NEW op, NEW c \in CacheId, Begin(t, op, c)
  PROVE  \A u \in Thread : CallRight(proc[u])'
<1>1. PICK next : Goto(t, next) /\ (next.op = "reuse" => /\ next.at = "fetch" /\ next.out = <<>>
                                                         /\ next.count = -1)
  <2>1. CASE BeginRegister(t, c)
    <3>1. PICK p \in PromptsOf[c], n \in ShardCounts, pin \in PinChoices, ttl \in TTLChoices :
                 Goto(t, [Idle EXCEPT !.at = "put", !.op = "register", !.cid = c, !.prompt = p,
                                      !.shards = n, !.pin = pin, !.ttl = ttl,
                                      !.todo = ChunkKeys(c, Len(p), n)])
      BY <2>1 DEF BeginRegister
    <3> DEFINE next == [Idle EXCEPT !.at = "put", !.op = "register", !.cid = c, !.prompt = p,
                                    !.shards = n, !.pin = pin, !.ttl = ttl,
                                    !.todo = ChunkKeys(c, Len(p), n)]
    <3>2. next.op = "register"
      BY DEF Idle
    <3>3. Goto(t, next)
      BY <3>1
    <3> HIDE DEF next
    <3> QED
      BY <3>2, <3>3
  <2>2. CASE \E p \in Request, w \in Worker : BeginReuse(t, c, p, w)
    <3>1. PICK p \in Request, w \in Worker : BeginReuse(t, c, p, w)
      BY <2>2
    <3> DEFINE next == [Idle EXCEPT !.at = "fetch", !.op = "reuse", !.cid = c,
                                    !.prompt = p, !.shards = w, !.count = -1]
    <3>2. Goto(t, next)
      BY <3>1 DEF BeginReuse
    <3>3. next.at = "fetch" /\ next.out = <<>> /\ next.count = -1
      BY DEF Idle
    <3> HIDE DEF next
    <3> QED
      BY <3>2, <3>3
  <2>3. CASE op \in {"get", "extend_ttl", "pin", "unpin"}
             /\ Goto(t, [Idle EXCEPT !.at = "fetch", !.op = op, !.cid = c])
    <3> DEFINE next == [Idle EXCEPT !.at = "fetch", !.op = op, !.cid = c]
    <3>1. Goto(t, next)
      BY <2>3
    <3>2. next.op = op
      BY DEF Idle
    <3> HIDE DEF next
    <3> QED
      BY <2>3, <3>1, <3>2
  <2>4. CASE op = "load" /\ \E w \in Worker :
               Goto(t, [Idle EXCEPT !.at = "fetch", !.op = op, !.cid = c, !.shards = w])
    <3>1. PICK w \in Worker : Goto(t, [Idle EXCEPT !.at = "fetch", !.op = op, !.cid = c, !.shards = w])
      BY <2>4
    <3> DEFINE next == [Idle EXCEPT !.at = "fetch", !.op = op, !.cid = c, !.shards = w]
    <3>2. Goto(t, next)
      BY <3>1
    <3>3. next.op = op
      BY DEF Idle
    <3> HIDE DEF next
    <3> QED
      BY <2>4, <3>2, <3>3
  <2>5. CASE op = "delete" /\ Goto(t, [Idle EXCEPT !.at = "pop", !.op = op, !.cid = c])
    <3> DEFINE next == [Idle EXCEPT !.at = "pop", !.op = op, !.cid = c]
    <3>1. Goto(t, next)
      BY <2>5
    <3>2. next.op = op
      BY DEF Idle
    <3> HIDE DEF next
    <3> QED
      BY <2>5, <3>1, <3>2
  <2>6. CASE op = "sweep" /\ Goto(t, [Idle EXCEPT !.at = "next", !.op = op,
                                        !.rest = {e \in Published : descs[table[e]].expired}])
    <3> DEFINE next == [Idle EXCEPT !.at = "next", !.op = op,
                                  !.rest = {e \in Published : descs[table[e]].expired}]
    <3>1. Goto(t, next)
      BY <2>6
    <3>2. next.op = op
      BY DEF Idle
    <3> HIDE DEF next
    <3> QED
      BY <2>6, <3>1, <3>2
  <2> QED
    BY <2>1, <2>2, <2>3, <2>4, <2>5, <2>6 DEF Begin
<1>2. 1 .. -1 = {}
  OBVIOUS
<1>3. CallRight(next)
  BY <1>1, <1>2 DEF CallRight
<1> QED
  BY <1>1, <1>3, RightMoves DEF TypeInv

\* The chunk that a load is about to read, if it is there, is the request's.
NextRight(call) ==
    call.op = "reuse" /\ call.at = "load" /\ call.todo # <<>> /\ call.prompt # None =>
        content[Head(call.todo)] \in {None, Payload(call.prompt, Len(call.out) + 1)}

\* A chunk is loaded.
LEMMA GetChunkRight ==
  ASSUME TypeInv, NEW call, Fits(call), CallRight(call), NextRight(call),
         call.op = "reuse", call.at = "load", call.todo # <<>>, content[Head(call.todo)] # None,
         NEW next, next = [call EXCEPT !.todo = Tail(call.todo),
                                       !.out = Append(call.out, content[Head(call.todo)])]
  PROVE  CallRight(next)
<1> DEFINE o == content[Head(call.todo)]
           n == Len(call.out)
           m == Len(call.todo)
<1>1. /\ call \in Calling /\ call.todo \in Seq(Key) /\ call.out \in Seq(Obj \union {None})
      /\ call.count \in Nat \union {-1} /\ call.cid \in CacheId
  BY DEF Fits, Calling
<1>2. /\ n \in Nat /\ m \in Nat \ {0} /\ DOMAIN call.todo = 1 .. m /\ DOMAIN call.out = 1 .. n
      /\ Head(call.todo) = call.todo[1] /\ Head(call.todo) \in Key
      /\ Len(Tail(call.todo)) = m - 1 /\ DOMAIN Tail(call.todo) = 1 .. m - 1
      /\ \A j \in 1 .. m - 1 : Tail(call.todo)[j] = call.todo[j + 1]
  BY <1>1
<1>3. /\ Len(Append(call.out, o)) = n + 1 /\ DOMAIN Append(call.out, o) = 1 .. n + 1
      /\ Append(call.out, o)[n + 1] = o
      /\ \A i \in 1 .. n : Append(call.out, o)[i] = call.out[i]
  BY <1>1
<1>4. /\ next.op = call.op /\ next.at = "load" /\ next.cid = call.cid /\ next.prompt = call.prompt
      /\ next.count = call.count /\ next.shards = call.shards
      /\ next.todo = Tail(call.todo) /\ next.out = Append(call.out, o)
  BY <1>1 DEF Calling
<1>5. \A j \in 1 .. m : call.todo[j] = <<call.cid, n + j, call.shards>>
  BY <1>2 DEF CallRight
<1>6. call.prompt # None => o = Payload(call.prompt, n + 1)
  BY DEF NextRight
<1> HIDE DEF o, n, m
<1>8. ASSUME NEW j \in DOMAIN next.todo
      PROVE  next.todo[j] = <<next.cid, Len(next.out) + j, next.shards>>
  <2>1. j \in 1 .. m - 1 /\ j + 1 \in 1 .. m
    BY <1>2, <1>4
  <2>2. next.todo[j] = <<call.cid, n + (j + 1), call.shards>>
    BY <1>2, <1>4, <1>5, <2>1
  <2>3. n + (j + 1) = (n + 1) + j
    BY <1>2, <2>1
  <2> QED
    BY <1>3, <1>4, <2>2, <2>3
<1>9. ASSUME call.prompt # None
      PROVE  /\ Len(next.out) + Len(next.todo) <= next.count
             /\ \A i \in DOMAIN next.out : next.out[i] = Payload(next.prompt, i)
  <2>1. n + m <= call.count /\ \A i \in 1 .. n : call.out[i] = Payload(call.prompt, i)
    BY <1>2, <1>9 DEF CallRight, n, m
  <2>4. o = Payload(call.prompt, n + 1)
    BY <1>6, <1>9
  <2>5. \A i \in 1 .. n + 1 : next.out[i] = Payload(next.prompt, i)
    BY <1>2, <1>3, <1>4, <2>1, <2>4
  <2>6. Len(next.out) = n + 1 /\ Len(next.todo) = m - 1 /\ next.count = call.count
    BY <1>2, <1>3, <1>4
  <2>7. (n + 1) + (m - 1) = n + m
    BY <1>2
  <2>8. Len(next.out) + Len(next.todo) <= next.count
    BY <2>1, <2>6, <2>7
  <2> QED
    BY <1>3, <1>4, <2>5, <2>8
<1>10. call.prompt # None =>
         \A i \in 1 .. next.count : i \in DOMAIN next.prompt /\ IsChunk(Payload(next.prompt, i), next.cid, i)
  BY <1>4 DEF CallRight
<1> QED
  BY <1>4, <1>8, <1>9, <1>10 DEF CallRight

LEMMA StepRight ==
  ASSUME TypeInv, HitInv, NEW t \in Thread, NextRight(proc[t]), Step(t)
  PROVE  \A u \in Thread : CallRight(proc[u])'
<1> PICK call : call = proc[t]
  OBVIOUS
<1>1. Fits(call) /\ call \in Calling /\ CallRight(call)
  BY DEF TypeInv, CallsFit, Fits, HitInv
<1>2. CallsFit /\ DescsInv /\ \A u \in Thread : CallRight(proc[u])
  BY DEF TypeInv, HitInv
<1>3. ASSUME NEW next, Goto(t, next), CallRight(next) PROVE \A u \in Thread : CallRight(proc[u])'
  BY <1>2, <1>3, RightMoves
<1>4. CASE Return(t)
  BY <1>3, <1>4, IdleRight DEF Return
<1>5. ASSUME NEW next, Goto(t, next), next.op # "reuse" PROVE \A u \in Thread : CallRight(proc[u])'
  BY <1>3, <1>5 DEF CallRight
<1>6. ASSUME NEW next, Goto(t, next), next.op = call.op, next.prompt = call.prompt, next.cid = call.cid,
             next.count = call.count,
             next.at \in {"next", "pop", "remove"} \/ (next.at = "check" /\ call.at = "fetch" /\ next.out = call.out)
      PROVE  \A u \in Thread : CallRight(proc[u])'
  BY <1>1, <1>3, <1>6 DEF CallRight
<1>7. CASE PutChunk(t) /\ ~Return(t)
  <2>1. call.op = "register" /\ Goto(t, [call EXCEPT !.todo = Tail(call.todo)])
    BY <1>1, <1>7 DEF PutChunk, At, Fits
  <2>2. [call EXCEPT !.todo = Tail(call.todo)].op = "register"
    BY <1>1, <2>1 DEF Calling
  <2> QED
    BY <1>5, <2>1, <2>2
<1>8. CASE Fetch(t) /\ ~Return(t)
  <2> DEFINE next == [call EXCEPT !.at = "check", !.desc = table[call.cid]]
  <2>1. Goto(t, next) /\ call.at = "fetch"
    BY <1>8 DEF Fetch, At
  <2>2. /\ next.op = call.op /\ next.prompt = call.prompt /\ next.cid = call.cid
        /\ next.count = call.count /\ next.at = "check" /\ next.out = call.out
    BY <1>1 DEF Calling
  <2> HIDE DEF next
  <2> QED
    BY <1>6, <2>1, <2>2
<1>9. CASE CheckExpired(t)
  <2> DEFINE next == [call EXCEPT !.at = "pop"]
  <2>1. Goto(t, next)
    BY <1>9 DEF CheckExpired
  <2>2. /\ next.op = call.op /\ next.prompt = call.prompt /\ next.cid = call.cid
        /\ next.count = call.count /\ next.at = "pop"
    BY <1>1 DEF Calling
  <2> HIDE DEF next
  <2> QED
    BY <1>6, <2>1, <2>2
<1>10. CASE LookupLive(t)
  <2> DEFINE n == MatchedChunks(call.prompt, descs[call.desc].prompt)
             next == [call EXCEPT !.at = "fetch", !.count = n]
  <2>1. call.at = "check" /\ call.op = "reuse" /\ call.desc \in 1 .. Len(descs) /\ Goto(t, next)
    BY <1>1, <1>2, <1>10 DEF LookupLive, Live, At, Fits, DescsInv
  <2>2. /\ descs[call.desc].cid = call.cid /\ call.cid \in CacheId
        /\ descs[call.desc].prompt \in PromptsOf[call.cid]
        /\ descs[call.desc].prompt \in Seq(Chunk) /\ call.prompt \in Seq(Chunk) \union {None}
    BY <1>1, <1>2, <2>1, DescFacts, PromptFacts DEF Calling, Fits
  <2>3. call.prompt # None =>
          \A i \in 1 .. n : i \in DOMAIN call.prompt /\ IsChunk(Payload(call.prompt, i), call.cid, i)
    BY <2>2, MatchedFacts DEF IsChunk
  <2>4. call.out = <<>>
    BY <1>1, <2>1 DEF CallRight
  <2> HIDE DEF n
  <2>5. /\ next.at = "fetch" /\ next.cid = call.cid /\ next.out = call.out
        /\ next.count = n /\ next.prompt = call.prompt
    BY <1>1 DEF Calling
  <2> HIDE DEF next
  <2>6. CallRight(next)
    BY <2>3, <2>4, <2>5 DEF CallRight
  <2> QED
    BY <1>3, <2>1, <2>6
<1>11. CASE LoadLive(t)
  <2> DEFINE d == descs[call.desc]
             n == IF call.op = "load" \/ call.count > Len(d.prompt) THEN Len(d.prompt) ELSE call.count
             todo == [i \in 1 .. n |-> <<d.cid, i, call.shards>>]
             next == [call EXCEPT !.at = "load", !.todo = todo]
  <2>1. /\ call.at = "check" /\ call.desc \in 1 .. Len(descs) /\ call.op \in {"reuse", "load"}
        /\ call.op = "reuse" => call.count # -1
        /\ Goto(t, next)
    BY <1>1, <1>2, <1>11 DEF LoadLive, Live, At, Fits, DescsInv
  <2>2. d.cid = call.cid /\ Len(d.prompt) \in Nat /\ call.count \in Nat \union {-1}
    BY <1>1, <1>2, <2>1, DescFacts DEF Calling, Fits
  <2>3. CASE call.op = "reuse"
    <3>1. n \in Nat /\ n <= call.count
      BY <2>1, <2>2, <2>3
    <3> HIDE DEF n, d
    <3>2. todo \in Seq({call.cid} \X Nat \X {call.shards})
      BY <2>2, <3>1
    <3>3. /\ Len(todo) = n /\ DOMAIN todo = 1 .. n
          /\ \A j \in 1 .. n : todo[j] = <<call.cid, j, call.shards>>
      BY <2>2, <3>1
    <3> HIDE DEF todo
    <3>4. /\ next.at = "load" /\ next.cid = call.cid /\ next.out = call.out /\ next.todo = todo
          /\ next.count = call.count /\ next.prompt = call.prompt /\ next.shards = call.shards
      BY <1>1 DEF Calling
    <3> HIDE DEF next
    <3>5. call.out = <<>> /\ Len(<<>>) = 0 /\ DOMAIN <<>> = {} /\ \A j \in 1 .. n : 0 + j = j
      BY <1>1, <2>1, <2>3, <3>1 DEF CallRight
    <3>6. next.out = <<>> /\ Len(next.out) = 0 /\ DOMAIN next.out = {} /\ Len(next.todo) = n
      BY <3>3, <3>4, <3>5
    <3>7. Len(next.out) + Len(next.todo) <= next.count
      BY <3>1, <3>4, <3>6
    <3>8. ASSUME NEW j \in DOMAIN next.todo
          PROVE  next.todo[j] = <<next.cid, Len(next.out) + j, next.shards>>
      <4>1. j \in 1 .. n /\ Len(next.out) + j = j
        BY <3>1, <3>3, <3>4, <3>6
      <4> QED
        BY <3>3, <3>4, <4>1
    <3>9. CallRight(next)
      BY <1>1, <2>3, <3>4, <3>6, <3>7, <3>8 DEF CallRight
    <3> QED
      BY <1>3, <2>1, <3>9
  <2>4. CASE call.op = "load"
    <3>1. next.op = "load"
      BY <1>1, <2>4 DEF Calling
    <3> HIDE DEF next
    <3> QED
      BY <1>5, <2>1, <3>1
  <2> QED
    BY <2>1, <2>3, <2>4
<1>12. CASE GetChunk(t) /\ ~Return(t)
  <2> DEFINE next == [call EXCEPT !.todo = Tail(call.todo), !.out = Append(call.out, content[Head(call.todo)])]
  <2>1. /\ call.at = "load" /\ call.todo # <<>> /\ content[Head(call.todo)] # None /\ Goto(t, next)
    BY <1>12 DEF GetChunk, At
  <2>2. CASE call.op = "reuse"
    BY <1>1, <1>3, <2>1, <2>2, GetChunkRight
  <2>3. CASE call.op # "reuse"
    <3>1. next.op = call.op
      BY <1>1 DEF Calling
    <3> HIDE DEF next
    <3> QED
      BY <1>5, <2>1, <2>3, <3>1
  <2> QED
    BY <2>2, <2>3
<1>13. CASE ExtendLive(t)
  <2>1. call.op = "extend_ttl" /\ Goto(t, [call EXCEPT !.at = "extend"])
    BY <1>13 DEF ExtendLive
  <2>2. [call EXCEPT !.at = "extend"].op = "extend_ttl"
    BY <1>1, <2>1 DEF Calling
  <2> QED
    BY <1>5, <2>1, <2>2
<1>14. CASE PinLive(t)
  <2> DEFINE next == [call EXCEPT !.at = "pin", !.todo = KeysOf(descs[call.desc])]
  <2>1. call.op \in {"pin", "unpin"} /\ Goto(t, next)
    BY <1>14 DEF PinLive
  <2>2. next.op = call.op
    BY <1>1 DEF Calling
  <2> HIDE DEF next
  <2> QED
    BY <1>5, <2>1, <2>2
<1>15. CASE PinChunk(t) /\ ~Return(t)
  <2> DEFINE next == [call EXCEPT !.todo = Tail(call.todo)]
  <2>1. call.op \in {"pin", "unpin"} /\ Goto(t, next)
    BY <1>1, <1>15 DEF PinChunk, Fits, At
  <2>2. next.op = call.op
    BY <1>1 DEF Calling
  <2> HIDE DEF next
  <2> QED
    BY <1>5, <2>1, <2>2
<1>16. CASE NextExpired(t) /\ ~Return(t)
  <2>1. PICK c \in call.rest : Goto(t, [call EXCEPT !.at = "pop", !.cid = c, !.rest = call.rest \ {c}])
    BY <1>16 DEF NextExpired
  <2>2. call.op = "sweep"
    BY <1>1, <1>16 DEF NextExpired, Fits, At
  <2>3. [call EXCEPT !.at = "pop", !.cid = c, !.rest = call.rest \ {c}].op = call.op
    BY <1>1 DEF Calling
  <2> QED
    BY <1>5, <2>1, <2>2, <2>3
<1>17. CASE Deleted(t) /\ ~Return(t)
  <2> DEFINE next == [call EXCEPT !.at = "next", !.todo = <<>>]
  <2>1. call.op = "sweep" /\ Goto(t, next)
    BY <1>17 DEF Deleted
  <2>2. next.op = call.op
    BY <1>1 DEF Calling
  <2> HIDE DEF next
  <2> QED
    BY <1>5, <2>1, <2>2
<1>18. CASE Pop(t) /\ ~Deleted(t)
  <2> DEFINE next == [call EXCEPT !.at = "remove", !.todo = KeysOf(descs[table[call.cid]])]
  <2>1. Goto(t, next)
    BY <1>18 DEF Pop
  <2>2. /\ next.op = call.op /\ next.prompt = call.prompt /\ next.cid = call.cid
        /\ next.count = call.count /\ next.at = "remove"
    BY <1>1 DEF Calling
  <2> HIDE DEF next
  <2> QED
    BY <1>6, <2>1, <2>2
<1>19. CASE RemoveChunk(t) /\ ~Deleted(t)
  <2> DEFINE next == [call EXCEPT !.todo = Tail(call.todo)]
  <2>1. Goto(t, next) /\ call.at = "remove"
    BY <1>19 DEF RemoveChunk, At
  <2>2. /\ next.op = call.op /\ next.prompt = call.prompt /\ next.cid = call.cid
        /\ next.count = call.count /\ next.at = "remove"
    BY <1>1, <2>1 DEF Calling
  <2> HIDE DEF next
  <2> QED
    BY <1>6, <2>1, <2>2
<1>20. Publish(t) \/ BuildFailed(t) \/ GetLive(t) \/ Loaded(t) \/ Extend(t) => Return(t)
  BY DEF Publish, BuildFailed, GetLive, Loaded, Extend
<1> QED
  BY <1>4, <1>7, <1>8, <1>9, <1>10, <1>11, <1>12, <1>13, <1>14, <1>15, <1>16, <1>17, <1>18,
     <1>19, <1>20 DEF Step

\* The calls stay right if every chunk that is read is.
LEMMA RightStep ==
  ASSUME TypeInv, HitInv, [Moving]_vars, \A t \in Thread : NextRight(proc[t])
  PROVE  TypeInv' /\ HitInv'
<1>1. ContentRight'
  BY ContentRightStep DEF HitInv
<1>2. ASSUME NEW t \in Thread, NEW op, NEW c \in CacheId, Begin(t, op, c)
      PROVE  \A u \in Thread : CallRight(proc[u])'
  BY <1>2, BeginRight DEF HitInv
<1>3. ASSUME Expire \/ Vanish \/ UNCHANGED vars PROVE \A u \in Thread : CallRight(proc[u])'
  BY <1>3 DEF Expire, Vanish, vars, HitInv, CallRight
<1>4. \A u \in Thread : CallRight(proc[u])'
  BY <1>2, <1>3, StepRight DEF Moving
<1> QED
  BY <1>1, <1>4, TypeStep DEF HitInv

LEMMA RightInit == Init => TypeInv /\ HitInv
<1>1. Init => HitInv
  BY IdleRight DEF Init, HitInv, ContentRight
<1> QED
  BY <1>1, InitType

LEMMA RightHits == HitInv => HitNeverGarbage
BY DEF HitInv, CallRight, HitNeverGarbage, At

\* A chunk under the right key is the right one when the prompts of an id extend one
\* another, whoever put it.
LEMMA CompatibleRight ==
  ASSUME TypeInv, HitInv, Compatible, NEW t \in Thread
  PROVE  NextRight(proc[t])
<1> PICK call : call = proc[t]
  OBVIOUS
<1> SUFFICES ASSUME call.op = "reuse", call.at = "load", call.todo # <<>>, call.prompt # None,
                    content[Head(call.todo)] # None
             PROVE  content[Head(call.todo)] = Payload(call.prompt, Len(call.out) + 1)
  BY DEF NextRight
<1> DEFINE o == content[Head(call.todo)]
           n == Len(call.out)
           m == Len(call.todo)
<1>1. /\ CallRight(call) /\ call \in Calling /\ call.todo \in Seq(Key) /\ call.cid \in CacheId
      /\ call.out \in Seq(Obj \union {None}) /\ call.count \in Nat \union {-1}
  BY DEF HitInv, TypeInv, CallsFit, Fits, Calling
<1>2. /\ n \in Nat /\ m \in Nat \ {0} /\ DOMAIN call.todo = 1 .. m
      /\ Head(call.todo) = call.todo[1] /\ Head(call.todo) \in Key
  BY <1>1
<1>3. Head(call.todo) = <<call.cid, n + 1, call.shards>> /\ n + m <= call.count
  <2>1. /\ \A j \in DOMAIN call.todo : call.todo[j] = <<call.cid, n + j, call.shards>>
        /\ n + m <= call.count
    BY <1>1 DEF CallRight
  <2>2. 1 \in DOMAIN call.todo
    BY <1>2
  <2> QED
    BY <1>2, <2>1, <2>2
<1>4. IsChunk(o, call.cid, n + 1)
  BY <1>2, <1>3 DEF HitInv, ContentRight
<1> HIDE DEF o, n, m
<1>5. n + 1 \in 1 .. call.count
  BY <1>1, <1>2, <1>3
<1>6. IsChunk(Payload(call.prompt, n + 1), call.cid, n + 1)
  BY <1>1, <1>5 DEF CallRight
<1>7. o = Payload(call.prompt, n + 1)
  BY <1>1, <1>4, <1>6, ChunkUnique
<1> QED
  BY <1>7 DEF o, n

\* "An explicit hit can never serve stale/garbage KV" (engine.py:10-11): with any number
\* of threads registering, deleting, expiring and loading, and a store that may evict,
\* refuse and lose chunks, a load that follows a lookup returns the request's own chunks
\* or fails.
THEOREM HitIsRight == ASSUME Compatible PROVE Spec => []HitNeverGarbage
<1>1. TypeInv /\ HitInv /\ [Next]_vars => TypeInv' /\ HitInv'
  BY CompatibleRight, RightStep, NextMoves
<1> QED
  BY <1>1, RightInit, RightHits, PTL DEF Spec

-----------------------------------------------------------------------------
(***************************************************************************)
(* One writer.  When one thread does all that changes the table: what the  *)
(* hazards of the engine (a put or a removal of chunks that overlaps       *)
(* another call on the id) leave true.  Either the writer is the only      *)
(* thread, or the other threads only read and no cache has a ttl, so that  *)
(* no read turns into a delete.                                            *)
(***************************************************************************)
Timeless == "some" \notin TTLChoices /\ \A t \in Thread : "extend_ttl" \notin OpsOf[t]
Reading == {"get", "reuse", "load"}

OneWriter(w) == /\ w \in Thread
                /\ \/ Thread = {w}
                   \/ Timeless /\ \A t \in Thread \ {w} : OpsOf[t] \subseteq Reading

-----------------------------------------------------------------------------
(***************************************************************************)
(* Where the threads are.  Only the writer leaves the reading steps; what  *)
(* it has fetched is still what the table says, what it retires has        *)
(* expired, and what it removes is no longer published.                    *)
(***************************************************************************)
Of(c) == descs[table[c]]
Left(call) == {call.todo[j] : j \in DOMAIN call.todo}

OthersRead(w) == \A t \in Thread \ {w} : /\ proc[t].at \in {"idle", "fetch", "check", "load"}
                                         /\ proc[t].op \in Reading \union {"none"}

NeverExpires == \A d \in DOMAIN descs : ~descs[d].ttl /\ ~descs[d].expired

Place(w, call) ==
    /\ call.op \in OpsOf[w] \union {"none"}
    /\ call.at = "put" => call.ttl \in TTLChoices
    /\ call.at \in {"check", "extend", "pin"} => call.desc = table[call.cid]
    /\ call.at = "pop" /\ call.op # "delete" /\ call.cid \in Published => Of(call.cid).expired
    /\ \A c \in call.rest : c \in Published => Of(c).expired
    /\ call.at = "remove" => call.cid \notin Published /\ \A k \in Left(call) : k[1] = call.cid

PlaceInv(w) == /\ OthersRead(w)
               /\ Thread # {w} => NeverExpires
               /\ Place(w, proc[w])

\* A published descriptor.
LEMMA OfFacts ==
  ASSUME DescsInv, NEW c \in Published
  PROVE  /\ c \in CacheId /\ table[c] \in 1 .. Len(descs) /\ table[c] \in DOMAIN descs
         /\ Of(c) \in Descriptor /\ Of(c).cid = c /\ Of(c).prompt \in PromptsOf[c]
         /\ Of(c).shards \in ShardCounts
         /\ KeysetOf(Of(c)) \subseteq Key
         /\ \A k \in KeysetOf(Of(c)) : k[1] = c /\ k[2] \in 1 .. Len(Of(c).prompt)
<1>1. c \in CacheId /\ table[c] \in 1 .. Len(descs)
  BY DEF DescsInv, Published
<1>2. Of(c) \in Descriptor /\ table[c] \in DOMAIN descs /\ Of(c).prompt \in PromptsOf[Of(c).cid]
  BY <1>1, DescFacts DEF Of
<1>3. Of(c).cid = c
  BY DEF DescsInv, Of
<1>4. Of(c).shards \in ShardCounts
  BY <1>2 DEF Descriptor
<1>5. KeysetOf(Of(c)) \subseteq Key
  BY <1>2, KeysOfFacts
<1> QED
  BY <1>1, <1>2, <1>3, <1>4, <1>5 DEF KeysetOf, KeySet

\* The thread that moves, and the others.
LEMMA Moved ==
  ASSUME CallsFit, NEW t \in Thread, NEW next, Goto(t, next)
  PROVE  proc'[t] = next /\ \A u \in Thread \ {t} : proc'[u] = proc[u]
BY DEF CallsFit, Goto

\* Where a call that begins goes.
LEMMA BeginPlace ==
  ASSUME TypeInv, NEW t \in Thread, NEW op \in OpsOf[t], NEW c \in CacheId, Begin(t, op, c)
  PROVE  \E next : /\ Goto(t, next) /\ next.op = op
                   /\ \/ op \in Fetching /\ next.at = "fetch" /\ next.rest = {}
                      \/ op = "register" /\ next.at = "put" /\ next.rest = {} /\ next.ttl \in TTLChoices
                         /\ next.todo = ChunkKeys(next.cid, Len(next.prompt), next.shards)
                         /\ next.prompt \in PromptsOf[next.cid] /\ next.shards \in ShardCounts
                         /\ next.cid \in CacheId
                      \/ op = "delete" /\ next.at = "pop" /\ next.rest = {}
                      \/ /\ op = "sweep" /\ next.at = "next"
                         /\ \A e \in next.rest : e \in Published /\ Of(e).expired
<1>1. Idle \in Calling /\ Idle.rest = {}
  BY IdleFits DEF TypeInv, Fits, Idle
<1>2. CASE op = "register" /\ BeginRegister(t, c)
  <2>1. PICK p \in PromptsOf[c], n \in ShardCounts, pin \in PinChoices, ttl \in TTLChoices :
               Goto(t, [Idle EXCEPT !.at = "put", !.op = "register", !.cid = c, !.prompt = p,
                                    !.shards = n, !.pin = pin, !.ttl = ttl,
                                    !.todo = ChunkKeys(c, Len(p), n)])
    BY <1>2 DEF BeginRegister
  <2> DEFINE next == [Idle EXCEPT !.at = "put", !.op = "register", !.cid = c, !.prompt = p,
                                  !.shards = n, !.pin = pin, !.ttl = ttl,
                                  !.todo = ChunkKeys(c, Len(p), n)]
  <2>2. /\ next.op = "register" /\ next.at = "put" /\ next.rest = {} /\ next.ttl \in TTLChoices
        /\ next.cid = c /\ next.prompt = p /\ next.shards = n /\ next.todo = ChunkKeys(c, Len(p), n)
    BY <1>1 DEF Calling
  <2>3. Goto(t, next)
    BY <2>1
  <2> HIDE DEF next
  <2> QED
    BY <1>2, <2>2, <2>3
<1>3. CASE op = "reuse" /\ \E p \in Request, v \in Worker : BeginReuse(t, c, p, v)
  <2>1. PICK p \in Request, v \in Worker : BeginReuse(t, c, p, v)
    BY <1>3
  <2> DEFINE next == [Idle EXCEPT !.at = "fetch", !.op = "reuse", !.cid = c,
                                  !.prompt = p, !.shards = v, !.count = -1]
  <2>2. next.op = "reuse" /\ next.at = "fetch" /\ next.rest = {}
    BY <1>1 DEF Calling
  <2>3. Goto(t, next)
    BY <2>1 DEF BeginReuse
  <2> HIDE DEF next
  <2> QED
    BY <1>3, <2>2, <2>3 DEF Fetching
<1>4. CASE op \in {"get", "extend_ttl", "pin", "unpin"}
           /\ Goto(t, [Idle EXCEPT !.at = "fetch", !.op = op, !.cid = c])
  <2> DEFINE next == [Idle EXCEPT !.at = "fetch", !.op = op, !.cid = c]
  <2>1. next.op = op /\ next.at = "fetch" /\ next.rest = {}
    BY <1>1 DEF Calling
  <2>2. Goto(t, next)
    BY <1>4
  <2> HIDE DEF next
  <2> QED
    BY <1>4, <2>1, <2>2 DEF Fetching
<1>5. CASE op = "load" /\ \E v \in Worker :
             Goto(t, [Idle EXCEPT !.at = "fetch", !.op = op, !.cid = c, !.shards = v])
  <2>1. PICK v \in Worker : Goto(t, [Idle EXCEPT !.at = "fetch", !.op = op, !.cid = c, !.shards = v])
    BY <1>5
  <2> DEFINE next == [Idle EXCEPT !.at = "fetch", !.op = op, !.cid = c, !.shards = v]
  <2>2. next.op = op /\ next.at = "fetch" /\ next.rest = {}
    BY <1>1 DEF Calling
  <2>3. Goto(t, next)
    BY <2>1
  <2> HIDE DEF next
  <2> QED
    BY <1>5, <2>2, <2>3 DEF Fetching
<1>6. CASE op = "delete" /\ Goto(t, [Idle EXCEPT !.at = "pop", !.op = op, !.cid = c])
  <2> DEFINE next == [Idle EXCEPT !.at = "pop", !.op = op, !.cid = c]
  <2>1. next.op = op /\ next.at = "pop" /\ next.rest = {}
    BY <1>1 DEF Calling
  <2>2. Goto(t, next)
    BY <1>6
  <2> HIDE DEF next
  <2> QED
    BY <1>6, <2>1, <2>2
<1>7. CASE op = "sweep" /\ Goto(t, [Idle EXCEPT !.at = "next", !.op = op,
                                      !.rest = {e \in Published : descs[table[e]].expired}])
  <2> DEFINE next == [Idle EXCEPT !.at = "next", !.op = op,
                                  !.rest = {e \in Published : descs[table[e]].expired}]
  <2>1. next.op = op /\ next.at = "next" /\ next.rest = {e \in Published : descs[table[e]].expired}
    BY <1>1 DEF Calling
  <2>2. Goto(t, next)
    BY <1>7
  <2> HIDE DEF next
  <2> QED
    BY <1>7, <2>1, <2>2 DEF Of
<1> QED
  BY <1>2, <1>3, <1>4, <1>5, <1>6, <1>7 DEF Begin

\* A step of a reader changes its own call only.
LEMMA ReaderStep ==
  ASSUME TypeInv, NEW w \in Thread, OneWriter(w), PlaceInv(w), NEW t \in Thread \ {w},
         Call(t) \/ Step(t)
  PROVE  /\ UNCHANGED <<content, kept, descs, table>> /\ proc'[w] = proc[w]
         /\ OthersRead(w)'
<1> PICK call : call = proc[t]
  OBVIOUS
<1>1. /\ OpsOf[t] \subseteq Reading /\ NeverExpires /\ t # w
      /\ call.at \in {"idle", "fetch", "check", "load"} /\ call.op \in Reading \union {"none"}
      /\ call \in Calling /\ Fits(call)
  BY DEF OneWriter, PlaceInv, OthersRead, TypeInv, CallsFit, Fits
<1>2. ASSUME NEW next, Goto(t, next), next.at \in {"idle", "fetch", "check", "load"},
             next.op \in Reading \union {"none"}
      PROVE  proc'[w] = proc[w] /\ OthersRead(w)'
  <2>1. proc'[t] = next /\ \A u \in Thread \ {t} : proc'[u] = proc[u]
    BY <1>2, Moved DEF TypeInv
  <2> QED
    BY <1>1, <1>2, <2>1 DEF PlaceInv, OthersRead
<1>3. CASE Call(t)
  <2>1. PICK op \in OpsOf[t], c \in CacheId : Begin(t, op, c)
    BY <1>3 DEF Call
  <2>2. op \in Reading /\ UNCHANGED <<content, kept, descs, table>>
    BY <1>1, <2>1 DEF Begin
  <2>3. PICK next : Goto(t, next) /\ next.op = op /\ next.at = "fetch"
    BY <2>1, <2>2, BeginPlace DEF Reading
  <2> QED
    BY <1>2, <2>2, <2>3
<1>4. CASE Step(t)
  <2>1. /\ call.at = "check" => ~descs[call.desc].expired
        /\ ~At(t, "put") /\ ~At(t, "extend") /\ ~At(t, "pin") /\ ~At(t, "next")
        /\ ~At(t, "pop") /\ ~At(t, "remove") /\ call.op \notin {"extend_ttl", "pin", "unpin"}
    <3>1. call.at = "check" => call.desc \in DOMAIN descs
      BY <1>1 DEF Fits, TypeInv, DescsInv
    <3> QED
      BY <1>1, <3>1 DEF NeverExpires, At, Reading
  <2>2. Fetch(t) \/ GetLive(t) \/ LookupLive(t) \/ LoadLive(t) \/ GetChunk(t) \/ Loaded(t)
    BY <1>4, <2>1 DEF Step, PutChunk, Publish, BuildFailed, CheckExpired, ExtendLive, Extend,
                      PinLive, PinChunk, NextExpired, Pop, RemoveChunk, Live, At
  <2>3. UNCHANGED <<content, kept, descs, table>>
    BY <2>2 DEF Fetch, GetLive, LookupLive, LoadLive, GetChunk, Loaded
  <2>4. CASE Return(t)
    <3>1. Idle.at = "idle" /\ Idle.op = "none"
      BY DEF Idle
    <3> QED
      BY <1>2, <2>3, <2>4, <3>1 DEF Return
  <2>5. CASE Fetch(t) /\ ~Return(t)
    <3> DEFINE next == [call EXCEPT !.at = "check", !.desc = table[call.cid]]
    <3>1. Goto(t, next)
      BY <2>5 DEF Fetch
    <3>2. next.at = "check" /\ next.op = call.op
      BY <1>1 DEF Calling
    <3> HIDE DEF next
    <3> QED
      BY <1>1, <1>2, <2>3, <3>1, <3>2
  <2>6. CASE LookupLive(t)
    <3> DEFINE next == [call EXCEPT !.at = "fetch",
                          !.count = MatchedChunks(call.prompt, descs[call.desc].prompt)]
    <3>1. Goto(t, next)
      BY <2>6 DEF LookupLive
    <3>2. next.at = "fetch" /\ next.op = call.op
      BY <1>1 DEF Calling
    <3> HIDE DEF next
    <3> QED
      BY <1>1, <1>2, <2>3, <3>1, <3>2
  <2>7. CASE LoadLive(t)
    <3>1. PICK todo : Goto(t, [call EXCEPT !.at = "load", !.todo = todo])
      BY <2>7 DEF LoadLive
    <3> DEFINE next == [call EXCEPT !.at = "load", !.todo = todo]
    <3>2. next.at = "load" /\ next.op = call.op
      BY <1>1 DEF Calling
    <3>3. Goto(t, next)
      BY <3>1
    <3> HIDE DEF next
    <3> QED
      BY <1>1, <1>2, <2>3, <3>3, <3>2
  <2>8. CASE GetChunk(t) /\ ~Return(t)
    <3> DEFINE next == [call EXCEPT !.todo = Tail(call.todo),
                                    !.out = Append(call.out, content[Head(call.todo)])]
    <3>1. Goto(t, next)
      BY <2>8 DEF GetChunk
    <3>2. next.at = call.at /\ next.op = call.op
      BY <1>1 DEF Calling
    <3> HIDE DEF next
    <3> QED
      BY <1>1, <1>2, <2>3, <3>1, <3>2
  <2> QED
    BY <2>2, <2>4, <2>5, <2>6, <2>7, <2>8 DEF GetLive, Loaded
<1> QED
  BY <1>3, <1>4

\* The writer moves.
LEMMA WriterMoves ==
  ASSUME CallsFit, NEW w \in Thread, OthersRead(w), Thread # {w} => NeverExpires', NEW next,
         Goto(w, next), Place(w, next)'
  PROVE  PlaceInv(w)'
<1>1. proc'[w] = next /\ \A u \in Thread \ {w} : proc'[u] = proc[u]
  BY Moved
<1>2. OthersRead(w)'
  BY <1>1 DEF OthersRead
<1>3. Place(w, proc[w])'
  BY <1>1 DEF Place, Left
<1> QED
  BY <1>2, <1>3 DEF PlaceInv

\* The descriptors and the table stay as they are.
LEMMA PlaceStays ==
  ASSUME NEW w, NEW call, Place(w, call), UNCHANGED <<descs, table>>
  PROVE  Place(w, call)'
BY DEF Place, Of, Published

LEMMA WriterStays ==
  ASSUME CallsFit, NEW w \in Thread, PlaceInv(w), NEW next, Goto(w, next), Place(w, next),
         UNCHANGED <<descs, table>>
  PROVE  PlaceInv(w)'
<1>1. Place(w, next)'
  BY PlaceStays
<1>2. Thread # {w} => NeverExpires'
  BY DEF PlaceInv, NeverExpires
<1> QED
  BY <1>1, <1>2, WriterMoves DEF PlaceInv

LEMMA IdlePlace ==
  ASSUME NEW w PROVE Place(w, Idle)
<1>1. Idle.at = "idle" /\ Idle.op = "none" /\ Idle.rest = {}
  BY DEF Idle
<1> QED
  BY <1>1 DEF Place
\* What a call carries on to its next key.
LEMMA LeftTail ==
  ASSUME NEW call \in Calling, call.todo # <<>>
  PROVE  LET next == [call EXCEPT !.todo = Tail(call.todo)]
         IN  /\ Left(next) \subseteq Left(call) /\ Left(call) \subseteq Left(next) \union {Head(call.todo)}
             /\ Head(call.todo) \in Left(call)
             /\ Len(call.todo) = 1 => Left(call) = {Head(call.todo)}
<1> DEFINE next == [call EXCEPT !.todo = Tail(call.todo)]
<1>1. next.todo = Tail(call.todo) /\ call.todo \in Seq(Key)
  BY DEF Calling
<1>2. /\ Len(call.todo) \in Nat \ {0} /\ DOMAIN call.todo = 1 .. Len(call.todo)
      /\ Head(call.todo) = call.todo[1]
      /\ DOMAIN Tail(call.todo) = 1 .. Len(call.todo) - 1
      /\ \A j \in 1 .. Len(call.todo) - 1 : Tail(call.todo)[j] = call.todo[j + 1]
  BY <1>1
<1>3. \A i \in DOMAIN call.todo : call.todo[i] = Head(call.todo)
                                  \/ \E j \in DOMAIN Tail(call.todo) : Tail(call.todo)[j] = call.todo[i]
  BY <1>1, TailFacts
<1> HIDE DEF next
<1>4. Left(next) \subseteq Left(call)
  BY <1>1, <1>2 DEF Left
<1>5. Left(call) \subseteq Left(next) \union {Head(call.todo)}
  BY <1>1, <1>3 DEF Left
<1>6. Head(call.todo) \in Left(call)
  BY <1>2 DEF Left
<1>7. Len(call.todo) = 1 => Left(call) = {Head(call.todo)}
  BY <1>2 DEF Left
<1> QED
  BY <1>4, <1>5, <1>6, <1>7 DEF next

\* Where the writer goes when it has deleted what it had to.
LEMMA DeletedPlace ==
  ASSUME NEW w \in Thread, NEW call \in Calling, call = proc[w], Place(w, call), Deleted(w)
  PROVE  \E next : /\ Goto(w, next) /\ Place(w, next) /\ next.at \in {"idle", "next"}
                   /\ next.rest \subseteq call.rest
<1>1. CASE Return(w)
  <2>1. Idle.at = "idle" /\ Idle.rest = {}
    BY DEF Idle
  <2> QED
    BY <1>1, <2>1, IdlePlace DEF Return
<1>2. CASE Goto(w, [call EXCEPT !.at = "next", !.todo = <<>>])
  <2> DEFINE next == [call EXCEPT !.at = "next", !.todo = <<>>]
  <2>1. next.at = "next" /\ next.op = call.op /\ next.rest = call.rest
    BY DEF Calling
  <2>2. Goto(w, next)
    BY <1>2
  <2> HIDE DEF next
  <2> QED
    BY <2>1, <2>2 DEF Place
<1> QED
  BY <1>1, <1>2 DEF Deleted

\* The writer's own steps.
LEMMA WriterPlace ==
  ASSUME TypeInv, NEW w \in Thread, OneWriter(w), PlaceInv(w), Call(w) \/ Step(w)
  PROVE  PlaceInv(w)'
<1> PICK call : call = proc[w]
  OBVIOUS
<1>1. /\ call \in Calling /\ Fits(call) /\ Place(w, call) /\ CallsFit /\ DescsInv /\ OthersRead(w)
      /\ Thread # {w} => NeverExpires /\ Timeless
  BY DEF TypeInv, PlaceInv, CallsFit, Fits, OneWriter
<1>2. ASSUME NEW next, Goto(w, next), Place(w, next), UNCHANGED <<descs, table>> PROVE PlaceInv(w)'
  BY <1>1, <1>2, WriterStays
<1>3. CASE Return(w) /\ UNCHANGED <<descs, table>>
  BY <1>2, <1>3, IdlePlace DEF Return
<1>4. CASE Call(w)
  <2>1. PICK op \in OpsOf[w], c \in CacheId : Begin(w, op, c)
    BY <1>4 DEF Call
  <2>2. UNCHANGED <<descs, table>>
    BY <2>1 DEF Begin
  <2>3. PICK next : /\ Goto(w, next) /\ next.op = op
                    /\ \/ op \in Fetching /\ next.at = "fetch" /\ next.rest = {}
                       \/ op = "register" /\ next.at = "put" /\ next.rest = {} /\ next.ttl \in TTLChoices
                          /\ next.todo = ChunkKeys(next.cid, Len(next.prompt), next.shards)
                          /\ next.prompt \in PromptsOf[next.cid] /\ next.shards \in ShardCounts
                          /\ next.cid \in CacheId
                       \/ op = "delete" /\ next.at = "pop" /\ next.rest = {}
                       \/ /\ op = "sweep" /\ next.at = "next"
                          /\ \A e \in next.rest : e \in Published /\ Of(e).expired
    BY <2>1, BeginPlace
  <2>4. Place(w, next)
    BY <2>3 DEF Place
  <2> QED
    BY <1>2, <2>2, <2>3, <2>4
<1>5. CASE PutChunk(w) /\ ~Return(w)
  <2> DEFINE next == [call EXCEPT !.todo = Tail(call.todo)]
  <2>1. Goto(w, next) /\ call.at = "put" /\ UNCHANGED <<descs, table>>
    BY <1>5 DEF PutChunk, At
  <2>2. next.at = call.at /\ next.op = call.op /\ next.ttl = call.ttl /\ next.rest = call.rest
    BY <1>1 DEF Calling
  <2> HIDE DEF next
  <2>3. Place(w, next)
    BY <1>1, <2>1, <2>2 DEF Place
  <2> QED
    BY <1>2, <2>1, <2>3
<1>6. CASE Publish(w)
  <2> DEFINE d == [cid |-> call.cid, prompt |-> call.prompt, shards |-> call.shards,
                   pinned |-> call.pin, ttl |-> call.ttl = "some", expired |-> FALSE]
  <2>1. call.at = "put" /\ Goto(w, Idle) /\ descs' = Append(descs, d)
    BY <1>6 DEF Publish, At, Return
  <2>2. d.ttl = (call.ttl = "some") /\ d.expired = FALSE
    OBVIOUS
  <2> HIDE DEF d
  <2>3. NeverExpires /\ Timeless => NeverExpires'
    <3> SUFFICES ASSUME NeverExpires, Timeless, NEW e \in DOMAIN descs'
                 PROVE  ~descs'[e].ttl /\ ~descs'[e].expired
      BY DEF NeverExpires
    <3>1. \/ e \in DOMAIN descs /\ descs'[e] = descs[e]
          \/ descs'[e] = d
      BY <1>1, <2>1 DEF DescsInv
    <3>2. ~d.ttl
      BY <1>1, <2>1, <2>2 DEF Place, Timeless
    <3> QED
      BY <2>2, <3>1, <3>2 DEF NeverExpires
  <2>4. Idle.at = "idle" /\ Idle.op = "none" /\ Idle.rest = {}
    BY DEF Idle
  <2>5. Place(w, Idle)'
    BY <2>4 DEF Place
  <2> QED
    BY <1>1, <2>1, <2>3, <2>5, WriterMoves
<1>7. CASE Fetch(w) /\ ~Return(w)
  <2> DEFINE next == [call EXCEPT !.at = "check", !.desc = table[call.cid]]
  <2>1. Goto(w, next) /\ UNCHANGED <<descs, table>>
    BY <1>7 DEF Fetch
  <2>2. /\ next.at = "check" /\ next.op = call.op /\ next.rest = call.rest
        /\ next.desc = table[call.cid] /\ next.cid = call.cid
    BY <1>1 DEF Calling
  <2> HIDE DEF next
  <2>3. Place(w, next)
    BY <1>1, <2>2 DEF Place
  <2> QED
    BY <1>2, <2>1, <2>3
<1>8. CASE CheckExpired(w)
  <2> DEFINE next == [call EXCEPT !.at = "pop"]
  <2>1. Goto(w, next) /\ UNCHANGED <<descs, table>> /\ call.at = "check" /\ descs[call.desc].expired
    BY <1>8 DEF CheckExpired, At
  <2>2. next.at = "pop" /\ next.op = call.op /\ next.rest = call.rest /\ next.cid = call.cid
    BY <1>1 DEF Calling
  <2> HIDE DEF next
  <2>3. Of(call.cid).expired
    BY <1>1, <2>1 DEF Place, Of
  <2>4. Place(w, next)
    BY <1>1, <2>2, <2>3 DEF Place
  <2> QED
    BY <1>2, <2>1, <2>4
<1>9. CASE LookupLive(w)
  <2> DEFINE next == [call EXCEPT !.at = "fetch",
                        !.count = MatchedChunks(call.prompt, descs[call.desc].prompt)]
  <2>1. Goto(w, next) /\ UNCHANGED <<descs, table>>
    BY <1>9 DEF LookupLive
  <2>2. next.at = "fetch" /\ next.op = call.op /\ next.rest = call.rest
    BY <1>1 DEF Calling
  <2> HIDE DEF next
  <2>3. Place(w, next)
    BY <1>1, <2>2 DEF Place
  <2> QED
    BY <1>2, <2>1, <2>3
<1>10. CASE LoadLive(w)
  <2>1. PICK todo : Goto(w, [call EXCEPT !.at = "load", !.todo = todo])
    BY <1>10 DEF LoadLive
  <2> DEFINE next == [call EXCEPT !.at = "load", !.todo = todo]
  <2>2. next.at = "load" /\ next.op = call.op /\ next.rest = call.rest
    BY <1>1 DEF Calling
  <2>3. Goto(w, next) /\ UNCHANGED <<descs, table>>
    BY <1>10, <2>1 DEF LoadLive
  <2> HIDE DEF next
  <2>4. Place(w, next)
    BY <1>1, <2>2 DEF Place
  <2> QED
    BY <1>2, <2>3, <2>4
<1>11. CASE GetChunk(w) /\ ~Return(w)
  <2> DEFINE next == [call EXCEPT !.todo = Tail(call.todo),
                                  !.out = Append(call.out, content[Head(call.todo)])]
  <2>1. Goto(w, next) /\ UNCHANGED <<descs, table>> /\ call.at = "load"
    BY <1>11 DEF GetChunk, At
  <2>2. next.at = call.at /\ next.op = call.op /\ next.rest = call.rest
    BY <1>1 DEF Calling
  <2> HIDE DEF next
  <2>3. Place(w, next)
    BY <1>1, <2>1, <2>2 DEF Place
  <2> QED
    BY <1>2, <2>1, <2>3
<1>12. CASE ExtendLive(w)
  <2> DEFINE next == [call EXCEPT !.at = "extend"]
  <2>1. Goto(w, next) /\ UNCHANGED <<descs, table>> /\ call.at = "check"
    BY <1>12 DEF ExtendLive, Live, At
  <2>2. /\ next.at = "extend" /\ next.op = call.op /\ next.rest = call.rest
        /\ next.desc = call.desc /\ next.cid = call.cid
    BY <1>1 DEF Calling
  <2> HIDE DEF next
  <2>3. Place(w, next)
    BY <1>1, <2>1, <2>2 DEF Place
  <2> QED
    BY <1>2, <2>1, <2>3
<1>13. CASE Extend(w)
  <2>1. call.op = "extend_ttl" /\ Goto(w, Idle)
    BY <1>1, <1>13 DEF Extend, Return, At, Fits
  <2>2. Thread = {w}
    BY <1>1, <2>1 DEF Place, Timeless
  <2>3. Idle.at = "idle" /\ Idle.op = "none" /\ Idle.rest = {}
    BY DEF Idle
  <2>4. Place(w, Idle)'
    BY <2>3 DEF Place
  <2> QED
    BY <1>1, <2>1, <2>2, <2>4, WriterMoves
<1>14. CASE PinLive(w)
  <2> PICK next : next = [call EXCEPT !.at = "pin", !.todo = KeysOf(descs[call.desc])]
    OBVIOUS
  <2>1. /\ Goto(w, next) /\ table' = table /\ call.at = "check"
        /\ descs' = [descs EXCEPT ![call.desc].pinned = (call.op = "pin")]
    BY <1>14 DEF PinLive, Live, At
  <2>2. /\ next.at = "pin" /\ next.op = call.op /\ next.rest = call.rest
        /\ next.desc = call.desc /\ next.cid = call.cid
    BY <1>1 DEF Calling
  <2>3. DOMAIN descs' = DOMAIN descs /\ descs \in Seq(Descriptor)
    BY <1>1, <2>1 DEF DescsInv
  <2>4. \A e \in DOMAIN descs : descs[e] \in Descriptor
    BY <2>3
  <2>5. \A e \in DOMAIN descs : descs'[e].ttl = descs[e].ttl /\ descs'[e].expired = descs[e].expired
    BY <2>1, <2>3, <2>4 DEF Descriptor
  <2>6. NeverExpires => NeverExpires'
    BY <2>3, <2>5 DEF NeverExpires
  <2>7. \A c \in Published : Of(c)'.expired = Of(c).expired
    BY <1>1, <2>1, <2>5, OfFacts DEF Of
  <2>8. Place(w, next)'
    BY <1>1, <2>1, <2>2, <2>7 DEF Place, Published
  <2> QED
    BY <1>1, <2>1, <2>6, <2>8, WriterMoves
<1>15. CASE PinChunk(w) /\ ~Return(w)
  <2> DEFINE next == [call EXCEPT !.todo = Tail(call.todo)]
  <2>1. Goto(w, next) /\ UNCHANGED <<descs, table>> /\ call.at = "pin"
    BY <1>15 DEF PinChunk, At
  <2>2. /\ next.at = call.at /\ next.op = call.op /\ next.rest = call.rest
        /\ next.desc = call.desc /\ next.cid = call.cid
    BY <1>1 DEF Calling
  <2> HIDE DEF next
  <2>3. Place(w, next)
    BY <1>1, <2>1, <2>2 DEF Place
  <2> QED
    BY <1>2, <2>1, <2>3
<1>16. CASE NextExpired(w) /\ ~Return(w)
  <2>1. PICK c \in call.rest : Goto(w, [call EXCEPT !.at = "pop", !.cid = c, !.rest = call.rest \ {c}])
    BY <1>16 DEF NextExpired
  <2> DEFINE next == [call EXCEPT !.at = "pop", !.cid = c, !.rest = call.rest \ {c}]
  <2>2. next.at = "pop" /\ next.op = call.op /\ next.rest = call.rest \ {c} /\ next.cid = c
    BY <1>1 DEF Calling
  <2>3. Goto(w, next) /\ UNCHANGED <<descs, table>>
    BY <1>16, <2>1 DEF NextExpired
  <2> HIDE DEF next
  <2>4. Place(w, next)
    BY <1>1, <2>2 DEF Place
  <2> QED
    BY <1>2, <2>3, <2>4
<1>17. CASE Deleted(w) /\ UNCHANGED <<descs, table>>
  BY <1>1, <1>2, <1>17, DeletedPlace
<1>18. CASE Pop(w) /\ ~(Deleted(w) /\ table' = table)
  <2> DEFINE c == call.cid
             todo == KeysOf(descs[table[c]])
  <2> PICK next : next = [call EXCEPT !.at = "remove", !.todo = todo]
    OBVIOUS
  <2>1. /\ Goto(w, next) /\ c \in Published /\ descs' = descs
        /\ table' = [table EXCEPT ![c] = 0]
    BY <1>18 DEF Pop
  <2>2. Of(c).cid = c /\ Of(c) \in Descriptor /\ Of(c).prompt \in PromptsOf[Of(c).cid]
        /\ \A k \in KeysetOf(Of(c)) : k[1] = c
    BY <1>1, <2>1, OfFacts
  <2>3. todo \in Seq(KeysetOf(Of(c))) /\ todo \in Seq(Key)
    BY <2>2, KeysOfFacts DEF Of
  <2>4. \A j \in DOMAIN todo : todo[j] \in KeysetOf(Of(c))
    BY <2>3
  <2> HIDE DEF todo
  <2>5. next.at = "remove" /\ next.op = call.op /\ next.rest = call.rest /\ next.cid = c /\ next.todo = todo
    BY <1>1 DEF Calling
  <2>6. \A k \in Left(next) : k[1] = c
    BY <2>2, <2>4, <2>5 DEF Left
  <2>7. c \notin Published' /\ \A e \in Published' : e \in Published /\ Of(e)' = Of(e)
    BY <1>1, <2>1 DEF DescsInv, Published, Of
  <2>8. \A e \in next.rest : e \in Published' => Of(e)'.expired
    BY <1>1, <2>5, <2>7 DEF Place
  <2>9. Place(w, next)'
    BY <1>1, <2>5, <2>6, <2>7, <2>8 DEF Place, Left
  <2>10. NeverExpires => NeverExpires'
    BY <2>1 DEF NeverExpires
  <2> QED
    BY <1>1, <2>1, <2>9, <2>10, WriterMoves
<1>19. CASE RemoveChunk(w) /\ ~Deleted(w)
  <2> DEFINE next == [call EXCEPT !.todo = Tail(call.todo)]
  <2>1. Goto(w, next) /\ UNCHANGED <<descs, table>> /\ call.at = "remove" /\ call.todo # <<>>
    BY <1>1, <1>19 DEF RemoveChunk, At, Fits
  <2>2. next.at = call.at /\ next.op = call.op /\ next.rest = call.rest /\ next.cid = call.cid
    BY <1>1 DEF Calling
  <2>3. Left(next) \subseteq Left(call)
    BY <1>1, <2>1, LeftTail
  <2> HIDE DEF next
  <2>4. Place(w, next)
    BY <1>1, <2>1, <2>2, <2>3 DEF Place
  <2> QED
    BY <1>2, <2>1, <2>4
<1> QED
  <2>1. CASE Step(w)
    <3>1. /\ BuildFailed(w) \/ GetLive(w) \/ Loaded(w) => Return(w) /\ UNCHANGED <<descs, table>>
          /\ PutChunk(w) \/ Fetch(w) \/ GetChunk(w) \/ PinChunk(w) \/ NextExpired(w) \/ RemoveChunk(w)
             => UNCHANGED <<descs, table>>
          /\ Pop(w) => descs' = descs
      BY DEF BuildFailed, GetLive, Loaded, PutChunk, Fetch, GetChunk, PinChunk, NextExpired,
             RemoveChunk, Pop
    <3> QED
      BY <1>3, <1>5, <1>6, <1>7, <1>8, <1>9, <1>10, <1>11, <1>12, <1>13, <1>14, <1>15, <1>16,
         <1>17, <1>18, <1>19, <2>1, <3>1 DEF Step
  <2> QED
    BY <1>4, <2>1
\* Time passes only where caches have a ttl, and then under no other thread.
LEMMA StillPlace ==
  ASSUME TypeInv, NEW w \in Thread, PlaceInv(w), Expire \/ Vanish \/ UNCHANGED vars
  PROVE  PlaceInv(w)'
<1>1. CASE Vanish \/ UNCHANGED vars
  <2>1. UNCHANGED <<descs, table, proc>>
    BY <1>1 DEF Vanish, vars
  <2> QED
    BY <2>1 DEF PlaceInv, Place, OthersRead, NeverExpires, Of, Left, Published
<1>2. CASE Expire
  <2>1. PICK d \in DOMAIN descs : descs[d].ttl /\ descs' = [descs EXCEPT ![d].expired = TRUE]
    BY <1>2 DEF Expire
  <2>2. Thread = {w}
    BY <2>1 DEF PlaceInv, NeverExpires
  <2>3. UNCHANGED <<table, proc>>
    BY <1>2 DEF Expire
  <2>4. \A e \in DOMAIN descs : descs[e].expired => descs'[e].expired
    BY <2>1, DescFacts DEF TypeInv, DescsInv, Descriptor
  <2>5. \A c \in Published : Of(c).expired => Of(c)'.expired
    BY <2>3, <2>4, OfFacts DEF TypeInv, Of
  <2>6. Place(w, proc[w])'
    BY <2>3, <2>5 DEF PlaceInv, Place, Left, Published
  <2>7. OthersRead(w)'
    BY <2>3 DEF PlaceInv, OthersRead
  <2> QED
    BY <2>2, <2>6, <2>7 DEF PlaceInv
<1> QED
  BY <1>1, <1>2

LEMMA PlaceStep ==
  ASSUME TypeInv, NEW w \in Thread, OneWriter(w), PlaceInv(w), [Next]_vars
  PROVE  PlaceInv(w)'
<1>1. ASSUME NEW t \in Thread \ {w}, Call(t) \/ Step(t) PROVE PlaceInv(w)'
  <2>1. UNCHANGED <<content, kept, descs, table>> /\ proc'[w] = proc[w] /\ OthersRead(w)'
    BY <1>1, ReaderStep
  <2> QED
    BY <2>1 DEF PlaceInv, Place, NeverExpires, Of, Left, Published
<1>2. CASE Call(w) \/ Step(w)
  BY <1>2, WriterPlace
<1>3. CASE Expire \/ Vanish \/ UNCHANGED vars
  BY <1>3, StillPlace
<1> QED
  BY <1>1, <1>2, <1>3 DEF Next

LEMMA PlaceInit ==
  ASSUME NEW w \in Thread, Init PROVE PlaceInv(w)
<1>1. Idle.at = "idle" /\ Idle.op = "none"
  BY DEF Idle
<1>2. NeverExpires
  BY DEF Init, NeverExpires
<1> QED
  BY <1>1, <1>2, IdlePlace DEF Init, PlaceInv, OthersRead

LEMMA PlaceHolds ==
  ASSUME NEW w, OneWriter(w)
  PROVE  Spec => []TypeInv /\ []PlaceInv(w)
<1>1. w \in Thread
  BY DEF OneWriter
<1>2. Init => TypeInv /\ PlaceInv(w)
  BY <1>1, InitType, PlaceInit
<1>3. TypeInv /\ PlaceInv(w) /\ [Next]_vars => TypeInv' /\ PlaceInv(w)'
  BY <1>1, TypeStep, NextMoves, PlaceStep
<1> QED
  BY <1>2, <1>3, PTL DEF Spec

-----------------------------------------------------------------------------
(***************************************************************************)
(* What the store holds, when it neither evicts nor forgets.  While the    *)
(* writer puts or removes the chunks of an id, what holds of the keys it   *)
(* has visited and of those it has left.                                   *)
(***************************************************************************)
Complete == \A c \in Published : \A k \in KeysetOf(Of(c)) : content[k] # None

Consistent(call) ==
    \A c \in Published : (call.at = "put" => call.cid # c) =>
        \A k \in KeysetOf(Of(c)) : content[k] = Payload(Of(c).prompt, k[2])

Written(call) ==
    call.at = "put" =>
        \A k \in KeySet(call.cid, Len(call.prompt), call.shards) \ Left(call) :
            content[k] = Payload(call.prompt, k[2])

\* The last descriptor built for the id of k does not lead to k.
Beyond(k) ==
    \E d \in DOMAIN descs :
        /\ descs[d].cid = k[1] /\ \A e \in DOMAIN descs : e > d => descs[e].cid # k[1]
        /\ k \notin KeysetOf(descs[d])

\* Every chunk in the store is one that a descriptor leads to, one that the last
\* registration left over, or one that the writer is putting or about to remove.
Led(call) ==
    \A k \in Key : content[k] # None =>
        \/ k[1] \in Published /\ k \in KeysetOf(Of(k[1]))
        \/ Beyond(k)
        \/ call.at = "put" /\ call.cid = k[1]
        \/ call.at = "remove" /\ k \in Left(call)

Calm == ~Bounded /\ ~Lossy
AllBuild == "invalid" \notin TTLChoices

Data(call) == /\ Complete /\ Written(call)
              /\ AllBuild => Consistent(call) /\ Led(call)

\* While the table and what its descriptors lead to are the same, so is what is published.
LEMMA SameTable ==
  ASSUME DescsInv, DescsGrow, table' = table
  PROVE  /\ Published' = Published
         /\ \A c \in Published : KeysetOf(Of(c))' = KeysetOf(Of(c)) /\ Of(c)'.prompt = Of(c).prompt
<1>1. Published' = Published
  BY DEF Published
<1>2. ASSUME NEW c \in Published
      PROVE  KeysetOf(Of(c))' = KeysetOf(Of(c)) /\ Of(c)'.prompt = Of(c).prompt
  <2>1. table[c] \in DOMAIN descs
    BY OfFacts
  <2> QED
    BY <2>1 DEF DescsGrow, Of, KeysetOf
<1> QED
  BY <1>1, <1>2

\* A put into a store that does not evict.
LEMMA CalmPut ==
  ASSUME StoreInv, ~Bounded, NEW k \in Key, NEW o, NEW p, Store!Stored(k, o, p)
  PROVE  /\ content'[k] = o /\ \A j \in Key \ {k} : content'[j] = content[j]
<1>1. PICK gone \in SUBSET {} : content' = [Store!Without(gone) EXCEPT ![k] = o]
  BY DEF Store!Stored, Store!Evictable
<1>2. \A j \in Key : Store!Without(gone)[j] = content[j]
  BY DEF Store!Without
<1>3. DOMAIN Store!Without(gone) = Key
  BY DEF Store!Without
<1>4. content'[k] = o /\ \A j \in Key \ {k} : content'[j] = content[j]
  BY <1>1, <1>2, <1>3
<1> QED
  BY <1>4

\* The writer moves in Data.
LEMMA DataMoves ==
  ASSUME CallsFit, NEW w \in Thread, NEW next, Goto(w, next), Data(next)'
  PROVE  Data(proc[w])'
<1>1. proc'[w] = next
  BY Moved
<1> QED
  BY <1>1 DEF Data, Written, Consistent, Led, Left

\* A step that changes neither the store nor what is published, between labels that no
\* condition of Data is about.
LEMMA DataStays ==
  ASSUME NEW call, NEW next, Data(call), UNCHANGED <<content, descs, table>>,
         call.at \notin {"put", "remove"}, next.at \notin {"put", "remove"}
  PROVE  Data(next)'
<1>1. /\ Published' = Published /\ \A c : Of(c)' = Of(c)
      /\ \A c : KeysetOf(Of(c))' = KeysetOf(Of(c))
      /\ \A key : Beyond(key)' = Beyond(key)
  BY DEF Published, Of, KeysetOf, Beyond
<1>2. Complete'
  BY <1>1 DEF Data, Complete
<1>3. Written(next)'
  BY DEF Written
<1>4. Consistent(call) => Consistent(next)'
  BY <1>1 DEF Consistent
<1>5. Led(call) => Led(next)'
  BY <1>1 DEF Led
<1> QED
  BY <1>2, <1>3, <1>4, <1>5 DEF Data
\* The chunks are put in any order; a key that is still to come is in Left.
LEMMA PutData ==
  ASSUME TypeInv, Calm, NEW w \in Thread, PlaceInv(w), Data(proc[w]), PutChunk(w)
  PROVE  Data(proc[w])'
<1> PICK call : call = proc[w]
  OBVIOUS
<1> PICK next : next = [call EXCEPT !.todo = Tail(call.todo)]
  OBVIOUS
<1> DEFINE k == Head(call.todo)
           keys == KeySet(call.cid, Len(call.prompt), call.shards)
<1>1. /\ Fits(call) /\ call \in Calling /\ call.at = "put" /\ call.todo # <<>> /\ Data(call)
      /\ DescsInv /\ StoreInv /\ CallsFit
  BY DEF PutChunk, At, TypeInv, CallsFit, Fits
<1>2. /\ call.cid \in CacheId /\ call.prompt \in PromptsOf[call.cid] /\ call.shards \in ShardCounts
      /\ call.todo \in Seq(keys)
  BY <1>1 DEF Fits
<1>3. k \in keys /\ k \in Key
  BY <1>1, <1>2, TailFacts, KeysetFacts
<1>4. k[1] = call.cid /\ k[2] \in 1 .. Len(call.prompt)
  BY <1>3 DEF KeySet
<1> DEFINE o == Payload(call.prompt, k[2])
<1>5. o # None
  BY <1>2, <1>4, PromptFacts
<1>6. ~Store!Refused(k)
  BY DEF Calm, Store!Refused
<1>7. Store!Stored(k, o, call.pin) /\ Goto(w, next) /\ descs' = descs /\ table' = table
  BY <1>6 DEF PutChunk
<1>8. /\ Left(next) \subseteq Left(call) /\ Left(call) \subseteq Left(next) \union {k}
  BY <1>1, LeftTail
<1>9. /\ next.at = "put" /\ next.cid = call.cid /\ next.prompt = call.prompt
      /\ next.shards = call.shards /\ next.pin = call.pin
  BY <1>1 DEF Calling
<1> HIDE DEF k, o
<1>10. /\ content'[k] = o /\ \A j \in Key \ {k} : content'[j] = content[j]
  BY <1>1, <1>3, <1>7, CalmPut DEF Calm
<1>11. /\ Published' = Published /\ \A c : Of(c)' = Of(c)
       /\ \A c : KeysetOf(Of(c))' = KeysetOf(Of(c))
       /\ \A key : Beyond(key)' = Beyond(key)
  BY <1>7 DEF Published, Of, KeysetOf, Beyond
<1>12. Complete'
  <2> SUFFICES ASSUME NEW c \in Published, NEW j \in KeysetOf(Of(c)) PROVE content'[j] # None
    BY <1>11 DEF Complete
  <2>1. j \in Key /\ content[j] # None
    BY <1>1, OfFacts DEF Data, Complete
  <2> QED
    BY <1>5, <1>10, <2>1
<1>13. keys \subseteq Key
  BY <1>2, KeysetFacts
<1>14. Written(next)'
  <2> SUFFICES ASSUME NEW j \in keys, j \notin Left(next)
               PROVE  content'[j] = Payload(call.prompt, j[2])
    BY <1>9 DEF Written, Left
  <2>1. CASE j = k
    BY <1>10, <2>1 DEF o
  <2>2. CASE j # k
    <3>1. j \notin Left(call) /\ j \in Key
      BY <1>8, <1>13, <2>2
    <3>2. content[j] = Payload(call.prompt, j[2])
      BY <1>1, <3>1 DEF Data, Written
    <3> QED
      BY <1>10, <2>2, <3>1, <3>2
  <2> QED
    BY <2>1, <2>2
<1>16. ASSUME NEW c \in Published, c # call.cid, NEW j \in KeysetOf(Of(c))
       PROVE  content'[j] = content[j]
  <2>1. j \in Key /\ j[1] = c
    BY <1>1, <1>16, OfFacts
  <2> QED
    BY <1>4, <1>10, <1>16, <2>1
<1>17. Consistent(call) => Consistent(next)'
  BY <1>1, <1>9, <1>11, <1>16 DEF Consistent
<1>19. Led(call) => Led(next)'
  <2> SUFFICES ASSUME Led(call), NEW j \in Key, content'[j] # None
               PROVE  \/ j[1] \in Published /\ j \in KeysetOf(Of(j[1]))
                      \/ Beyond(j)
                      \/ call.cid = j[1]
    BY <1>9, <1>11 DEF Led
  <2>1. CASE j = k
    BY <1>4, <2>1
  <2>2. CASE j # k
    BY <1>1, <1>10, <2>2 DEF Led
  <2> QED
    BY <2>1, <2>2
<1>20. Data(next)'
  BY <1>1, <1>12, <1>14, <1>17, <1>19 DEF Data
<1> QED
  BY <1>1, <1>7, <1>20, DataMoves

\* A chunk beyond the last descriptor of its id stays so while that is the last.
LEMMA AddedBeyond ==
  ASSUME DescsInv, NEW k, NEW d, d.cid # k[1], Len(descs) \in Nat,
         Len(descs') = Len(descs) + 1, descs' = Append(descs, d), Beyond(k)
  PROVE  Beyond(k)'
<1>1. PICK e \in DOMAIN descs :
         /\ descs[e].cid = k[1] /\ \A f \in DOMAIN descs : f > e => descs[f].cid # k[1]
         /\ k \notin KeysetOf(descs[e])
  BY DEF Beyond
<1>2. /\ DOMAIN descs = 1 .. Len(descs) /\ DOMAIN descs' = 1 .. Len(descs) + 1
      /\ descs'[Len(descs) + 1] = d /\ \A f \in DOMAIN descs : descs'[f] = descs[f]
  BY DEF DescsInv
<1>3. /\ e \in DOMAIN descs' /\ descs'[e] = descs[e]
      /\ \A f \in DOMAIN descs' : f \in DOMAIN descs \/ f = Len(descs) + 1
  BY <1>2
<1>4. \A f \in DOMAIN descs' : f > e => descs'[f].cid # k[1]
  BY <1>1, <1>2, <1>3
<1>5. KeysetOf(descs[e])' = KeysetOf(descs[e])
  BY <1>3 DEF KeysetOf
<1> QED
  BY <1>1, <1>3, <1>4, <1>5 DEF Beyond

\* Or while only ttls and pins of descriptors change.
LEMMA SameBeyond ==
  ASSUME DescsInv, DescsGrow, Len(descs') = Len(descs), DOMAIN descs' = DOMAIN descs
  PROVE  \A key : Beyond(key)' = Beyond(key)
<1>1. \A d \in DOMAIN descs : KeysetOf(descs[d])' = KeysetOf(descs[d]) /\ descs'[d].cid = descs[d].cid
  BY DEF DescsGrow, KeysetOf
<1> QED
  BY <1>1 DEF Beyond

\* Nothing has been left out when the descriptor is published, and it replaces the one
\* there was.
LEMMA PublishData ==
  ASSUME TypeInv, ContentRight, Calm, NEW w \in Thread, PlaceInv(w), Data(proc[w]), Publish(w)
  PROVE  Data(proc[w])'
<1> PICK call : call = proc[w]
  OBVIOUS
<1> PICK d : d = [cid |-> call.cid, prompt |-> call.prompt, shards |-> call.shards,
                  pinned |-> call.pin, ttl |-> call.ttl = "some", expired |-> FALSE]
  OBVIOUS
<1> DEFINE keys == KeySet(call.cid, Len(call.prompt), call.shards)
<1>1. /\ Fits(call) /\ call \in Calling /\ call.at = "put" /\ call.todo = <<>> /\ Data(call)
      /\ DescsInv /\ StoreInv /\ CallsFit
  BY DEF Publish, At, TypeInv, CallsFit, Fits
<1>2. /\ call.cid \in CacheId /\ call.prompt \in PromptsOf[call.cid] /\ call.shards \in ShardCounts
  BY <1>1 DEF Fits
<1>3. /\ descs' = Append(descs, d) /\ table' = [table EXCEPT ![call.cid] = Len(descs')]
      /\ Goto(w, Idle) /\ content' = content /\ kept' = kept
  BY DEF Publish, Return
<1>4. /\ d.cid = call.cid /\ d.prompt = call.prompt /\ d.shards = call.shards /\ d.pinned = call.pin
  OBVIOUS
<1>5. /\ Len(descs) \in Nat /\ DOMAIN descs = 1 .. Len(descs)
      /\ Len(descs') = Len(descs) + 1 /\ descs'[Len(descs) + 1] = d
      /\ \A e \in 1 .. Len(descs) : descs'[e] = descs[e]
  BY <1>1, <1>3 DEF DescsInv
<1>6. table'[call.cid] = Len(descs) + 1 /\ \A c \in CacheId \ {call.cid} : table'[c] = table[c]
  BY <1>1, <1>2, <1>3, <1>5 DEF DescsInv
<1>7. Published' = Published \union {call.cid}
  BY <1>2, <1>5, <1>6 DEF Published
<1>8. Of(call.cid)' = d /\ KeysetOf(Of(call.cid))' = keys
  BY <1>4, <1>5, <1>6 DEF Of, KeysetOf
<1>9. \A c \in Published \ {call.cid} : Of(c)' = Of(c) /\ KeysetOf(Of(c))' = KeysetOf(Of(c))
  BY <1>1, <1>5, <1>6, OfFacts DEF Of, KeysetOf
<1>10. Left(call) = {}
  BY <1>1 DEF Left
<1>11. \A k \in keys : content[k] = Payload(call.prompt, k[2])
  BY <1>1, <1>10 DEF Data, Written
<1>12. \A k \in keys : Payload(call.prompt, k[2]) # None
  BY <1>2, PromptFacts DEF KeySet
<1>13. Complete'
  <2> SUFFICES ASSUME NEW c \in Published', NEW k \in KeysetOf(Of(c))' PROVE content'[k] # None
    BY DEF Complete
  <2>1. CASE c = call.cid
    BY <1>3, <1>8, <1>11, <1>12, <2>1
  <2>2. CASE c # call.cid
    BY <1>1, <1>3, <1>7, <1>9, <2>2 DEF Data, Complete
  <2> QED
    BY <2>1, <2>2
<1>14. Idle.at = "idle"
  BY DEF Idle
<1>15. Written(Idle)'
  BY <1>14 DEF Written
<1>16. Consistent(call) => Consistent(Idle)'
  <2> SUFFICES ASSUME Consistent(call), NEW c \in Published', NEW k \in KeysetOf(Of(c))'
               PROVE  content'[k] = Payload(Of(c)'.prompt, k[2])
    BY DEF Consistent
  <2>1. CASE c = call.cid
    BY <1>3, <1>4, <1>8, <1>11, <2>1
  <2>2. CASE c # call.cid
    BY <1>1, <1>3, <1>7, <1>9, <2>2 DEF Consistent
  <2> QED
    BY <2>1, <2>2
<1>17. ASSUME NEW k \in Key, k[1] = call.cid, k \notin keys PROVE Beyond(k)'
  <2>1. /\ DOMAIN descs' = 1 .. Len(descs) + 1 /\ descs'[Len(descs) + 1] = d
        /\ \A e \in DOMAIN descs' : ~(e > Len(descs) + 1)
    BY <1>1, <1>3, <1>5 DEF DescsInv
  <2>2. KeysetOf(d) = keys
    BY <1>4 DEF KeysetOf
  <2>3. /\ Len(descs) + 1 \in DOMAIN descs' /\ descs'[Len(descs) + 1].cid = k[1]
        /\ \A e \in DOMAIN descs' : e > Len(descs) + 1 => descs'[e].cid # k[1]
        /\ k \notin KeysetOf(descs'[Len(descs) + 1])
    BY <1>4, <1>5, <1>17, <2>1, <2>2
  <2> QED
    BY <2>3 DEF Beyond, KeysetOf
<1>18. Led(call) => Led(Idle)'
  <2> SUFFICES ASSUME Led(call), NEW k \in Key, content'[k] # None
               PROVE  (k[1] \in Published' /\ k \in KeysetOf(Of(k[1]))') \/ Beyond(k)'
    BY DEF Led
  <2>1. content[k] # None
    BY <1>3
  <2>2. CASE k[1] = call.cid
    BY <1>7, <1>8, <1>17, <2>2
  <2>3. CASE k[1] # call.cid
    <3>1. (k[1] \in Published /\ k \in KeysetOf(Of(k[1]))) \/ Beyond(k)
      BY <1>1, <2>1, <2>3 DEF Led
    <3>2. Beyond(k) => Beyond(k)'
      BY <1>1, <1>3, <1>4, <1>5, <2>3, AddedBeyond
    <3> QED
      BY <1>7, <1>9, <2>3, <3>1, <3>2
  <2> QED
    BY <2>2, <2>3
<1>19. Data(Idle)'
  BY <1>1, <1>13, <1>15, <1>16, <1>18 DEF Data
<1> QED
  BY <1>1, <1>3, <1>19, DataMoves
\* A descriptor that cannot be built leaves its chunks in the store: what is published is
\* complete all the same.
LEMMA BuildFailedData ==
  ASSUME TypeInv, NEW w \in Thread, PlaceInv(w), Data(proc[w]), BuildFailed(w)
  PROVE  Data(proc[w])'
<1>1. ~AllBuild
  BY DEF BuildFailed, At, PlaceInv, Place, AllBuild
<1>2. UNCHANGED <<content, kept, descs, table>> /\ Goto(w, Idle)
  BY DEF BuildFailed, Return
<1>3. Idle.at = "idle"
  BY DEF Idle
<1>4. Complete' /\ Written(Idle)'
  BY <1>2, <1>3 DEF Data, Complete, Written, Published, Of, KeysetOf
<1>5. Data(Idle)'
  BY <1>1, <1>4 DEF Data
<1> QED
  BY <1>2, <1>5, DataMoves DEF TypeInv

\* All chunks are still to be put when a registration begins.
LEMMA BeginData ==
  ASSUME TypeInv, NEW w \in Thread, PlaceInv(w), Data(proc[w]), Call(w)
  PROVE  Data(proc[w])'
<1> PICK call : call = proc[w]
  OBVIOUS
<1>1. PICK op \in OpsOf[w], c \in CacheId : Begin(w, op, c)
  BY DEF Call
<1>2. /\ UNCHANGED <<content, kept, descs, table>> /\ call.at = "idle" /\ Data(call) /\ CallsFit
  BY <1>1 DEF Begin, At, TypeInv
<1>3. PICK next : /\ Goto(w, next) /\ next.op = op
                  /\ \/ op \in Fetching /\ next.at = "fetch" /\ next.rest = {}
                     \/ op = "register" /\ next.at = "put" /\ next.rest = {} /\ next.ttl \in TTLChoices
                        /\ next.todo = ChunkKeys(next.cid, Len(next.prompt), next.shards)
                        /\ next.prompt \in PromptsOf[next.cid] /\ next.shards \in ShardCounts
                        /\ next.cid \in CacheId
                     \/ op = "delete" /\ next.at = "pop" /\ next.rest = {}
                     \/ /\ op = "sweep" /\ next.at = "next"
                        /\ \A e \in next.rest : e \in Published /\ Of(e).expired
  BY <1>1, BeginPlace
<1>4. CASE next.at # "put"
  <2>1. Data(next)'
    BY <1>2, <1>3, <1>4, DataStays
  <2> QED
    BY <1>2, <1>3, <2>1, DataMoves
<1>5. CASE next.at = "put"
  <2>1. /\ next.todo = ChunkKeys(next.cid, Len(next.prompt), next.shards)
        /\ next.prompt \in PromptsOf[next.cid] /\ next.shards \in ShardCounts /\ next.cid \in CacheId
    BY <1>3, <1>5
  <2>2. Len(next.prompt) \in Nat \ {0} /\ next.shards \in Nat \ {0}
    BY <2>1, PromptFacts, ShardsAssumption
  <2>3. KeySet(next.cid, Len(next.prompt), next.shards) \subseteq Left(next)
    BY <2>1, <2>2, ChunkKeysAre DEF Left
  <2>4. /\ Published' = Published /\ \A e : Of(e)' = Of(e)
        /\ \A e : KeysetOf(Of(e))' = KeysetOf(Of(e))
        /\ \A key : Beyond(key)' = Beyond(key)
    BY <1>2 DEF Published, Of, KeysetOf, Beyond
  <2>5. Complete'
    BY <1>2, <2>4 DEF Data, Complete
  <2>6. Written(next)'
    BY <1>5, <2>3 DEF Written, Left
  <2>7. Consistent(call) => Consistent(next)'
    BY <1>2, <2>4 DEF Consistent
  <2>8. Led(call) => Led(next)'
    BY <1>2, <2>4 DEF Led
  <2>9. Data(next)'
    BY <1>2, <2>5, <2>6, <2>7, <2>8 DEF Data
  <2> QED
    BY <1>2, <1>3, <2>9, DataMoves
<1> QED
  BY <1>4, <1>5

\* The steps that only read.
LEMMA ReadData ==
  ASSUME TypeInv, NEW w \in Thread, PlaceInv(w), Data(proc[w]),
         \/ Fetch(w) \/ CheckExpired(w) \/ GetLive(w) \/ LookupLive(w) \/ LoadLive(w)
         \/ GetChunk(w) \/ Loaded(w) \/ ExtendLive(w) \/ NextExpired(w)
  PROVE  Data(proc[w])'
<1> PICK call : call = proc[w]
  OBVIOUS
<1>1. /\ Data(call) /\ call \in Calling /\ CallsFit /\ UNCHANGED <<content, kept, descs, table>>
      /\ call.at \in {"fetch", "check", "load", "next"}
  BY DEF TypeInv, CallsFit, Fits, Fetch, CheckExpired, GetLive, LookupLive, LoadLive, GetChunk, Loaded,
         ExtendLive, NextExpired, Live, At
<1>2. ASSUME NEW next, Goto(w, next), next.at \notin {"put", "pin", "remove"} PROVE Data(proc[w])'
  <2>1. Data(next)'
    BY <1>1, <1>2, DataStays
  <2> QED
    BY <1>1, <1>2, <2>1, DataMoves
<1>3. CASE Return(w)
  <2>1. Idle.at = "idle"
    BY DEF Idle
  <2> QED
    BY <1>2, <1>3, <2>1 DEF Return
<1>4. ASSUME ~Return(w)
      PROVE  \E label \in {"fetch", "check", "load", "pop", "extend"} : proc'[w].at = label
  <2>1. DOMAIN proc = Thread
    BY <1>1 DEF CallsFit
  <2>2. CASE Fetch(w)
    BY <1>1, <1>4, <2>1, <2>2 DEF Fetch, Goto, Calling
  <2>3. CASE CheckExpired(w)
    BY <1>1, <2>1, <2>3 DEF CheckExpired, Goto, Calling
  <2>4. CASE LookupLive(w)
    BY <1>1, <2>1, <2>4 DEF LookupLive, Goto, Calling
  <2>5. CASE LoadLive(w)
    <3>1. PICK todo : Goto(w, [call EXCEPT !.at = "load", !.todo = todo])
      BY <2>5 DEF LoadLive
    <3> QED
      BY <1>1, <2>1, <3>1 DEF Goto, Calling
  <2>6. CASE GetChunk(w)
    <3>1. call.at = "load" /\ Goto(w, [call EXCEPT !.todo = Tail(call.todo),
                                                   !.out = Append(call.out, content[Head(call.todo)])])
      BY <1>4, <2>6 DEF GetChunk, At
    <3> QED
      BY <1>1, <2>1, <3>1 DEF Goto, Calling
  <2>7. CASE ExtendLive(w)
    BY <1>1, <2>1, <2>7 DEF ExtendLive, Goto, Calling
  <2>8. CASE NextExpired(w)
    <3>1. PICK c : Goto(w, [call EXCEPT !.at = "pop", !.cid = c, !.rest = call.rest \ {c}])
      BY <1>4, <2>8 DEF NextExpired
    <3> QED
      BY <1>1, <2>1, <3>1 DEF Goto, Calling
  <2> QED
    BY <1>4, <2>2, <2>3, <2>4, <2>5, <2>6, <2>7, <2>8 DEF GetLive, Loaded
<1>5. \E next : Goto(w, next)
  BY DEF Fetch, CheckExpired, GetLive, LookupLive, LoadLive, GetChunk, Loaded, ExtendLive,
         NextExpired, Return
<1>6. PICK next : Goto(w, next)
  BY <1>5
<1>7. proc'[w] = next
  BY <1>1, <1>6, Moved
<1> QED
  BY <1>2, <1>3, <1>4, <1>6, <1>7

\* What Data says of the descriptors does not depend on their ttls and pins.
LEMMA WrittenData ==
  ASSUME TypeInv, DescsGrow, Len(descs') = Len(descs), DOMAIN descs' = DOMAIN descs,
         NEW call, NEW next, Data(call), UNCHANGED <<content, table>>,
         \/ next = call
         \/ call.at \notin {"put", "remove"} /\ next.at \notin {"put", "remove"}
  PROVE  Data(next)'
<1>1. /\ Published' = Published
      /\ \A c \in Published : KeysetOf(Of(c))' = KeysetOf(Of(c)) /\ Of(c)'.prompt = Of(c).prompt
  BY SameTable DEF TypeInv
<1>2. \A key : Beyond(key)' = Beyond(key)
  BY SameBeyond DEF TypeInv
<1>3. Complete'
  BY <1>1 DEF Data, Complete
<1>4. Written(next)'
  BY DEF Data, Written, Left
<1>5. Consistent(call) => Consistent(next)'
  BY <1>1 DEF Consistent
<1>6. Led(call) => Led(next)'
  BY <1>1, <1>2 DEF Led, Left
<1> QED
  BY <1>3, <1>4, <1>5, <1>6 DEF Data
LEMMA ExtendData ==
  ASSUME TypeInv, NEW w \in Thread, PlaceInv(w), Data(proc[w]), Extend(w)
  PROVE  Data(proc[w])'
<1> PICK call : call = proc[w]
  OBVIOUS
<1>1. /\ Data(call) /\ CallsFit /\ call.at = "extend" /\ Goto(w, Idle)
      /\ UNCHANGED <<content, kept, table>> /\ DescsInv /\ call.desc \in 1 .. Len(descs)
      /\ descs' = [descs EXCEPT ![call.desc].ttl = TRUE, ![call.desc].expired = FALSE]
  BY DEF Extend, Return, At, TypeInv, CallsFit, Fits, DescsInv
<1>2. \A d \in DOMAIN descs : descs[d] \in Descriptor
  BY <1>1 DEF DescsInv
<1>3. /\ DOMAIN descs' = DOMAIN descs /\ Len(descs') = Len(descs)
      /\ \A d \in DOMAIN descs : /\ descs'[d].pinned = descs[d].pinned /\ descs'[d].cid = descs[d].cid
                                 /\ descs'[d].prompt = descs[d].prompt
                                 /\ descs'[d].shards = descs[d].shards
  BY <1>1, <1>2 DEF DescsInv, Descriptor
<1>4. DescsGrow
  BY <1>1, <1>3 DEF DescsGrow, DescsInv
<1>5. Idle.at = "idle"
  BY DEF Idle
<1>6. Data(Idle)'
  BY <1>1, <1>3, <1>4, <1>5, WrittenData
<1> QED
  BY <1>1, <1>6, DataMoves

LEMMA StillData ==
  ASSUME TypeInv, Calm, NEW w \in Thread, PlaceInv(w), Data(proc[w]), Expire \/ Vanish \/ UNCHANGED vars
  PROVE  Data(proc[w])'
<1> PICK call : call = proc[w]
  OBVIOUS
<1>1. ~Vanish
  BY DEF Calm, Vanish, Store!Lost
<1>2. UNCHANGED <<content, kept, table, proc>> /\ Data(call) /\ DescsInv
  BY <1>1 DEF Expire, vars, TypeInv
<1>3. \A d \in DOMAIN descs : descs[d] \in Descriptor
  BY <1>2 DEF DescsInv
<1>4. /\ DOMAIN descs' = DOMAIN descs /\ Len(descs') = Len(descs)
      /\ \A d \in DOMAIN descs : /\ descs'[d].pinned = descs[d].pinned /\ descs'[d].cid = descs[d].cid
                                 /\ descs'[d].prompt = descs[d].prompt
                                 /\ descs'[d].shards = descs[d].shards
  <2>1. CASE Expire
    <3>1. PICK d \in DOMAIN descs : descs' = [descs EXCEPT ![d].expired = TRUE]
      BY <2>1 DEF Expire
    <3> QED
      BY <1>2, <1>3, <3>1 DEF DescsInv, Descriptor
  <2> QED
    BY <1>1, <2>1 DEF vars
<1>5. DescsGrow
  BY <1>2, <1>4 DEF DescsGrow, DescsInv
<1>7. Data(call)'
  BY <1>2, <1>4, <1>5, WrittenData
<1>8. proc'[w] = call
  BY <1>2
<1> QED
  BY <1>7, <1>8 DEF Data, Written, Consistent, Led, Left

\* The descriptor is marked first, its chunks follow.
LEMMA PinLiveData ==
  ASSUME TypeInv, NEW w \in Thread, PlaceInv(w), Data(proc[w]), PinLive(w)
  PROVE  Data(proc[w])'
<1> PICK call : call = proc[w]
  OBVIOUS
<1> PICK next : next = [call EXCEPT !.at = "pin", !.todo = KeysOf(descs[call.desc])]
  OBVIOUS
<1>1. /\ Fits(call) /\ call \in Calling /\ call.at = "check" /\ Data(call)
      /\ DescsInv /\ CallsFit /\ call.desc \in DOMAIN descs
  BY DEF PinLive, Live, At, TypeInv, CallsFit, Fits, DescsInv
<1>2. /\ Goto(w, next) /\ UNCHANGED <<content, table>>
      /\ descs' = [descs EXCEPT ![call.desc].pinned = (call.op = "pin")]
  BY DEF PinLive
<1>3. next.at = "pin"
  BY <1>1 DEF Calling
<1>4. \A d \in DOMAIN descs : descs[d] \in Descriptor
  BY <1>1 DEF DescsInv
<1>5. /\ DOMAIN descs' = DOMAIN descs /\ Len(descs') = Len(descs)
      /\ \A d \in DOMAIN descs : /\ descs'[d].cid = descs[d].cid
                                 /\ descs'[d].prompt = descs[d].prompt
                                 /\ descs'[d].shards = descs[d].shards
  BY <1>1, <1>2, <1>4 DEF DescsInv, Descriptor
<1>6. DescsGrow
  BY <1>1, <1>5 DEF DescsGrow, DescsInv
<1>7. Data(next)'
  BY <1>1, <1>2, <1>3, <1>5, <1>6, WrittenData
<1> QED
  BY <1>1, <1>2, <1>7, DataMoves

\* A pin changes no payload.
LEMMA PinChunkData ==
  ASSUME TypeInv, NEW w \in Thread, PlaceInv(w), Data(proc[w]), PinChunk(w)
  PROVE  Data(proc[w])'
<1> PICK call : call = proc[w]
  OBVIOUS
<1> PICK next : next = [call EXCEPT !.todo = Tail(call.todo)]
  OBVIOUS
<1>1. /\ call \in Calling /\ call.at = "pin" /\ Data(call) /\ CallsFit
      /\ UNCHANGED <<content, descs, table>>
  BY DEF PinChunk, At, TypeInv, CallsFit, Fits, Store!Pinned, Store!Unpinned
<1>2. next.at = "pin" /\ Idle.at = "idle"
  BY <1>1 DEF Calling, Idle
<1>3. Data(next)' /\ Data(Idle)'
  BY <1>1, <1>2, DataStays
<1>4. Goto(w, Idle) \/ Goto(w, next)
  BY DEF PinChunk, Return
<1> QED
  BY <1>1, <1>3, <1>4, DataMoves
\* The descriptor leaves the table before its chunks leave the store.
LEMMA PopData ==
  ASSUME TypeInv, NEW w \in Thread, PlaceInv(w), Data(proc[w]), Pop(w)
  PROVE  Data(proc[w])'
<1> PICK call : call = proc[w]
  OBVIOUS
<1> PICK next : next = [call EXCEPT !.at = "remove", !.todo = KeysOf(descs[table[call.cid]])]
  OBVIOUS
<1> DEFINE c == call.cid
<1>1. /\ Fits(call) /\ call \in Calling /\ call.at = "pop" /\ Data(call) /\ Place(w, call)
      /\ DescsInv /\ CallsFit /\ UNCHANGED <<content, kept, descs>>
  BY DEF Pop, At, TypeInv, CallsFit, Fits, PlaceInv
<1>2. CASE Deleted(w) /\ UNCHANGED table
  <2>1. PICK other : Goto(w, other) /\ other.at \in {"idle", "next"}
    BY <1>1, <1>2, DeletedPlace
  <2>2. Data(other)'
    BY <1>1, <1>2, <2>1, DataStays
  <2> QED
    BY <1>1, <2>1, <2>2, DataMoves
<1>3. CASE c \in Published /\ table' = [table EXCEPT ![c] = 0] /\ Goto(w, next)
  <2>1. /\ next.at = "remove" /\ next.todo = KeysOf(Of(c))
    BY <1>1 DEF Calling, Of
  <2>2. KeysetOf(Of(c)) \subseteq Left(next)
    BY <1>1, <1>3, <2>1, OfFacts, KeysOfFacts DEF Left
  <2>3. /\ Published' = Published \ {c}
        /\ \A e \in Published' : Of(e)' = Of(e) /\ KeysetOf(Of(e))' = KeysetOf(Of(e))
    BY <1>1, <1>3 DEF DescsInv, Published, Of, KeysetOf
  <2>4. Complete'
    BY <1>1, <2>3 DEF Data, Complete
  <2>5. Written(next)'
    BY <2>1 DEF Written
  <2>6. Consistent(call) => Consistent(next)'
    BY <1>1, <2>3 DEF Consistent
  <2>7. Led(call) => Led(next)'
    <3> SUFFICES ASSUME Led(call), NEW k \in Key, content[k] # None
                 PROVE  \/ k[1] \in Published' /\ k \in KeysetOf(Of(k[1]))'
                        \/ Beyond(k)'
                        \/ k \in Left(next)
      BY <1>1, <2>1 DEF Led, Left
    <3>1. (k[1] \in Published /\ k \in KeysetOf(Of(k[1]))) \/ Beyond(k)
      BY <1>1 DEF Led
    <3>2. Beyond(k)' = Beyond(k)
      BY <1>1 DEF Beyond, KeysetOf
    <3> QED
      BY <2>2, <2>3, <3>1, <3>2
  <2>8. Data(next)'
    BY <1>1, <2>4, <2>5, <2>6, <2>7 DEF Data
  <2> QED
    BY <1>1, <1>3, <2>8, DataMoves
<1> QED
  BY <1>2, <1>3 DEF Pop

\* What is removed is no longer published; when the last key is gone, nothing is left that
\* no descriptor leads to.
LEMMA RemoveData ==
  ASSUME TypeInv, NEW w \in Thread, PlaceInv(w), Data(proc[w]), RemoveChunk(w)
  PROVE  Data(proc[w])'
<1> PICK call : call = proc[w]
  OBVIOUS
<1> DEFINE k == Head(call.todo)
<1>1. /\ Fits(call) /\ call \in Calling /\ call.at = "remove" /\ call.todo # <<>> /\ Data(call)
      /\ Place(w, call) /\ DescsInv /\ CallsFit /\ UNCHANGED <<descs, table>>
      /\ call.todo \in Seq(Key)
  BY DEF RemoveChunk, At, TypeInv, CallsFit, Fits, PlaceInv, Calling
<1>2. k \in Left(call) /\ (Len(call.todo) = 1 => Left(call) = {k})
  BY <1>1, LeftTail
<1>3. k[1] = call.cid /\ call.cid \notin Published
  BY <1>1, <1>2 DEF Place
<1>4. /\ content' = [j \in Key |-> IF j \in {k} THEN None ELSE content[j]]
  BY DEF RemoveChunk, Store!Removed, Store!Without
<1> HIDE DEF k
<1>5. /\ Published' = Published /\ \A c : Of(c)' = Of(c)
      /\ \A c : KeysetOf(Of(c))' = KeysetOf(Of(c))
      /\ \A key : Beyond(key)' = Beyond(key)
  BY <1>1 DEF Published, Of, KeysetOf, Beyond
<1>6. ASSUME NEW c \in Published, NEW j \in KeysetOf(Of(c))
      PROVE  content'[j] = content[j]
  <2>1. j \in Key /\ j[1] = c
    BY <1>1, <1>6, OfFacts
  <2> QED
    BY <1>3, <1>4, <2>1
<1>7. Complete'
  BY <1>1, <1>5, <1>6 DEF Data, Complete
<1>8. Consistent(call) => \A c \in Published : \A j \in KeysetOf(Of(c)) :
                              content'[j] = Payload(Of(c).prompt, j[2])
  BY <1>1, <1>6 DEF Consistent
<1>10. Led(call) => \A j \in Key : content'[j] # None =>
                       \/ j[1] \in Published /\ j \in KeysetOf(Of(j[1]))
                       \/ Beyond(j)
                       \/ j \in Left(call) \ {k}
  BY <1>1, <1>4 DEF Led
<1>11. ASSUME NEW next, Goto(w, next), next.at # "put",
              \/ Left(call) \subseteq {k}
              \/ next.at = "remove" /\ Left(call) \subseteq Left(next) \union {k}
       PROVE  Data(proc[w])'
  <2>1. Written(next)'
    BY <1>11 DEF Written
  <2>2. Consistent(call) => Consistent(next)'
    BY <1>5, <1>8 DEF Consistent
  <2>3. Led(call) => Led(next)'
    BY <1>5, <1>10, <1>11 DEF Led, Left
  <2>4. Data(next)'
    BY <1>1, <1>7, <2>1, <2>2, <2>3 DEF Data
  <2> QED
    BY <1>1, <1>11, <2>4, DataMoves
<1>12. CASE Len(call.todo) = 1 /\ Deleted(w)
  <2>1. PICK next : Goto(w, next) /\ next.at \in {"idle", "next"}
    BY <1>1, <1>12, DeletedPlace
  <2> QED
    BY <1>2, <1>11, <1>12, <2>1
<1>13. CASE Goto(w, [call EXCEPT !.todo = Tail(call.todo)])
  <2> PICK next : next = [call EXCEPT !.todo = Tail(call.todo)]
    OBVIOUS
  <2>1. next.at = "remove" /\ Left(call) \subseteq Left(next) \union {k}
    BY <1>1, LeftTail DEF Calling, k
  <2> QED
    BY <1>11, <1>13, <2>1
<1> QED
  BY <1>12, <1>13 DEF RemoveChunk

LEMMA DataStep ==
  ASSUME TypeInv, ContentRight, Calm, NEW w \in Thread, OneWriter(w), PlaceInv(w), Data(proc[w]),
         [Next]_vars
  PROVE  Data(proc[w])'
<1>1. ASSUME NEW t \in Thread \ {w}, Call(t) \/ Step(t) PROVE Data(proc[w])'
  <2>1. UNCHANGED <<content, kept, descs, table>> /\ proc'[w] = proc[w]
    BY <1>1, ReaderStep
  <2> QED
    BY <2>1 DEF Data, Complete, Written, Consistent, Led, Left, Of, KeysetOf,
                Published, Beyond
<1>2. ASSUME Step(w) PROVE Data(proc[w])'
  BY <1>2, PutData, PublishData, BuildFailedData, ReadData, ExtendData, PinLiveData, PinChunkData,
     PopData, RemoveData DEF Step
<1>3. CASE Expire \/ Vanish \/ UNCHANGED vars
  BY <1>3, StillData
<1> QED
  BY <1>1, <1>2, <1>3, BeginData DEF Next

LEMMA DataInit ==
  ASSUME NEW w \in Thread, Init PROVE Data(proc[w])
<1>1. proc[w].at = "idle" /\ Published = {} /\ \A k \in Key : content[k] = None
  BY DEF Init, Idle, Published
<1> QED
  BY <1>1 DEF Data, Complete, Written, Consistent, Led

\* Before anything is put, and ever after.
LEMMA DataHolds ==
  ASSUME NEW w, OneWriter(w), Calm
  PROVE  Spec => [](TypeInv /\ PlaceInv(w) /\ Data(proc[w]))
<1>1. w \in Thread
  BY DEF OneWriter
<1> DEFINE All == TypeInv /\ ContentRight /\ PlaceInv(w) /\ Data(proc[w])
<1>2. Init => All
  <2>1. Init => ContentRight
    BY DEF Init, ContentRight
  <2> QED
    BY <1>1, <2>1, InitType, PlaceInit, DataInit
<1>3. All /\ [Next]_vars => All'
  BY <1>1, TypeStep, ContentRightStep, NextMoves, PlaceStep, DataStep
<1> QED
  BY <1>2, <1>3, PTL DEF Spec

\* The keys that the properties speak of.
LEMMA ChunksAre ==
  ASSUME DescsInv, NEW c \in Published
  PROVE  ChunksOf(c) = KeysetOf(Of(c))
<1>1. Of(c) \in Descriptor /\ Of(c).prompt \in PromptsOf[Of(c).cid]
  BY OfFacts
<1>2. /\ KeysOf(Of(c)) \in Seq(KeysetOf(Of(c)))
      /\ \A k \in KeysetOf(Of(c)) : \E j \in DOMAIN KeysOf(Of(c)) : KeysOf(Of(c))[j] = k
  BY <1>1, KeysOfFacts
<1> DEFINE keys == KeysOf(Of(c))
<1>3. ChunksOf(c) = {keys[j] : j \in DOMAIN keys}
  BY DEF ChunksOf, Of
<1>4. \A j \in DOMAIN keys : keys[j] \in KeysetOf(Of(c))
  BY <1>2
<1> QED
  BY <1>2, <1>3, <1>4

\* "for chunks already written" (engine.py:158): with one writer, and a store that does not
\* evict, a cache that can be looked up has all its chunks, at every step of every call.
THEOREM CompleteHolds == ASSUME NEW w, OneWriter(w), Calm PROVE Spec => []PublishedComplete
<1>1. TypeInv /\ Data(proc[w]) => PublishedComplete
  BY ChunksAre DEF Data, Complete, PublishedComplete, TypeInv
<1> QED
  BY <1>1, DataHolds, PTL

\* Between calls the chunks of a cache are those of the prompt its fingerprints are of,
\* whatever was registered under the id before: a registration replaces every chunk of its
\* own prompt before it is published.
THEOREM ConsistentHolds ==
  ASSUME NEW w, OneWriter(w), Calm, AllBuild PROVE Spec => []PublishedConsistent
<1>1. TypeInv /\ Data(proc[w]) => PublishedConsistent
  <2>1. w \in Thread
    BY DEF OneWriter
  <2> QED
    BY <2>1, ChunksAre DEF Data, Consistent, PublishedConsistent, Quiet, TypeInv, Of
<1> QED
  BY <1>1, DataHolds, PTL

\* The chunks that Surplus and Beyond speak of are the same.
LEMMA SurplusIs ==
  ASSUME DescsInv, NEW k, Beyond(k) PROVE Surplus(k)
<1>1. PICK d \in DOMAIN descs :
         /\ descs[d].cid = k[1] /\ \A e \in DOMAIN descs : e > d => descs[e].cid # k[1]
         /\ k \notin KeysetOf(descs[d])
  BY DEF Beyond
<1>2. descs[d] \in Descriptor /\ descs[d].prompt \in PromptsOf[descs[d].cid]
  BY DescFacts
<1>3. KeysOf(descs[d]) \in Seq(KeysetOf(descs[d]))
  BY <1>2, KeysOfFacts
<1>4. ~\E j \in DOMAIN KeysOf(descs[d]) : KeysOf(descs[d])[j] = k
  BY <1>1, <1>3
<1> QED
  BY <1>1, <1>4 DEF Surplus

\* delete finds the chunks of a cache through its descriptor (engine.py:242-244): between the
\* writer's calls every chunk in the store is one that it would find, save those that the
\* last registration of their id, of a shorter prompt or fewer workers, has left over.
THEOREM NoOrphans ==
  ASSUME NEW w, OneWriter(w), Calm, AllBuild PROVE Spec => []NothingOrphaned
<1>1. TypeInv /\ PlaceInv(w) /\ Data(proc[w]) => NothingOrphaned
  <2> SUFFICES ASSUME TypeInv, PlaceInv(w), Data(proc[w]), NEW k \in Key, content[k] # None,
                      Quiet(k[1])
               PROVE  (k[1] \in Published /\ k \in ChunksOf(k[1])) \/ Surplus(k)
    BY DEF NothingOrphaned
  <2>1. proc[w].cid # k[1]
    BY DEF OneWriter, Quiet
  <2>2. proc[w].at = "remove" => k \notin Left(proc[w])
    BY <2>1 DEF PlaceInv, Place
  <2>3. (k[1] \in Published /\ k \in KeysetOf(Of(k[1]))) \/ Beyond(k)
    BY <2>1, <2>2 DEF Data, Led
  <2> QED
    BY <2>3, ChunksAre, SurplusIs DEF TypeInv
<1> QED
  BY <1>1, DataHolds, PTL
-----------------------------------------------------------------------------
(***************************************************************************)
(* One thread alone may register any prompts under an id, one after the    *)
(* other: between its lookup and its load nothing else is registered.      *)
(***************************************************************************)
OneShardCount == \A m, n \in ShardCounts : m = n

\* What matched is a prefix of the prompt that is published, not of some earlier one.
Matched(call) ==
    call.op = "reuse" /\ call.prompt # None /\ call.at \in {"fetch", "check", "load"} =>
        /\ call.at = "load" => call.cid \in Published
        /\ call.cid \in Published =>
             \A i \in 1 .. call.count :
                 /\ i \in 1 .. Len(Of(call.cid).prompt)
                 /\ Payload(call.prompt, i) = Payload(Of(call.cid).prompt, i)

\* The chunk that is read is then the request's.
LEMMA MatchedRight ==
  ASSUME TypeInv, HitInv, Calm, AllBuild, OneShardCount, NEW w \in Thread,
         Data(proc[w]), Matched(proc[w])
  PROVE  NextRight(proc[w])
<1> PICK call : call = proc[w]
  OBVIOUS
<1> SUFFICES ASSUME call.op = "reuse", call.at = "load", call.todo # <<>>, call.prompt # None
             PROVE  content[Head(call.todo)] = Payload(call.prompt, Len(call.out) + 1)
  BY DEF NextRight
<1> DEFINE n == Len(call.out)
           m == Len(call.todo)
           c == call.cid
<1>1. /\ CallRight(call) /\ call \in Calling /\ call.todo \in Seq(Key) /\ c \in CacheId
      /\ call.out \in Seq(Obj \union {None}) /\ call.count \in Nat \union {-1}
      /\ call.shards \in Worker /\ DescsInv /\ Data(call) /\ Matched(call)
  BY DEF HitInv, TypeInv, CallsFit, Fits, Calling
<1>2. /\ n \in Nat /\ m \in Nat \ {0} /\ DOMAIN call.todo = 1 .. m /\ 1 \in DOMAIN call.todo
      /\ Head(call.todo) = call.todo[1]
  BY <1>1
<1>3. Head(call.todo) = <<c, n + 1, call.shards>> /\ n + m <= call.count
  <2>1. /\ \A j \in DOMAIN call.todo : call.todo[j] = <<c, n + j, call.shards>>
        /\ n + m <= call.count
    BY <1>1 DEF CallRight
  <2> QED
    BY <1>2, <2>1
<1>4. c \in Published
  BY <1>1 DEF Matched
<1> HIDE DEF n, m, c
<1>5. n + 1 \in 1 .. call.count
  BY <1>1, <1>2, <1>3
<1>6. /\ n + 1 \in 1 .. Len(Of(c).prompt)
      /\ Payload(call.prompt, n + 1) = Payload(Of(c).prompt, n + 1)
  BY <1>1, <1>4, <1>5 DEF Matched, c
<1>7. call.shards \in 1 .. Of(c).shards
  <2>1. Of(c).shards \in ShardCounts
    BY <1>1, <1>4, OfFacts
  <2> QED
    BY <1>1, <2>1 DEF Worker, OneShardCount
<1>8. Of(c).cid = c
  BY <1>1, <1>4, OfFacts
<1>9. Head(call.todo) \in KeysetOf(Of(c)) /\ Head(call.todo)[2] = n + 1
  <2> PICK d : d = Of(c)
    OBVIOUS
  <2>1. n + 1 \in 1 .. Len(d.prompt) /\ call.shards \in 1 .. d.shards /\ d.cid = c
    BY <1>6, <1>7, <1>8
  <2>2. <<c, n + 1, call.shards>> \in KeysetOf(d)
    BY <2>1 DEF KeysetOf, KeySet
  <2> QED
    BY <1>3, <2>2
<1>10. content[Head(call.todo)] = Payload(Of(c).prompt, n + 1)
  BY <1>1, <1>4, <1>9 DEF Data, Consistent
<1> QED
  BY <1>6, <1>10 DEF n

\* Its own thread only looks up or loads while a call has something matched.
LEMMA MatchedStep ==
  ASSUME TypeInv, NEW w, Thread = {w}, PlaceInv(w), Matched(proc[w]), [Next]_vars
  PROVE  Matched(proc[w])'
<1> PICK call : call = proc[w]
  OBVIOUS
<1>1. /\ w \in Thread /\ call \in Calling /\ Fits(call) /\ Place(w, call) /\ CallsFit /\ DescsInv
      /\ Matched(call)
  BY DEF TypeInv, PlaceInv, CallsFit, Fits
<1>2. ASSUME NEW next, Goto(w, next), Matched(next)' PROVE Matched(proc[w])'
  <2>1. proc'[w] = next
    BY <1>1, <1>2, Moved
  <2> QED
    BY <1>2, <2>1 DEF Matched
<1>3. ASSUME NEW next, Goto(w, next), next.op # "reuse" \/ next.at \notin {"fetch", "check", "load"}
      PROVE  Matched(proc[w])'
  BY <1>2, <1>3 DEF Matched
<1>4. ASSUME NEW next, UNCHANGED <<descs, table>>, Matched(next) PROVE Matched(next)'
  BY <1>4 DEF Matched, Of, Published
<1>5. ASSUME NEW next, Goto(w, next), UNCHANGED <<descs, table>>, next.op = call.op,
             next.prompt = call.prompt, next.count = call.count, next.cid = call.cid,
             next.at = "load" => call.cid \in Published, call.at \in {"fetch", "check", "load"}
      PROVE  Matched(proc[w])'
  <2>1. Matched(next)
    BY <1>1, <1>5 DEF Matched
  <2> QED
    BY <1>2, <1>4, <1>5, <2>1
<1>6. CASE Return(w)
  <2>1. Idle.at = "idle"
    BY DEF Idle
  <2> QED
    BY <1>3, <1>6, <2>1 DEF Return
<1>7. CASE Call(w)
  <2>1. PICK op \in OpsOf[w], c \in CacheId : Begin(w, op, c)
    BY <1>7 DEF Call
  <2>2. PICK next : /\ Goto(w, next) /\ next.op = op
                    /\ next.op = "reuse" => next.count = -1 /\ next.at = "fetch"
    <3>1. CASE op = "reuse"
      <4>1. PICK p \in Request, v \in Worker : BeginReuse(w, c, p, v)
        BY <2>1, <3>1 DEF Begin
      <4> PICK next : next = [Idle EXCEPT !.at = "fetch", !.op = "reuse", !.cid = c,
                                          !.prompt = p, !.shards = v, !.count = -1]
        OBVIOUS
      <4>2. Goto(w, next)
        BY <4>1 DEF BeginReuse
      <4>3. next.op = "reuse" /\ next.count = -1 /\ next.at = "fetch"
        BY DEF Idle
      <4> QED
        BY <3>1, <4>2, <4>3
    <3>2. CASE op # "reuse"
      <4>1. PICK next : Goto(w, next) /\ next.op = op
        BY <1>1, <2>1, BeginPlace
      <4> QED
        BY <3>2, <4>1
    <3> QED
      BY <3>1, <3>2
  <2>3. 1 .. -1 = {}
    OBVIOUS
  <2>4. Matched(next)
    BY <2>2, <2>3 DEF Matched
  <2>5. UNCHANGED <<descs, table>>
    BY <2>1 DEF Begin
  <2> QED
    BY <1>2, <1>4, <2>2, <2>4, <2>5
<1>8. CASE Fetch(w) /\ ~Return(w)
  <2> PICK next : next = [call EXCEPT !.at = "check", !.desc = table[call.cid]]
    OBVIOUS
  <2>1. Goto(w, next) /\ UNCHANGED <<descs, table>> /\ call.at = "fetch"
    BY <1>8 DEF Fetch, At
  <2>2. /\ next.op = call.op /\ next.prompt = call.prompt /\ next.cid = call.cid
        /\ next.count = call.count /\ next.at = "check"
    BY <1>1 DEF Calling
  <2> QED
    BY <1>5, <2>1, <2>2
<1>9. CASE LookupLive(w)
  <2> DEFINE d == descs[call.desc]
  <2> PICK next : next = [call EXCEPT !.at = "fetch", !.count = MatchedChunks(call.prompt, d.prompt)]
    OBVIOUS
  <2>1. /\ call.at = "check" /\ call.desc \in 1 .. Len(descs) /\ Goto(w, next)
        /\ UNCHANGED <<descs, table>>
    BY <1>1, <1>9 DEF LookupLive, Live, At, Fits, DescsInv
  <2>2. d = Of(call.cid)
    BY <1>1, <2>1 DEF Place, Of
  <2>3. d.prompt \in PromptsOf[d.cid] /\ d.cid \in CacheId
    BY <1>1, <2>1, DescFacts
  <2>4. d.prompt \in Seq(Chunk) /\ call.prompt \in Seq(Chunk) \union {None}
    BY <1>1, <2>3, PromptFacts DEF Calling
  <2>5. DOMAIN d.prompt = 1 .. Len(d.prompt)
    BY <2>4
  <2>6. call.prompt # None =>
          \A i \in 1 .. MatchedChunks(call.prompt, d.prompt) :
              i \in 1 .. Len(d.prompt) /\ Payload(call.prompt, i) = Payload(d.prompt, i)
    BY <2>4, <2>5, MatchedFacts
  <2>7. /\ next.at = "fetch" /\ next.cid = call.cid /\ next.prompt = call.prompt
        /\ next.count = MatchedChunks(call.prompt, d.prompt)
    BY <1>1 DEF Calling
  <2>8. Matched(next)
    BY <2>2, <2>6, <2>7 DEF Matched
  <2> QED
    BY <1>2, <1>4, <2>1, <2>8
<1>10. CASE LoadLive(w)
  <2>1. PICK todo : Goto(w, [call EXCEPT !.at = "load", !.todo = todo])
    BY <1>10 DEF LoadLive
  <2> PICK next : next = [call EXCEPT !.at = "load", !.todo = todo]
    OBVIOUS
  <2>2. /\ next.op = call.op /\ next.prompt = call.prompt /\ next.cid = call.cid
        /\ next.count = call.count /\ next.at = "load"
    BY <1>1 DEF Calling
  <2>3. Goto(w, next) /\ UNCHANGED <<descs, table>> /\ call.at = "check"
    BY <1>10, <2>1 DEF LoadLive, Live, At
  <2>4. call.cid \in Published
    BY <1>1, <2>3 DEF Fits, Place, Published
  <2> QED
    BY <1>5, <2>2, <2>3, <2>4
<1>11. CASE GetChunk(w) /\ ~Return(w)
  <2> PICK next : next = [call EXCEPT !.todo = Tail(call.todo),
                                      !.out = Append(call.out, content[Head(call.todo)])]
    OBVIOUS
  <2>1. Goto(w, next) /\ UNCHANGED <<descs, table>> /\ call.at = "load"
    BY <1>11 DEF GetChunk, At
  <2>2. /\ next.op = call.op /\ next.prompt = call.prompt /\ next.cid = call.cid
        /\ next.count = call.count /\ next.at = call.at
    BY <1>1 DEF Calling
  <2>3. Matched(next)
    BY <1>1, <2>1, <2>2 DEF Matched
  <2> QED
    BY <1>2, <1>4, <2>1, <2>3
<1>12. CASE CheckExpired(w)
  <2> PICK next : next = [call EXCEPT !.at = "pop"]
    OBVIOUS
  <2>1. Goto(w, next) /\ next.at = "pop"
    BY <1>1, <1>12 DEF CheckExpired, Calling
  <2> QED
    BY <1>3, <2>1
<1>13. CASE PutChunk(w) /\ ~Return(w)
  <2> PICK next : next = [call EXCEPT !.todo = Tail(call.todo)]
    OBVIOUS
  <2>1. Goto(w, next) /\ next.at = "put"
    BY <1>1, <1>13 DEF PutChunk, At, Calling
  <2> QED
    BY <1>3, <2>1
<1>14. CASE ExtendLive(w)
  <2> PICK next : next = [call EXCEPT !.at = "extend"]
    OBVIOUS
  <2>1. Goto(w, next) /\ next.at = "extend"
    BY <1>1, <1>14 DEF ExtendLive, Calling
  <2> QED
    BY <1>3, <2>1
<1>15. CASE PinLive(w)
  <2> PICK next : next = [call EXCEPT !.at = "pin", !.todo = KeysOf(descs[call.desc])]
    OBVIOUS
  <2>1. Goto(w, next) /\ next.at = "pin"
    BY <1>1, <1>15 DEF PinLive, Calling
  <2> QED
    BY <1>3, <2>1
<1>16. CASE (PinChunk(w) /\ ~Return(w)) \/ (RemoveChunk(w) /\ ~Deleted(w))
  <2> PICK next : next = [call EXCEPT !.todo = Tail(call.todo)]
    OBVIOUS
  <2>1. Goto(w, next) /\ next.at \in {"pin", "remove"}
    BY <1>1, <1>16 DEF PinChunk, RemoveChunk, At, Calling
  <2> QED
    BY <1>3, <2>1
<1>17. CASE NextExpired(w) /\ ~Return(w)
  <2>1. PICK c : Goto(w, [call EXCEPT !.at = "pop", !.cid = c, !.rest = call.rest \ {c}])
    BY <1>17 DEF NextExpired
  <2> PICK next : next = [call EXCEPT !.at = "pop", !.cid = c, !.rest = call.rest \ {c}]
    OBVIOUS
  <2>2. next.at = "pop"
    BY <1>1 DEF Calling
  <2> QED
    BY <1>3, <2>1, <2>2
<1>18. CASE Deleted(w)
  <2>1. PICK next : Goto(w, next) /\ next.at \in {"idle", "next"}
    BY <1>1, <1>18, DeletedPlace
  <2> QED
    BY <1>3, <2>1
<1>19. CASE Pop(w) /\ ~Deleted(w)
  <2> PICK next : next = [call EXCEPT !.at = "remove", !.todo = KeysOf(descs[table[call.cid]])]
    OBVIOUS
  <2>1. Goto(w, next) /\ next.at = "remove"
    BY <1>1, <1>19 DEF Pop, Calling
  <2> QED
    BY <1>3, <2>1
<1>20. CASE Expire \/ Vanish \/ UNCHANGED vars
  <2>1. UNCHANGED <<table, proc>>
    BY <1>20 DEF Expire, Vanish, vars
  <2>2. \A d \in DOMAIN descs : descs'[d].prompt = descs[d].prompt
    <3>1. \A d \in DOMAIN descs : descs[d] \in Descriptor
      BY <1>1 DEF DescsInv
    <3> QED
      BY <1>20, <3>1 DEF Expire, Vanish, vars, Descriptor
  <2>3. \A c \in Published : Of(c)'.prompt = Of(c).prompt
    BY <1>1, <2>1, <2>2, OfFacts DEF Of
  <2>4. Published' = Published
    BY <2>1 DEF Published
  <2> QED
    BY <1>1, <2>1, <2>3, <2>4 DEF Matched
<1>21. Publish(w) \/ BuildFailed(w) \/ GetLive(w) \/ Loaded(w) \/ Extend(w) => Return(w)
  BY DEF Publish, BuildFailed, GetLive, Loaded, Extend
<1>22. CASE Step(w)
  BY <1>6, <1>8, <1>9, <1>10, <1>11, <1>12, <1>13, <1>14, <1>15, <1>16, <1>17, <1>18, <1>19, <1>21,
     <1>22 DEF Step
<1> QED
  BY <1>7, <1>20, <1>22 DEF Next

\* "An explicit hit can never serve stale/garbage KV" (engine.py:10-11), for one thread and
\* whatever prompts are registered under an id: a load that follows a lookup returns the
\* request's own chunks.
THEOREM SequentialHitIsRight ==
  ASSUME NEW w, Thread = {w}, Calm, AllBuild, OneShardCount
  PROVE  Spec => []HitNeverGarbage
<1>1. w \in Thread /\ OneWriter(w)
  BY DEF OneWriter
<1> DEFINE All == TypeInv /\ HitInv /\ PlaceInv(w) /\ Data(proc[w]) /\ Matched(proc[w])
<1>2. Init => All
  <2>1. Init => Matched(proc[w])
    BY <1>1 DEF Init, Matched, Idle
  <2> QED
    BY <1>1, <2>1, RightInit, PlaceInit, DataInit
<1>3. All /\ [Next]_vars => All'
  <2> SUFFICES ASSUME All, [Next]_vars PROVE All'
    OBVIOUS
  <2>1. \A t \in Thread : NextRight(proc[t])
    BY <1>1, MatchedRight
  <2>2. TypeInv' /\ HitInv'
    BY <2>1, RightStep, NextMoves
  <2>3. PlaceInv(w)'
    BY <1>1, PlaceStep
  <2>4. Data(proc[w])'
    BY <1>1, DataStep DEF HitInv
  <2>5. Matched(proc[w])'
    BY MatchedStep
  <2> QED
    BY <2>2, <2>3, <2>4, <2>5
<1>4. All => HitNeverGarbage
  BY RightHits
<1> QED
  BY <1>2, <1>3, <1>4, PTL DEF Spec
=============================================================================
