-------------------------- MODULE ExplicitKVCache --------------------------
(***************************************************************************)
(* The control plane, engine.py: a table from cache ids to descriptors,    *)
(* over a store of KV chunks.  The engine's lock is held only while the    *)
(* table is read or written, and the store's only for one call; between    *)
(* them the threads of a server interleave.  A step of this module is one  *)
(* such critical section, with the local computation that goes with it.    *)
(*                                                                         *)
(* A prompt is the sequence of its chunks; two chunks are equal when their *)
(* token fingerprints are.  The KV of a chunk depends on all the tokens    *)
(* before it, so the payload of chunk i is the prompt up to chunk i.       *)
(*                                                                         *)
(* Abstracted: the clock is a bit per descriptor, set once its expiry has  *)
(* passed; hits, names, sizes and times of use are left out.               *)
(***************************************************************************)
EXTENDS Integers, Sequences, FiniteSets

CONSTANTS Thread,       \* the threads that call the engine
          CacheId,
          Chunk,        \* the contents of a chunk of tokens
          None,
          PromptsOf,    \* the prompts that may be registered under an id
          Request,      \* the prompts that caches are looked up for, None for no tokens
          OpsOf,        \* the methods each thread calls
          ShardCounts,  \* how many workers (tensor-parallel shards) hold a cache
          PinChoices,   \* the values of the argument pin
          TTLChoices,   \* the argument ttl: "none", "some" or "invalid" (see BuildFailed)
          Bounded,      \* the store has a capacity: it may evict and refuse
          Lossy,        \* unpinned chunks may vanish from the store by themselves
          MaxRegistrations   \* bound: how often register is called

Operation == {"register", "delete", "get", "reuse", "load", "extend_ttl", "pin", "unpin", "sweep"}

ASSUME PromptsAssumption == PromptsOf \in [CacheId -> SUBSET (Seq(Chunk) \ {<<>>})]
ASSUME RequestAssumption == Request \subseteq Seq(Chunk) \union {None}
ASSUME OpsAssumption == OpsOf \in [Thread -> SUBSET Operation]
ASSUME ShardsAssumption == ShardCounts \subseteq Nat \ {0}
ASSUME ChoicesAssumption == /\ PinChoices \subseteq BOOLEAN
                           /\ TTLChoices \subseteq {"none", "some", "invalid"}
                           /\ Bounded \in BOOLEAN /\ Lossy \in BOOLEAN
ASSUME RegistrationsAssumption == MaxRegistrations \in Nat

VARIABLES content,      \* the store: the payload under each ChunkKey, or None
          kept,         \* the store: the keys it has pinned
          descs,        \* the CacheDescriptors built so far, shared by reference
          table,        \* self._descriptors: where in descs an id's descriptor is, or 0
          proc          \* the call each thread is in: where it is and its local variables

vars == <<content, kept, descs, table, proc>>

Prompt == UNION {PromptsOf[c] : c \in CacheId}
Index == UNION {DOMAIN p : p \in Prompt}
Worker == UNION {1 .. n : n \in ShardCounts}
Payload(prompt, i) == SubSeq(prompt, 1, i)

\* ChunkKey: cache id, chunk index and worker id (both from 1 here).
Key == CacheId \X Index \X Worker
Obj == UNION {{Payload(p, i) : i \in DOMAIN p} : p \in Prompt}

ASSUME NoneIsNoPayload == None \notin Obj

Store == INSTANCE StorageBackend WITH pinned <- kept, last <- None

\* The keys of n chunks, in the order of "for worker_id ...: for idx ...".
ChunkKeys(c, n, shards) ==
    [j \in 1 .. n * shards |-> <<c, ((j - 1) % n) + 1, ((j - 1) \div n) + 1>>]

Descriptor == [cid : CacheId, prompt : Prompt, shards : ShardCounts,
               pinned : BOOLEAN, ttl : BOOLEAN, expired : BOOLEAN]
KeysOf(d) == ChunkKeys(d.cid, Len(d.prompt), d.shards)

\* Mutant: the fingerprints are not compared.
MatchedChunks_LengthOnly(request, prompt) ==
    IF request = None THEN Len(prompt) ELSE Cardinality(DOMAIN request \intersect DOMAIN prompt)

\* matched_chunk_count: the leading chunks of the request that are the registered ones.
\* Without request tokens lookup trusts the caller.
MatchedChunks(request, prompt) ==
    IF request = None THEN Len(prompt)
    ELSE Cardinality({i \in DOMAIN request \intersect DOMAIN prompt :
                         Payload(request, i) = Payload(prompt, i)})

Published == {c \in CacheId : table[c] # 0}

-----------------------------------------------------------------------------
(***************************************************************************)
(* A call of a thread: the method, where it is, and its locals.            *)
(***************************************************************************)
Idle == [at |-> "idle", op |-> "none", cid |-> None, prompt |-> <<>>, shards |-> 0,
         pin |-> FALSE, ttl |-> "none", desc |-> 0, count |-> 0,
         todo |-> <<>>, out |-> <<>>, rest |-> {}]

Init == /\ content = [k \in Key |-> None]
        /\ kept = {}
        /\ descs = <<>>
        /\ table = [c \in CacheId |-> 0]
        /\ proc = [t \in Thread |-> Idle]

At(t, label) == proc[t].at = label
Goto(t, call) == proc' = [proc EXCEPT ![t] = call]
Return(t) == Goto(t, Idle)

Registering == {t \in Thread : proc[t].op = "register"}

\* A method is called.  delete and sweep_expired go on to pop descriptors; every method
\* but register begins with the descriptor of the id.
BeginRegister(t, c) ==
    /\ Len(descs) + Cardinality(Registering) < MaxRegistrations
    /\ \E p \in PromptsOf[c], n \in ShardCounts, pin \in PinChoices, ttl \in TTLChoices :
         Goto(t, [Idle EXCEPT !.at = "put", !.op = "register", !.cid = c, !.prompt = p,
                              !.shards = n, !.pin = pin, !.ttl = ttl,
                              !.todo = ChunkKeys(c, Len(p), n)])

BeginReuse(t, c, p, w) == Goto(t, [Idle EXCEPT !.at = "fetch", !.op = "reuse", !.cid = c,
                                               !.prompt = p, !.shards = w, !.count = -1])

Begin(t, op, c) ==
    /\ At(t, "idle")
    /\ UNCHANGED <<content, kept, descs, table>>
    /\ \/ op = "register" /\ BeginRegister(t, c)
       \/ /\ op = "reuse"
          /\ \E p \in Request, w \in Worker : BeginReuse(t, c, p, w)
       \/ /\ op \in {"get", "extend_ttl", "pin", "unpin"}
          /\ Goto(t, [Idle EXCEPT !.at = "fetch", !.op = op, !.cid = c])
       \/ /\ op = "load"
          /\ \E w \in Worker : Goto(t, [Idle EXCEPT !.at = "fetch", !.op = op, !.cid = c, !.shards = w])
       \/ /\ op = "delete"
          /\ Goto(t, [Idle EXCEPT !.at = "pop", !.op = op, !.cid = c])
       \/ /\ op = "sweep"
          /\ Goto(t, [Idle EXCEPT !.at = "next", !.op = op,
                                  !.rest = {e \in Published : descs[table[e]].expired}])

Call(t) == \E op \in OpsOf[t], c \in CacheId : Begin(t, op, c)

(***************************************************************************)
(* register, or put_chunk for each chunk followed by commit: the chunks go *)
(* into the store one by one under no lock, then the descriptor is built   *)
(* and published.                                                          *)
(***************************************************************************)
\* Mutant: a key that holds a chunk is not written again.
PutChunk_IfAbsent(t) ==
    LET k == Head(proc[t].todo)
    IN  /\ At(t, "put") /\ proc[t].todo # <<>>
        /\ IF content[k] = None THEN Store!Stored(k, Payload(proc[t].prompt, k[2]), proc[t].pin)
                                ELSE UNCHANGED <<content, kept>>
        /\ Goto(t, [proc[t] EXCEPT !.todo = Tail(@)])
        /\ UNCHANGED <<descs, table>>

PutChunk(t) ==
    LET k == Head(proc[t].todo)
    IN  /\ At(t, "put") /\ proc[t].todo # <<>>
        /\ \/ /\ Store!Stored(k, Payload(proc[t].prompt, k[2]), proc[t].pin)
              /\ Goto(t, [proc[t] EXCEPT !.todo = Tail(@)])
           \/ /\ Store!Refused(k)        \* StorageFullError leaves register
              /\ Return(t)
        /\ UNCHANGED <<descs, table>>

\* Mutant: published while chunks are still missing.
Publish_Early(t) ==
    LET call == proc[t]
    IN  /\ At(t, "put")
        /\ descs' = Append(descs, [cid |-> call.cid, prompt |-> call.prompt,
                                   shards |-> call.shards, pinned |-> call.pin,
                                   ttl |-> call.ttl = "some", expired |-> FALSE])
        /\ table' = [table EXCEPT ![call.cid] = Len(descs')]
        /\ Return(t)
        /\ UNCHANGED <<content, kept>>

Publish(t) ==
    LET call == proc[t]
    IN  /\ At(t, "put") /\ call.todo = <<>> /\ call.ttl # "invalid"
        /\ descs' = Append(descs, [cid |-> call.cid, prompt |-> call.prompt,
                                   shards |-> call.shards, pinned |-> call.pin,
                                   ttl |-> call.ttl = "some", expired |-> FALSE])
        /\ table' = [table EXCEPT ![call.cid] = Len(descs')]
        /\ Return(t)
        /\ UNCHANGED <<content, kept>>

\* The descriptor cannot be built: the ttl is no number, or a token does not fit its
\* fingerprint.  The chunks have all been written by then.
BuildFailed(t) == /\ At(t, "put") /\ proc[t].todo = <<>> /\ proc[t].ttl = "invalid"
                  /\ Return(t)
                  /\ UNCHANGED <<content, kept, descs, table>>

(***************************************************************************)
(* _live_descriptor: the descriptor is fetched under the lock and its      *)
(* expiry checked after it; what is done with an expired one is a delete   *)
(* by its id.                                                              *)
(***************************************************************************)
Fetch(t) ==
    /\ At(t, "fetch")
    /\ \/ /\ proc[t].cid \notin Published      \* CacheNotFoundError
          /\ Return(t)
       \/ /\ proc[t].cid \in Published
          /\ Goto(t, [proc[t] EXCEPT !.at = "check", !.desc = table[proc[t].cid]])
    /\ UNCHANGED <<content, kept, descs, table>>

CheckExpired(t) ==
    /\ At(t, "check") /\ descs[proc[t].desc].expired
    /\ Goto(t, [proc[t] EXCEPT !.at = "pop"])
    /\ UNCHANGED <<content, kept, descs, table>>

Live(t) == At(t, "check") /\ ~descs[proc[t].desc].expired

GetLive(t) == /\ Live(t) /\ proc[t].op = "get"
              /\ Return(t)
              /\ UNCHANGED <<content, kept, descs, table>>

\* lookup returns how many chunks match; its caller then loads as many, also none.
LookupLive(t) ==
    /\ Live(t) /\ proc[t].op = "reuse" /\ proc[t].count = -1
    /\ Goto(t, [proc[t] EXCEPT !.at = "fetch",
                               !.count = MatchedChunks(proc[t].prompt, descs[proc[t].desc].prompt)])
    /\ UNCHANGED <<content, kept, descs, table>>

\* load fetches the descriptor again.  Without num_chunks it loads the whole cache.
\* Mutant: one chunk more than there are.
LoadLive_OneMore(t) ==
    LET d == descs[proc[t].desc]
    IN  /\ Live(t)
        /\ proc[t].op = "load" \/ (proc[t].op = "reuse" /\ proc[t].count # -1)
        /\ Goto(t, [proc[t] EXCEPT !.at = "load",
                                   !.todo = [i \in 1 .. Len(d.prompt) + 1 |-> <<d.cid, i, proc[t].shards>>]])
        /\ UNCHANGED <<content, kept, descs, table>>

LoadLive(t) ==
    LET d == descs[proc[t].desc]
        n == IF proc[t].op = "load" \/ proc[t].count > Len(d.prompt)
             THEN Len(d.prompt) ELSE proc[t].count
    IN  /\ Live(t)
        /\ proc[t].op = "load" \/ (proc[t].op = "reuse" /\ proc[t].count # -1)
        /\ Goto(t, [proc[t] EXCEPT !.at = "load",
                                   !.todo = [i \in 1 .. n |-> <<d.cid, i, proc[t].shards>>]])
        /\ UNCHANGED <<content, kept, descs, table>>

GetChunk(t) ==
    LET k == Head(proc[t].todo)
    IN  /\ At(t, "load") /\ proc[t].todo # <<>>
        /\ \/ content[k] = None /\ Return(t)   \* CacheMismatchError
           \/ /\ content[k] # None
              /\ Goto(t, [proc[t] EXCEPT !.todo = Tail(@), !.out = Append(@, content[k])])
        /\ UNCHANGED <<content, kept, descs, table>>

Loaded(t) == /\ At(t, "load") /\ proc[t].todo = <<>>
             /\ Return(t)
             /\ UNCHANGED <<content, kept, descs, table>>

(***************************************************************************)
(* extend_ttl, pin and unpin write to the descriptor they found live, even *)
(* if it has left the table since.                                         *)
(***************************************************************************)
ExtendLive(t) ==
    /\ Live(t) /\ proc[t].op = "extend_ttl"
    /\ Goto(t, [proc[t] EXCEPT !.at = "extend"])
    /\ UNCHANGED <<content, kept, descs, table>>

Extend(t) ==
    /\ At(t, "extend")
    /\ descs' = [descs EXCEPT ![proc[t].desc].ttl = TRUE, ![proc[t].desc].expired = FALSE]
    /\ Return(t)
    /\ UNCHANGED <<content, kept, table>>

PinLive(t) ==
    /\ Live(t) /\ proc[t].op \in {"pin", "unpin"}
    /\ descs' = [descs EXCEPT ![proc[t].desc].pinned = (proc[t].op = "pin")]
    /\ Goto(t, [proc[t] EXCEPT !.at = "pin", !.todo = KeysOf(descs[proc[t].desc])])
    /\ UNCHANGED <<content, kept, table>>

PinChunk(t) ==
    LET k == Head(proc[t].todo)
    IN  /\ At(t, "pin")
        /\ IF proc[t].op = "pin" THEN Store!Pinned(k) ELSE Store!Unpinned(k)
        /\ IF Len(proc[t].todo) = 1 THEN Return(t)
                                    ELSE Goto(t, [proc[t] EXCEPT !.todo = Tail(@)])
        /\ UNCHANGED <<descs, table>>

(***************************************************************************)
(* delete pops whatever descriptor the id has by now, then removes its     *)
(* chunks under no lock.  sweep_expired deletes one by one the ids it saw  *)
(* expired.                                                                *)
(***************************************************************************)
Deleted(t) == IF proc[t].op = "sweep" THEN Goto(t, [proc[t] EXCEPT !.at = "next", !.todo = <<>>])
                                      ELSE Return(t)

\* Mutant: an id that was swept stays on the list.
NextExpired_KeepsId(t) ==
    /\ At(t, "next")
    /\ \/ proc[t].rest = {} /\ Return(t)
       \/ \E c \in proc[t].rest : Goto(t, [proc[t] EXCEPT !.at = "pop", !.cid = c])
    /\ UNCHANGED <<content, kept, descs, table>>

NextExpired(t) ==
    /\ At(t, "next")
    /\ \/ proc[t].rest = {} /\ Return(t)
       \/ \E c \in proc[t].rest :
            Goto(t, [proc[t] EXCEPT !.at = "pop", !.cid = c, !.rest = @ \ {c}])
    /\ UNCHANGED <<content, kept, descs, table>>

\* Mutant: only the chunks of the first worker are removed.
Pop_OneWorker(t) ==
    LET c == proc[t].cid
    IN  /\ At(t, "pop")
        /\ \/ c \notin Published /\ Deleted(t) /\ UNCHANGED table
           \/ /\ c \in Published
              /\ table' = [table EXCEPT ![c] = 0]
              /\ Goto(t, [proc[t] EXCEPT !.at = "remove", !.todo = ChunkKeys(c, Len(descs[table[c]].prompt), 1)])
        /\ UNCHANGED <<content, kept, descs>>

Pop(t) ==
    LET c == proc[t].cid
    IN  /\ At(t, "pop")
        /\ \/ c \notin Published /\ Deleted(t) /\ UNCHANGED table
           \/ /\ c \in Published
              /\ table' = [table EXCEPT ![c] = 0]
              /\ Goto(t, [proc[t] EXCEPT !.at = "remove", !.todo = KeysOf(descs[table[c]])])
        /\ UNCHANGED <<content, kept, descs>>

RemoveChunk(t) ==
    /\ At(t, "remove")
    /\ Store!Removed(Head(proc[t].todo))
    /\ IF Len(proc[t].todo) = 1 THEN Deleted(t)
                                ELSE Goto(t, [proc[t] EXCEPT !.todo = Tail(@)])
    /\ UNCHANGED <<descs, table>>

\* How a call ends if the step that t takes next ends it.
Outcome(t) ==
    IF At(t, "fetch") THEN "CacheNotFoundError"
    ELSE IF proc[t].at \in {"pop", "remove"} /\ proc[t].op \notin {"delete", "sweep"} THEN "CacheExpiredError"
    ELSE IF At(t, "put") /\ proc[t].todo # <<>> THEN "StorageFullError"
    ELSE IF At(t, "put") /\ proc[t].ttl = "invalid" THEN "TypeError"
    ELSE IF At(t, "load") /\ proc[t].todo # <<>> THEN "CacheMismatchError"
    ELSE "returned"

(***************************************************************************)
(* Time passes: the expiry of a descriptor that is still in use is reached.*)
(***************************************************************************)
InUse == {table[c] : c \in Published} \union {proc[t].desc : t \in Thread}

Expire == /\ \E d \in DOMAIN descs \intersect InUse :
               /\ descs[d].ttl /\ ~descs[d].expired
               /\ descs' = [descs EXCEPT ![d].expired = TRUE]
          /\ UNCHANGED <<content, kept, table, proc>>

\* A chunk that is not pinned vanishes from the store (the ttl of a key in Redis).
Vanish == /\ \E k \in Key : Store!Lost(k)
          /\ UNCHANGED <<descs, table, proc>>

\* A step of a call that has begun.
Step(t) == \/ PutChunk(t) \/ Publish(t) \/ BuildFailed(t)
           \/ Fetch(t) \/ CheckExpired(t)
           \/ GetLive(t) \/ LookupLive(t) \/ LoadLive(t) \/ GetChunk(t) \/ Loaded(t)
           \/ ExtendLive(t) \/ Extend(t) \/ PinLive(t) \/ PinChunk(t)
           \/ NextExpired(t) \/ Pop(t) \/ RemoveChunk(t)

Next == Expire \/ Vanish \/ \E t \in Thread : Call(t) \/ Step(t)

Spec == Init /\ [][Next]_vars

-----------------------------------------------------------------------------
(***************************************************************************)
(* Properties.                                                             *)
(***************************************************************************)

\* The table leads to descriptors of the ids it lists; pins are of known keys; a thread
\* that has fetched a descriptor holds one of its own id.
TypeOK ==
    /\ content \in [Key -> Obj \union {None}]
    /\ kept \subseteq Key
    /\ descs \in Seq(Descriptor) /\ Len(descs) <= MaxRegistrations
    /\ table \in [CacheId -> 0 .. Len(descs)]
    /\ \A c \in Published : descs[table[c]].cid = c
    /\ DOMAIN proc = Thread
    /\ \A t \in Thread : /\ proc[t].desc \in 0 .. Len(descs)
                         /\ proc[t].desc # 0 => descs[proc[t].desc].cid = proc[t].cid
                         /\ \A i \in DOMAIN proc[t].todo : proc[t].todo[i] \in Key
                         /\ proc[t].rest \subseteq CacheId

\* "An explicit hit can never serve stale/garbage KV" (engine.py:10-11): every payload
\* a load returns to a caller that has looked its request up is the KV of that request's
\* own prefix.
HitNeverGarbage ==
    \A t \in Thread :
      proc[t].op = "reuse" /\ proc[t].prompt # None /\ At(t, "load") /\ proc[t].todo = <<>> =>
        \A i \in DOMAIN proc[t].out : proc[t].out[i] = Payload(proc[t].prompt, i)

\* A descriptor is published "for chunks already written" (engine.py:158): the store
\* holds every chunk of a cache from the moment it can be looked up.
ChunksOf(c) == LET keys == KeysOf(descs[table[c]]) IN {keys[j] : j \in DOMAIN keys}

PublishedComplete == \A c \in Published : \A k \in ChunksOf(c) : content[k] # None

\* No call on the id is under way.
Quiet(c) == \A t \in Thread : proc[t].cid # c

\* Between calls the chunks of a published cache are those of the prompt its
\* fingerprints are of, whatever was registered under the id before.
PublishedConsistent ==
    \A c \in Published : Quiet(c) =>
        \A k \in ChunksOf(c) : content[k] = Payload(descs[table[c]].prompt, k[2])

\* The last descriptor built for an id leads past k: it is of a shorter prompt, or of fewer
\* workers, than one before it.
Surplus(k) ==
    \E d \in DOMAIN descs :
        /\ descs[d].cid = k[1] /\ \A e \in DOMAIN descs : e > d => descs[e].cid # k[1]
        /\ ~\E j \in DOMAIN KeysOf(descs[d]) : KeysOf(descs[d])[j] = k

\* Between calls every chunk in the store is one that a published descriptor leads to:
\* nothing else would ever remove it, since delete walks the descriptor (engine.py:242-244).
\* The exception is what a registration of the id with fewer chunks or workers left over.
NothingOrphaned ==
    \A k \in Key : content[k] # None /\ Quiet(k[1]) =>
        (k[1] \in Published /\ k \in ChunksOf(k[1])) \/ Surplus(k)

\* "reset TTL" (README.md:133; tests/test_engine.py:74-77): a cache retired because its ttl
\* ran out is one whose ttl has run out, not one that was extended, or registered again,
\* after the expired descriptor was read.
OnlyExpiredRetired ==
    [][\A t \in Thread :
          At(t, "pop") /\ proc'[t] # proc[t] /\ proc[t].op # "delete" /\ proc[t].cid \in Published
             => descs[table[proc[t].cid]].expired]_vars
=============================================================================
