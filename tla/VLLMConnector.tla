--------------------------- MODULE VLLMConnector ---------------------------
(***************************************************************************)
(* The vLLM connector, connectors/vllm.py, between vLLM's scheduler and    *)
(* workers, the paged buffer and an ExplicitKVCache.                       *)
(*                                                                         *)
(* A step of vLLM schedules requests (match, allocate), ships the plans to *)
(* the workers as metadata, loads, computes what is left and saves.  vLLM  *)
(* itself is external: its blocks, its own prefix cache and the order of   *)
(* its calls are modelled as far as the connector sees them.  A call of    *)
(* the engine is one step here (ExplicitKVCache takes it apart); between   *)
(* two of them other clients of the engine act: they delete, and register  *)
(* caches chunk by chunk as the control server and the SGLang adapter do.  *)
(*                                                                         *)
(* A prompt is a sequence of blocks, several to a chunk, and the KV of its *)
(* block j is the prompt up to j.  The last chunk may be short.            *)
(***************************************************************************)
EXTENDS DictKVTransfer, FiniteSets

CONSTANTS CacheId, Request,
          Content,         \* what the tokens of a block can be
          PromptOf,        \* the prompt of each request
          CacheOf,         \* kv_transfer_params["cache_id"], or None
          Saving,          \* the requests with "save" set
          Block,           \* the physical blocks
          PrefixCaching,   \* vLLM has its own prefix cache switched on
          Others,          \* what other clients of the engine and its store do
          Client,          \* threads that register caches beside vLLM
          ClientPrompts    \* the prompts they register under each id

ASSUME PromptsAssumption == \A r \in Request : PromptOf[r] \in Seq(Content) \ {<<>>}
ASSUME CachesAssumption == \A r \in Request : CacheOf[r] \in CacheId \union {None}
ASSUME BlocksAreFinite == IsFiniteSet(Block)
ASSUME SavingAssumption == Saving \subseteq Request
ASSUME CachingAssumption == PrefixCaching \in BOOLEAN
ASSUME OthersAssumption == Others \subseteq {"delete", "delete unmatched", "evict"}
ASSUME ClientsAssumption == ClientPrompts \in [CacheId -> SUBSET (Seq(Content) \ {<<>>})]

VARIABLES table,    \* the engine: the prompt registered under each id, or None
          store,    \* the engine: the payload of chunk i of cache c, or None
          buffer,   \* transfer.blocks
          hashed,   \* vLLM: the prompt prefix each block is listed for in its prefix cache
          call,     \* the registration each client is at, or None
          req,      \* vLLM: where each request is, and its blocks
          pendingLoads, pendingSaves,   \* the plans made for the requests being scheduled
          meta,     \* the ExplicitConnectorMetadata shipped, less what is done
          phase     \* where the step is

engine == <<table, store, call>>
pending == <<pendingLoads, pendingSaves>>
vars == <<table, store, call, buffer, hashed, req, pendingLoads, pendingSaves, meta, phase>>

KV(prompt, j) == SubSeq(prompt, 1, j)
Prompts == {PromptOf[r] : r \in Request} \union UNION {ClientPrompts[c] : c \in CacheId}
ASSUME NoneIsNoKV == \A p \in Prompts : \A j \in DOMAIN p : KV(p, j) # None

NumChunks(n) == (n + BlocksPerChunk - 1) \div BlocksPerChunk
Chunks(prompt) == [i \in 1 .. NumChunks(Len(prompt)) |-> ChunkBlocks(prompt, i)]
Index == UNION {DOMAIN Chunks(p) : p \in Prompts}

\* The payload of chunk i of a prompt.
ChunkKV(p, i) == [k \in DOMAIN Chunks(p)[i] |-> KV(p, (i - 1) * BlocksPerChunk + k)]

\* The blocks that lookup finds reusable (ExplicitKVCache, PrefixMatch).
Matched(prompt, registered) ==
    LET same == {i \in DOMAIN Chunks(prompt) \intersect DOMAIN Chunks(registered) :
                    \A j \in 1 .. i : Chunks(prompt)[j] = Chunks(registered)[j]}
    IN  IF same = DOMAIN Chunks(registered) THEN Len(registered)
                                            ELSE Cardinality(same) * BlocksPerChunk

Exists(c) == c # None /\ table[c] # None

Waiting == [at |-> "waiting", computed |-> 0, external |-> 0, blocks |-> <<>>]

Init == /\ table = [c \in CacheId |-> None]
        /\ store = [k \in CacheId \X Index |-> None]
        /\ call = [t \in Client |-> None]
        /\ buffer = [b \in Block |-> None]
        /\ hashed = [b \in Block |-> None]
        /\ req = [r \in Request |-> Waiting]
        /\ pendingLoads = {} /\ pendingSaves = {}
        /\ meta = [loads |-> {}, saves |-> {}]
        /\ phase = "schedule"

At(label) == {r \in Request : req[r].at = label}
InScheduler == At("lookup") \union At("matched")

\* CacheNotFoundError, CacheMismatchError or StorageFullError leaves the connector, and vLLM stops.
Raise == phase' = "raised"

-----------------------------------------------------------------------------
(***************************************************************************)
(* Scheduler side.                                                         *)
(***************************************************************************)

\* The leading blocks of a prompt that vLLM has by itself; it computes one at least.
ComputedBlocks(prompt) ==
    Cardinality({n \in 1 .. Len(prompt) - 1 :
                    \A j \in 1 .. n : \E b \in Block : hashed[b] = KV(prompt, j)})

\* get_num_new_matched_tokens: no id, or no such cache, is no reuse.
Match(r) ==
    /\ phase = "schedule" /\ r \in At("waiting") /\ InScheduler = {}
    /\ req' = [req EXCEPT ![r] =
         [@ EXCEPT !.at = IF Exists(CacheOf[r]) THEN "lookup" ELSE "matched",
                   !.computed = ComputedBlocks(PromptOf[r])]]
    /\ UNCHANGED <<engine, buffer, hashed, pending, meta, phase>>

Lookup(r) ==
    /\ phase = "schedule" /\ r \in At("lookup")
    /\ \/ ~Exists(CacheOf[r]) /\ Raise /\ UNCHANGED req
       \/ LET external == Matched(PromptOf[r], table[CacheOf[r]]) - req[r].computed
          IN  /\ Exists(CacheOf[r])
              /\ req' = [req EXCEPT ![r] =
                           [@ EXCEPT !.at = "matched",
                                     !.external = IF external > 0 THEN external ELSE 0]]
              /\ UNCHANGED phase
    /\ UNCHANGED <<engine, buffer, hashed, pending, meta>>

\* allocate_slots, external: the computed blocks are shared, the others are free ones.
Free == Block \ UNION {{req[r].blocks[j] : j \in DOMAIN req[r].blocks} : r \in Request}

Allocation(r) ==
    LET p == PromptOf[r]
        n == req[r].computed
    IN  {f \in [DOMAIN p -> Block] :
            /\ \A i, j \in DOMAIN p : i # j => f[i] # f[j]
            /\ \A j \in 1 .. n : hashed[f[j]] = KV(p, j)
            /\ \A j \in n + 1 .. Len(p) : f[j] \in Free}

\* Mutant: the number of chunks is rounded down.
LoadOp_RoundedDown(r, blocks) ==
    [request |-> r, cache |-> CacheOf[r], blocks |-> blocks,
     chunks |-> req[r].external \div BlocksPerChunk]

LoadOp(r, blocks) ==
    [request |-> r, cache |-> CacheOf[r], blocks |-> blocks,
     chunks |-> NumChunks(req[r].external)]

SaveOp(r, blocks) ==
    [request |-> r, cache |-> CacheOf[r], prompt |-> PromptOf[r], blocks |-> blocks, done |-> 0]

\* update_state_after_alloc: no load is planned if the cache is gone by now, and vLLM
\* counts the external blocks as loaded all the same.
Alloc(r) ==
    /\ phase = "schedule" /\ r \in At("matched")
    /\ \E blocks \in Allocation(r) :
         /\ req' = [req EXCEPT ![r] = [@ EXCEPT !.at = "scheduled", !.blocks = blocks]]
         /\ hashed' = [b \in Block |->
                         IF \E j \in DOMAIN blocks : j > req[r].computed /\ blocks[j] = b
                         THEN None ELSE hashed[b]]
         /\ pendingLoads' = IF req[r].external > 0 /\ Exists(CacheOf[r])
                            THEN pendingLoads \union {LoadOp(r, blocks)} ELSE pendingLoads
         /\ pendingSaves' = IF CacheOf[r] # None /\ r \in Saving
                            THEN pendingSaves \union {SaveOp(r, blocks)} ELSE pendingSaves
    /\ UNCHANGED <<engine, buffer, meta, phase>>

\* Mutant: the plans stay pending, and are shipped again.
BuildMeta_KeepsPlans ==
    /\ phase = "schedule" /\ InScheduler = {} /\ At("scheduled") # {}
    /\ meta' = [loads |-> pendingLoads, saves |-> pendingSaves]
    /\ phase' = "load"
    /\ UNCHANGED <<engine, buffer, hashed, req, pending>>

\* build_connector_meta.
BuildMeta ==
    /\ phase = "schedule" /\ InScheduler = {} /\ At("scheduled") # {}
    /\ meta' = [loads |-> pendingLoads, saves |-> pendingSaves]
    /\ pendingLoads' = {} /\ pendingSaves' = {}
    /\ phase' = "load"
    /\ UNCHANGED <<engine, buffer, hashed, req>>

-----------------------------------------------------------------------------
(***************************************************************************)
(* Worker side.                                                            *)
(***************************************************************************)

\* start_load_kv, one LoadOp: engine.load clips the count to the chunks there are by
\* now, and they go into the first blocks of the request.
StartLoad(op) ==
    LET n == IF Exists(op.cache) THEN Least(op.chunks, Len(Chunks(table[op.cache]))) ELSE 0
        there == Exists(op.cache) /\ \A i \in 1 .. n : store[<<op.cache, i>>] # None
    IN  /\ phase = "load" /\ op \in meta.loads
        /\ \/ ~there /\ Raise /\ UNCHANGED <<buffer, meta>>
           \/ /\ there
              /\ buffer' = LoadInto(buffer, op.blocks, [i \in 1 .. n |-> store[<<op.cache, i>>]])
              /\ meta' = [meta EXCEPT !.loads = @ \ {op}]
              /\ UNCHANGED phase
        /\ UNCHANGED <<engine, hashed, req, pending>>

\* The blocks of r up to n hold the KV of its prompt.
Right(r, n) == \A j \in 1 .. n : buffer[req[r].blocks[j]] = KV(PromptOf[r], j)

\* The model runs, external: it computes the blocks that are neither in vLLM's prefix
\* cache nor external, each from the ones before it, and lists all blocks by their tokens.
Forward ==
    /\ phase = "load" /\ meta.loads = {}
    /\ LET Computes(r, j, b) == /\ j \in DOMAIN req[r].blocks /\ req[r].blocks[j] = b
                                /\ j > req[r].computed + req[r].external
           Lists(r, j, b) == j \in DOMAIN req[r].blocks /\ req[r].blocks[j] = b
           New == At("scheduled") \X (1 .. Cardinality(Block))
       IN  /\ buffer' = [b \in Block |->
                 IF \E x \in New : Computes(x[1], x[2], b)
                 THEN LET x == CHOOSE x \in New : Computes(x[1], x[2], b)
                      IN  IF Right(x[1], req[x[1]].computed + req[x[1]].external)
                          THEN KV(PromptOf[x[1]], x[2]) ELSE None
                 ELSE buffer[b]]
           /\ hashed' = [b \in Block |->
                 IF PrefixCaching /\ \E x \in New : Lists(x[1], x[2], b)
                 THEN LET x == CHOOSE x \in New : Lists(x[1], x[2], b)
                      IN  KV(PromptOf[x[1]], x[2])
                 ELSE hashed[b]]
    /\ req' = [r \in Request |-> IF r \in At("scheduled") THEN [req[r] EXCEPT !.at = "running"]
                                                          ELSE req[r]]
    /\ phase' = "save"
    /\ UNCHANGED <<engine, pending, meta>>

\* The SaveOp at hand, one after the other.
Current(op) == op \in meta.saves /\ \A o \in meta.saves \ {op} : o.done = 0

\* put_chunk has made room in vain: what the key held is gone, cpu.py:40-43.
Refused(k) == store' = [store EXCEPT ![k] = None]

\* Mutant: a chunk that is in the store already is not put.
PutChunk_IfAbsent(op) ==
    LET payloads == SaveFrom(buffer, op.blocks, NumChunks(Len(op.prompt)))
        i == op.done + 1
    IN  /\ phase = "save" /\ Current(op) /\ i \in DOMAIN payloads
        /\ \/ /\ store' = IF store[<<op.cache, i>>] = None
                           THEN [store EXCEPT ![<<op.cache, i>>] = payloads[i]] ELSE store
              /\ meta' = [meta EXCEPT !.saves = (@ \ {op}) \union {[op EXCEPT !.done = i]}]
              /\ UNCHANGED phase
           \/ Refused(<<op.cache, i>>) /\ Raise /\ UNCHANGED meta
        /\ UNCHANGED <<table, call, buffer, hashed, req, pending>>

\* wait_for_save, one SaveOp, its next chunk.  (save_from reads all chunks before the
\* first is put; the buffer does not change while they are.)
PutChunk(op) ==
    LET payloads == SaveFrom(buffer, op.blocks, NumChunks(Len(op.prompt)))
        i == op.done + 1
    IN  /\ phase = "save" /\ Current(op) /\ i \in DOMAIN payloads
        /\ \/ /\ store' = [store EXCEPT ![<<op.cache, i>>] = payloads[i]]
              /\ meta' = [meta EXCEPT !.saves = (@ \ {op}) \union {[op EXCEPT !.done = i]}]
              /\ UNCHANGED phase
           \/ Refused(<<op.cache, i>>) /\ Raise /\ UNCHANGED meta
        /\ UNCHANGED <<table, call, buffer, hashed, req, pending>>

\* wait_for_save, the commit after the last chunk.  It fails on a ttl or a token that the
\* engine cannot take.
Commit(op) ==
    /\ phase = "save" /\ Current(op) /\ op.done = NumChunks(Len(op.prompt))
    /\ \/ /\ table' = [table EXCEPT ![op.cache] = op.prompt]
          /\ meta' = [meta EXCEPT !.saves = @ \ {op}]
          /\ UNCHANGED phase
       \/ Raise /\ UNCHANGED <<table, meta>>
    /\ UNCHANGED <<store, call, buffer, hashed, req, pending>>

EndStep == /\ phase = "save" /\ meta.saves = {}
           /\ phase' = "schedule"
           /\ UNCHANGED <<engine, buffer, hashed, req, pending, meta>>

\* The request is done: its blocks are free and keep what they hold.  A request like it
\* may come later.
Finish(r) == /\ phase = "schedule" /\ r \in At("running")
             /\ req' = [req EXCEPT ![r] = Waiting]
             /\ UNCHANGED <<engine, buffer, hashed, pending, meta, phase>>

-----------------------------------------------------------------------------
(***************************************************************************)
(* Other clients of the engine, and its store.                             *)
(***************************************************************************)
connector == <<buffer, hashed, req, pending, meta, phase>>

\* A cache is deleted, or its ttl runs out.  Its chunks go after it, one by one (Evict).
\* "delete unmatched": not while vLLM has been told of a match and has not allocated yet.
CountedOn(c) == \E r \in At("matched") : CacheOf[r] = c /\ req[r].external > 0

Delete(c) ==
    /\ "delete" \in Others \/ ("delete unmatched" \in Others /\ ~CountedOn(c))
    /\ Exists(c)
    /\ table' = [table EXCEPT ![c] = None]
    /\ UNCHANGED <<store, call, connector>>

Evict(k) ==
    /\ "evict" \in Others /\ store[k] # None
    /\ store' = [store EXCEPT ![k] = None]
    /\ UNCHANGED <<table, call, connector>>

\* engine.register, or an SGLang store: the chunks are put, and then the cache is committed.
BeginRegister(t) ==
    /\ call[t] = None
    /\ \E c \in CacheId : \E p \in ClientPrompts[c] :
          call' = [call EXCEPT ![t] = [cache |-> c, prompt |-> p, done |-> 0]]
    /\ UNCHANGED <<table, store, connector>>

RegisterChunk(t) ==
    LET i == call[t].done + 1
        k == <<call[t].cache, i>>
    IN  /\ call[t] # None /\ i \in DOMAIN Chunks(call[t].prompt)
        /\ \/ /\ store' = [store EXCEPT ![k] = ChunkKV(call[t].prompt, i)]
              /\ call' = [call EXCEPT ![t].done = i]
           \/ Refused(k) /\ call' = [call EXCEPT ![t] = None]
        /\ UNCHANGED <<table, connector>>

CommitRegister(t) ==
    /\ call[t] # None /\ call[t].done = NumChunks(Len(call[t].prompt))
    /\ table' = [table EXCEPT ![call[t].cache] = call[t].prompt]
    /\ call' = [call EXCEPT ![t] = None]
    /\ UNCHANGED <<store, connector>>

Next == \/ \E r \in Request : Match(r) \/ Lookup(r) \/ Alloc(r) \/ Finish(r)
        \/ BuildMeta
        \/ \E op \in meta.loads : StartLoad(op)
        \/ Forward
        \/ \E op \in meta.saves : PutChunk(op) \/ Commit(op)
        \/ EndStep
        \/ \E c \in CacheId : Delete(c)
        \/ \E k \in DOMAIN store : Evict(k)
        \/ \E t \in Client : BeginRegister(t) \/ RegisterChunk(t) \/ CommitRegister(t)

Spec == Init /\ [][Next]_vars

-----------------------------------------------------------------------------
(***************************************************************************)
(* What the properties need of the other users of an id.                   *)
(***************************************************************************)
\* The chunks of q are the first chunks of p.
Leads(q, p) == \A i \in DOMAIN Chunks(q) : i \in DOMAIN Chunks(p) /\ Chunks(q)[i] = Chunks(p)[i]

\* What clients register under an id is one prompt, and what vLLM saves there leads it.
\* Under an id that they do not register, requests save what they like.
Steady == \A c \in CacheId : \A p \in ClientPrompts[c] :
             /\ \A q \in ClientPrompts[c] : q = p
             /\ \A r \in Saving : CacheOf[r] = c => Leads(PromptOf[r], p)

-----------------------------------------------------------------------------
(***************************************************************************)
(* Properties.                                                             *)
(***************************************************************************)
BlockKV == UNION {{KV(p, j) : j \in DOMAIN p} : p \in Prompts}

\* The requests are where the step has brought them; plans are for requests that are
\* being scheduled, and each has blocks for its prompt.
TypeOK ==
    /\ \A c \in CacheId : table[c] = None \/ table[c] \in Prompts
    /\ \A t \in Client : call[t] = None \/
          /\ call[t].prompt \in ClientPrompts[call[t].cache]
          /\ call[t].done \in 0 .. NumChunks(Len(call[t].prompt))
    /\ \A k \in DOMAIN store : store[k] = None \/
          \A j \in DOMAIN store[k] : store[k][j] \in BlockKV \union {None}
    /\ buffer \in [Block -> BlockKV \union {None}]
    /\ hashed \in [Block -> BlockKV \union {None}]
    /\ \A r \in Request : /\ req[r].at \in {"waiting", "lookup", "matched", "scheduled", "running"}
                          /\ req[r].computed + req[r].external <= Len(PromptOf[r])
    /\ \A op \in pendingLoads \union pendingSaves \union meta.loads :
          /\ op.request \in At("scheduled")
          /\ op.blocks = req[op.request].blocks /\ Len(op.blocks) = Len(PromptOf[op.request])
    /\ \A op \in pendingSaves \union meta.saves : op.done \in 0 .. NumChunks(Len(op.prompt))
    /\ phase \in {"schedule", "load", "save", "raised"}

\* "An explicit hit can never serve stale/garbage KV" (engine.py:10-11), where it counts:
\* the blocks of a request that runs hold the KV of its own prompt, whether computed,
\* loaded from a cache or shared, and nothing writes into them until it is done.
RunsOnItsOwnKV == \A r \in At("running") : Right(r, Len(PromptOf[r]))

\* Every chunk under a published id holds the KV of the prompt whose fingerprints it
\* publishes, or of the one that a save under the id has put chunks of by then (also one
\* broken off for good by StorageFullError or at its commit), and of nothing else: also
\* when that KV had itself been loaded, and however often requests with other prompts and
\* other clients have written under the id.
SavedIsRight ==
    \A c \in CacheId : table[c] # None =>
        \A i \in DOMAIN Chunks(table[c]) :
            store[<<c, i>>] \in
                {None, ChunkKV(table[c], i)}
                \union {ChunkKV(op.prompt, i) : op \in {o \in meta.saves : o.cache = c /\ i <= o.done}}
=============================================================================
