# A verification development for llmcache

TLA+ specifications of `llmcache` (`src/src/llmcache`), TLC configurations that check them on
small instances, and TLAPS proofs for every instance. Source references are to files under
`src/src/llmcache`, tests to `src/tests`.

## 1. The system

An application registers the KV of a prompt under a **cache id** and later asks for it by that id.

```
 vLLM scheduler / worker      SGLang        HTTP control server (threads)
        |                       |                    |
   VLLMConnector           SGLangExplicitCache       |
        |  \                    |                    |
        |   DictKVTransfer (paged buffer)            |
        +-----------+-----------+--------------------+
                    v
          ExplicitKVCache: cache id -> descriptor, fingerprints, ttl, pin
                    v
          StorageBackend: ChunkKey -> KVPayload
            CPUBackend   DiskBackend   RedisBackend   TieredBackend(hot, cold)
```

### Components

| component | state | operations | hard behaviour | what makes it correct |
|---|---|---|---|---|
| `store/base.py` StorageBackend | objects by key, pins | put, get, remove, pin, unpin | the contract that the engine relies on | implementations keep it |
| `store/cpu.py` CPUBackend | `_data` (ordered), `_pinned`, `_used` | the same, LRU eviction, refusal | put is in several parts: drop, evict, maybe raise, insert | byte count and budget; pinned objects are kept; least recently used first; refused only for pins |
| `store/tiered.py` TieredBackend | two tiers, no lock of its own | put/get/remove/pin on both tiers, demotion as a callback of the hot tier | calls of two threads interleave between the tiers; a cold write fails in the middle of an eviction; restart | a key shows what was last put; nothing is dropped to make room; pinned puts survive a restart |
| `store/disk.py` DiskBackend | one file per key, pins in memory | temporary file and replace, unlink, rmdir | directory created and removed by different calls; exists then open; crash or full disk between write and replace | reads see whole objects; nothing is left behind; errors only from races with a remove |
| `store/remote.py` RedisBackend | keys with or without expiry, shared by processes | set/get/delete/persist/expire/scan | unpinned keys expire by themselves; calls break off between two commands; cache ids with colons | pinned keys do not expire; namespaces do not touch each other; clear finds everything |
| `engine.py` ExplicitKVCache | `_descriptors`; descriptors are shared objects | register, put_chunk + commit, get/exists, lookup, load, delete, extend_ttl, pin, unpin, sweep_expired | the lock covers the table only: chunks are written, read and removed outside it; expiry is acted on by id after the lock is given up | a verified load is the KV of the request's prefix; what is published is complete; only expired caches are retired; nothing is left behind; pins hold |
| `types.py` | none | chunking, fingerprints, prefix match | short last chunks, out of range tokens | reuse is a common prefix, as long as whole chunks allow |
| `connectors/vllm.py` | pending loads and saves, metadata | match, allocate, build metadata, load, save | five calls of two sides with the cache changing between them | a request runs on the KV of its own prompt; what it saves is right |
| `connectors/transfer.py` | the paged buffer (DictKVTransfer) | load_into, save_from | short chunks | blocks keep their content |
| `connectors/sglang.py` | none | store, retrieve | several engine calls in a row, the cache changing between them; what is retrieved is stored again | the blocks counted as reused hold the KV of the request; what is stored is that of its tokens |
| `control.py` | the HTTP server and its thread | one or two engine calls per route, a reply | requests on threads, next to the inference threads; the reply is made from a second look at the cache | a reply was true at some moment of the request; every request ends |
| `payload.py` | none | pack, unpack | a blob that was cut short after its header reads as a shorter object | stores never show part of a blob |
| `cli.py`, `errors.py`, `__init__.py` | none | one request per command; exceptions | | |

Components interact by direct calls. The engine calls its store once per chunk; `TieredBackend`
sets `on_evict` of the hot tier to its own `_demote`, which runs under the hot tier's lock; the
connector calls the engine from the scheduler and from the worker, and other clients (the control
server's threads, ttl expiry inside any `get`) act on the same engine between those calls.

The hazards that follow from this are listed, each at its line and with the properties that cover
it, in `PROJECT.json`.

## 2. Modules

| module | models | state and actions |
|---|---|---|
| `StorageBackend` | the contract of `store/base.py` | `content`, `pinned`; `Put`, `Get`, `Remove`, `PinKey`, `UnpinKey`, and the same effects (`Stored`, `Refused`, `Removed`, ...) for use in other modules. `Contract` allows these effects in any order, for stores whose calls take several steps. Which objects a bounded store evicts, and when it refuses, is left open; a `Lossy` one may lose unpinned objects by itself |
| `KVPayload` | the framing of `payload.py` | operators: a blob is magic, header and data; unpacking one that was cut short |
| `DiskBackend` | `store/disk.py` | `dirs`, `files`, `tmps` (bytes written so far), the lock, `pinned`, a program counter per thread; one step per call to the file system. `Crash` keeps the files and loses the rest. `raced` and `spoiled` are history |
| `RedisBackend` | `store/remote.py` | `kv` and `expiring` by name, a program counter per client; one step per Redis command. `Expire` is Redis's clock, `BreakOff` the loss of a connection or process. Names are sequences of the parts between colons. `pledged`, `raced` and `due` are history |
| `CPUBackend` | `store/cpu.py` | `data`, `older` (the order of the `OrderedDict` as a relation), `pinned`, `used`; one action per method, since each runs under the lock. The eviction loop is stated by its result: a key is a victim iff evicting everything older than it is not enough |
| `CPUBackendProofs`, `DiskBackendProofs`, `RedisBackendProofs` | | theorems about these stores, section 5 |
| `TieredBackend` | `store/tiered.py` | a `CPUBackend` (`Hot`) and an unbounded `StorageBackend` (`Cold`), a program counter per thread, one step per call to a tier; demotion is part of the hot tier's put. `Restart` loses what is in memory. `HotFailed` is an eviction whose cold write fails |
| `TieredBackendProofs` | | theorems about `TieredBackend`, from those about its hot tier, section 5 |
| `ExplicitKVCache` | `engine.py` over a `StorageBackend` | the store, the descriptors built so far (they are shared by reference, so a thread may hold one that has left the table), the table, and for each thread the call it is in with its local variables. One step per critical section: a store call or an access to the table. `Expire` is the clock, `Vanish` the loss of unpinned chunks by a lossy store |
| `ExplicitKVCacheProofs` | | theorems about `ExplicitKVCache` with any threads, and with one that writes, section 5 |
| `ControlServer` | `control.py` over `ExplicitKVCache` | `http`: the request each handler thread serves. `Receive` begins a call of the engine, `Engine` goes on with it and turns its outcome into a status code, `Refetch` is the second look of pin, unpin and ttl, `Send` the reply |
| `SGLangExplicitCache` | `connectors/sglang.py` over `ExplicitKVCache` and `DictKVTransfer` | `job`: the request each thread works on; `buffer`: the blocks. `Retrieve`, `Lookup`, `Into`, `StoreKV` (any leading chunks of the request, under any id) are the adapter's calls, `InEngine` the engine's steps within them, `Forward` and `Finish` what SGLang does with the result |
| `ServingProcess` | a process with both | the interleaving of the two, the clock and the store, and the fairness under which requests end |
| `ServingProofs` | | theorems about `ServingProcess`, section 5 |
| `PrefixMatch` | `types.py` and `lookup`'s arithmetic | one request against one registered prompt, token by token, with encoding and overflow |
| `PrefixMatchProofs` | | theorems about `PrefixMatch`, section 5 |
| `DictKVTransfer` | `connectors/transfer.py` | operators on a buffer of blocks: `LoadInto`, `SaveFrom`, `Split` |
| `VLLMConnector` | `connectors/vllm.py` over the above | a small engine with atomic calls, the buffer, the connector's pending plans and metadata, and as much of vLLM (blocks, prefix cache, order of calls) as it sees: `Match`, `Lookup`, `Alloc`, `BuildMeta`, `StartLoad`, `Forward`, `PutChunk`, `Commit`, `Finish`. Beside it other clients of the engine: `BeginRegister`, `RegisterChunk`, `CommitRegister`, `Delete`, `Evict` |
| `VLLMConnectorProofs` | | theorems about `VLLMConnector`, section 5 |
| `MC...` | | instances for TLC |

`CPUBackend` implements `StorageBackend` call by call (checked and proved); `DiskBackend` and
`RedisBackend`, whose calls take several steps, implement its `Contract` (checked and proved): every change of
what they hold is one of its effects. `TieredBackend` is built from `CPUBackend` and the contract,
and `ExplicitKVCache` is written over `StorageBackend`, so it holds for any store that keeps the
contract. `VLLMConnector` treats one engine call as one step, `put_chunk` and `commit` of a save and
of a client's registration each its own: what can happen inside a call is the subject of
`ExplicitKVCache`. `ServingProcess` does not: its handlers and adapter threads take the
engine's own steps. `ExplicitKVCache` and `VLLMConnector` compare prompts chunk by chunk:
that the code's fingerprints amount to this is the subject of `PrefixMatch`.

Abstractions. Payloads are the KV they stand for: the KV of a chunk depends on all tokens before
it, so it is the prompt up to the end of the chunk. Fingerprints do not collide. The clock is one
bit per descriptor, "its expiry has passed", which can be set at any time once there is a ttl and
is cleared by `extend_ttl`. Hit counters, times of use, names, sizes of descriptors are left out.
In each module a definition with a suffix (`Victims_All`, `Publish_Early`, ...) is a deliberately
wrong variant of the one it stands before, used to see that a property can fail; no specification
uses it.

## 3. Runs

| run | configuration | question | bounds |
|---|---|---|---|
| `cpu` | `MCCPUBackend.cfg` | does the in-memory tier keep its count, budget, order, pins and the contract | 3 keys, objects of 1, 2 and 4 bytes, capacity 3: objects that fit side by side, that need one or several victims, and that never fit |
| `prefix_match` | `PrefixMatch.cfg` | is lookup's answer the longest common prefix, to a chunk | prompts to 4 tokens, chunk sizes 1 to 3, tokens of 2 digits and one that does not fit: short last chunks, divergence in every position |
| `tiered_sequential` | `TieredSequential.cfg` | one caller: is the right version visible, is nothing dropped | 2 keys, hot tier of 2 bytes, objects of 1 and 2: all of eviction, demotion, promotion, refusal |
| `tiered_concurrent` | `TieredConcurrent.cfg` | two callers, failing cold writes, a restart: do pinned puts stay in the cold tier | 2 threads, 2 keys, 1 object, hot tier of one object, 1 restart |
| `engine_one_writer` | `EngineOneWriter.cfg` | a writer (register, delete, pin, unpin) and a reader anywhere between its steps: is what is published complete and its own, and is nothing else left behind | 1 id, prompts of different lengths that disagree, 1 or 2 workers, 3 registrations, unbounded store |
| `engine_compatible` | `EngineCompatible.cfg` | two threads call everything, ttls run out or are no numbers, the store evicts, refuses and loses chunks: is a verified load still right | 1 id, prompts that extend one another, 2 registrations |
| `engine_retired` | `EngineRetired.cfg` | a disagreement with the documentation, section 4 | 2 threads, 1 registration with a ttl |
| `disk` | `Disk.cfg` | are the files a map from keys to whole objects, is nothing left behind, who gets FileNotFoundError, is the lock given back | 2 threads, one directory of 2 keys, 1 object in blobs of 3 parts, failing writes, 1 crash |
| `redis` | `Redis.cfg` | do acknowledged pins hold, does clear find what it should, do namespaces stay apart | 3 clients: one with `key_ttl` and one without in one namespace, a third in another; 2 cache ids, one of which goes on like the name of a chunk of the other |
| `serving` | `Serving.cfg` | do replies tell the truth, does the adapter retrieve and store the right KV, does every request end | a handler and an adapter thread, 2 ids, for the first chunk of a prompt and for both, 3 requests (both chunks, the first of them and another, no tokens), stored whole or in part under either id, 2 registrations, a store that evicts and refuses chunks |
| `vllm` | `VLLMConnector.cfg` | does each request run on, and save, the KV of its own prompt | 3 requests that save (two of them disagreeing prompts under one id, one a shorter prompt under the id of a client that registers a longer one), 2 blocks to a chunk, short last chunks, 3 blocks: two requests in a step and blocks used again by others; puts and commits that fail |
| `vllm_local_prefix` | `VLLMLocalPrefix.cfg` | a disagreement with the documentation, section 4 | the smallest that shows it |

Why the bounds are enough: every loop of the code is over chunks, workers, victims or expired ids,
and two elements distinguish first, last and middle-of-the-loop; every race found needs two threads
and one key; a third key in `cpu` gives the eviction order something to order. Symmetry is used
only on threads and keys (`tiered_concurrent`), threads (`engine_compatible`, where both call the
same methods) and blocks (`vllm`), of which no definition distinguishes one and no temporal formula
is checked there. `vllm` and `vllm_local_prefix` do not
check for deadlock: an error that leaves the connector stops the engine (`phase = "raised"`).

What the passing runs assume:

* `engine_one_writer` has no ttl: then only the writer deletes. With a ttl a reader that finds an
  expired descriptor deletes too, and can take away what the writer is just registering. Its store
  keeps what it is given: with one that evicts nothing is resident but what was there when it was
  pinned, and no more is claimed (section 4). `NothingOrphaned` leaves out the surplus of an earlier
  registration with more chunks or workers (section 4).
* `engine_compatible` is the strongest guarantee found for concurrent use: "an explicit hit can
  never serve stale/garbage KV" (`engine.py:10-11`) holds if all prompts registered under an id
  extend one another.
* `disk`: one process per root, and a crash of the process, not of the machine: what has been written
  and renamed is there afterwards. `put` does not fsync, so after a power cut a file can be empty or
  short, and `unpack_payload` accepts one whose data is missing.
* `redis`: no namespace is a prefix of another one part by part (`NamespacesApart`; see section 4);
  the scan of `clear` is one step; `PledgedStays` is about pins that no other client was taking back
  while they were made.
* `serving` has one prompt for each id, registered by the handler or stored by the adapter again and
  again; with others under one id the adapter's count can exceed what it loaded (section 4). The
  adapter's requests may differ from all of them, and what it stores is what an id stands for. `get`,
  `pin` and `unpin` take the path of `ttl` through the server and are left to the engine's runs; the
  adapter's own calls do everything `get` does.
* `LatestVisible` leaves out keys whose last put was refused (section 4).
* `vllm` has vLLM's own prefix cache off, no cache deleted between a match and the allocation that
  follows it (`"delete unmatched"`), and `Steady` (`MCVLLMConnector` assumes it, TLC evaluates it):
  under an id that other clients register there is one prompt, and what vLLM saves there begins with
  the same chunks. Each of the three is needed (section 4). So a first computed token that does not
  begin a chunk (`vllm.py:162`) occurs in `vllm_local_prefix` alone, and a cache gone at `vllm.py:161`
  in no passing run. `engine.load` is one step here: chunks that change between two of its reads
  are the subject of `HitNeverGarbage`. `SavedIsRight` allows what the save under way has put
  already, also when it was then refused: a refused save leaves chunks of both prompts for good.

Fairness. `ServingSpec` asks that a thread inside a request (`Serve`, `Work`) and `DiskBackend`'s
`Spec` that a thread inside a call (`Step`) keeps being scheduled, by weak fairness: Python threads
are preempted but not starved. In the engine no step of a call waits for anything but the engine's or
the store's lock, held for one step each, so weak fairness of the thread is enough. The lock of
`DiskBackend` is held over several steps; that a thread that waits for it gets it before others do is
not assumed, and not needed for `LockReleased`. Nobody has to call, and no ttl has to run out.

## 4. Where code and documentation disagree

Two runs exhibit a counterexample; `PROJECT.json` quotes the lines, also of the findings that no run
stands for.

* `vllm_local_prefix`: when vLLM already has the first blocks of a prompt, the connector reports the
  blocks after them as external but loads chunks into the first blocks; the reported ones are never
  written. With `save`, the garbage is then saved under a valid fingerprint.

* `engine_retired`: `_live_descriptor` and `sweep_expired` delete by id after the lock is given up. A
  thread that has found a cache expired takes it away although another has extended its ttl, or has
  registered it again, since (`engine.py:173-174`, `273-276`).

More come from the instances of section 3 with other constants:

* `TieredBackend.get` reads the cold copy, another thread puts a new object, and the promotion
  overwrites it with the old one, for good (`tiered.py:43-45`). `LatestVisible` fails for
  `MCTieredBackend` with two threads that put and get.
* register writes chunks while the old descriptor of the id is published, so a reader whose lookup
  succeeded loads KV of the new prompt (`engine.py:97-100`, `224-233`, against "an explicit hit can
  never serve stale/garbage KV"). `HitNeverGarbage` fails for `MCExplicitKVCache` with
  `PromptsOf <- Rebound`, `Thread <- Two` and `OpsOf <- RegisterAndReuse`.
* The plan that `update_state_after_alloc` makes is an id and a number of chunks. A client that
  registers another prompt under the id between `lookup` (`vllm.py:148`) and `start_load_kv`
  (`vllm.py:207`), through the control server (`control.py:151-173`) or the SGLang adapter
  (`sglang.py:46-55`), gets its KV loaded into the blocks of the request; a shorter prompt leaves
  some of them unwritten. `RunsOnItsOwnKV` fails for `MCVLLMConnector` with two prompts that disagree
  in `ClientPrompts` of the reader's id, without `Steady`.

Met with the same models while the properties were being stated:

* `StorageFullError` in the middle of a register leaves the old descriptor over a mixture of chunks
  (`engine.py:97-100`); no concurrency is needed.
* delete by id races with a register of the id and removes chunks of the cache just published
  (`engine.py:237-244`).
* Registering an id again with fewer chunks or workers leaves the surplus in the store for good.
* `pin` succeeds on a cache whose chunks have been evicted (`engine.py:251-256`), though pinning is to
  make caches "guaranteed-resident" (`README.md:24`): the descriptor then says pinned and `load`
  raises. A put over a pinned key that is refused leaves the pin without its object (`cpu.py:40-43`).
* A put that is refused in the middle of a save (`vllm.py:229`, `cpu.py:111`), or a commit that
  fails, leaves the old descriptor of the id over chunks of both prompts.
* `TieredBackend.pin` does not copy the object to the cold tier, unlike a put with `pin=True`
  (`tiered.py:56-58`, `35-37`); a get of a cold object fails when the hot tier has no room to
  promote it (`tiered.py:45`); a refused put can uncover an older version left in the cold tier;
  a cold write that fails in an eviction loses the victim (`cpu.py:107-110`).
* A cache deleted or expired between `get_num_new_matched_tokens` and `update_state_after_alloc`:
  no load is planned (`vllm.py:161`) though vLLM counts the external blocks as loaded.
* A short last chunk matches only a request that ends with it; a request that goes on does not
  reuse it (`types.py:91-100`).
* `SGLangExplicitCache.retrieve` returns the token count of `lookup` though `load` may have loaded
  fewer chunks, if the id has been registered again with a shorter prompt in between
  (`sglang.py:68-71`): `RetrievedIsRight` fails for `MCServingProcess` with the prompts `<<x>>` and
  `<<x, y>>`.
* The control server sends no reply at all when the cache is gone by the time pin, unpin or ttl look
  at it again (`control.py:149`), when a register is refused by the store, and when a value in the
  body has the wrong type (`StorageFullError` and `TypeError` are in no `except` clause). By then all
  chunks of a register with an invalid `ttl` are in the store, and no descriptor leads to them
  (`engine.py:100-102`).
* 410 can be answered for an id whose cache is live: the handler has read the expired descriptor, the
  id is registered again, and the delete by id that follows takes the new cache away
  (`engine.py:173-175`). `RepliesAreTrue` says what remains true of a 410.
* `ControlServer.stop()` on a server that was never started waits for ever: `shutdown` waits for a
  `serve_forever` loop to end (`control.py:196-197`).
* `DiskBackend`: `put` raises `FileNotFoundError` when a remove takes the directory away after its
  `mkdir` (`disk.py:35-38`), and `get` raises instead of returning `None` when a remove comes after
  its `exists` (`disk.py:46-48`). `NotFoundOnlyIfRaced` says that nothing else makes them. A pin made
  between `discard` and `unlink` of a remove stays on the absent key.
* `RedisBackend`: a namespace that contains a colon can share names with a shorter one (`a` with cache
  id `b:x`, `a:b` with `x`). Over a pinned key a put without pin takes the pin back
  (`remote.py:70-71`), unlike the other stores. As a cold tier this undoes pins: a demotion puts
  without pin (`tiered.py:30`), so a key that was only in the cold tier when `TieredBackend.pin`
  pinned it gets an expiry again once it has been promoted and evicted.

## 5. Proofs

The theorems hold for every value of the constants that the named assumptions of the modules admit:
any number of threads, keys, prompts, sizes, restarts, crashes and registrations. What the
assumptions say beyond the shape of a constant is that `None` is no object, key or blob
(`NoneAssumption`, `NoneIsNoBlob`, `NoneIsNoKey`, `NoneIsNoPayload`: Python's `None` is none), that
sizes and capacities are natural numbers (`NbytesAssumption`, `SizesAssumption`), that a prompt has a
chunk or a block, that KV is never `None` (`NoneIsNoKV`) and the blocks of a buffer are finitely many
(`BlocksAreFinite`), that no namespace is a prefix of another (`NamespacesApart`, section 4), that a
thread of the HTTP server is none of the inference threads (`SeparateAssumption`) and that a cache
may have one worker, as those the adapter stores do (`AdapterAssumption`). `PartsAssumption`
says that cache ids, workers and indices are made of the parts that names are split into.
`RegistrationsAssumption` and its like say that a bound is a natural number.

### CPUBackend

| theorem | statement |
|---|---|
| `TypeCorrect` | `Spec => []TypeOK`, with the order of use a strict total order of the keys held |
| `AccountingHolds` | `Spec => []Accounting`: `_used` is the number of bytes held |
| `WithinCapacityHolds` | `Spec => []WithinCapacity` |
| `PinnedKept` | `Spec => PinnedKeptUntilRemoved` |
| `LeastRecentlyUsedFirst` | `Spec => MostRecentlyUsedEvictedLast` |
| `OnlyForRoom` | `Spec => EvictsOnlyForRoom` |
| `OnlyPinsRefuse` | `Spec => RefusedWhenPinsLeaveNoRoom` |
| `Refinement` | `Spec => ImplementsStorageBackend` |

None of the first three is inductive by itself: that the budget holds after a put needs that
`used - Bytes(gone)` is what remains, which needs the count to be right; that needs the bytes held to
be finitely many, which no operation of the code ever states. `ContentInv` is the conjunction of the
types, the finiteness of the occupied byte slots, `Accounting` and `WithinCapacity`. Bytes are
counted as the cardinality of a set of slots `<<key, i>>`, so that "bytes of a union" is a fact about
cardinalities of disjoint sets and needs no recursive sum (lemmas on `Held`). Each effect (`Stored`,
`Refused`, `Touched`, ...) has one lemma that it preserves `TierInv`, which is `ContentInv` and the
order. The refinement follows step by step: victims are unpinned, so they are among the objects the
abstract store may evict, and without a capacity `Fits` always holds, so nothing is evicted and
nothing is refused.

The three theorems about eviction are about the loop of `_ensure_room`, which the model gives by its
outcome: an object goes if dropping those used before it leaves too little room. The last victim and
the first evictable object that stays are minima of finite sets, from the well-foundedness of the
proper subsets of a finite set; with every evictable object gone, what remains is pinned
(`Unevictable`, `FitsMore`), so a put is refused only if the pins leave no room.
`LeastRecentlyUsedFirst` needs to know which object was used last, `NewestInv`: the one the last call
stored or read is at the end of the order.

### TieredBackend

| theorem | statement |
|---|---|
| `TypeCorrect` | `Spec => []TypeOK` |
| `HotTierWithinBudget` | `Spec => []HotWithinBudget`: the hot tier's count is exact and within its capacity |
| `EvictedIsDemoted` | `~ColdFails`: `Spec => NeverDropped` |
| `LatestIsVisible` | `Sequential`: `Spec => []LatestVisible` |
| `PinnedPutsPersist` | `Spec => []PinnedPutPersisted`, cold writes may fail |

The first two instantiate the lemmas of `CPUBackendProofs` (`HotProofs`): every step does to the hot
tier one of the effects proved there. `EvictedIsDemoted` needs writes that succeed (section 4: one
that fails loses the victim). `LatestIsVisible` is about one thread, no failing write and no restart:
with two threads it is false (section 4). Its invariant, `VisibleInv`, says where the caller is
between its two tiers: after the first half of a remove the key may still show the cold copy, a get
that promotes carries what the key shows, and the hot tier does not hold the key it is about to fill.
`PinnedPutPersisted` is not inductive either: a thread about to write to the cold tier must carry an
object and the keys promised must be keys (`PersistInv`). The step that matters is a demotion, which
overwrites cold entries while other calls are under way: the hot tier's victims are objects it holds,
so a demotion never takes an entry away (`DemotionKeeps`), and this needs nothing about which victims
are chosen or how many are demoted before a write fails.

### DiskBackend and RedisBackend

| module | theorem | statement |
|---|---|---|
| `DiskBackendProofs` | `TypeCorrect` | `Spec => []TypeOK` |
| | `Tidy` | `Spec => []NothingLeftBehind` |
| | `RacedOnly` | `Spec => []NotFoundOnlyIfRaced` |
| | `Implements` | `Spec => ImplementsContract` |
| `RedisBackendProofs` | `PledgesHold` | `Spec => []PledgedStays` |
| | `ClearCompletes` | `Spec => []ClearIsComplete` |
| | `Implements` | `Spec => ImplementsContract` |

For the files the invariant is that a file or a temporary file is in a directory that exists, that
only the holder of the lock has a temporary file (others are left by failed or crashed puts, which
`spoiled` remembers), and that a file holds a whole blob, which is what `os.replace` is for. A call
whose directory has gone has been raced. For Redis, `PledgeInv`: a pledged name has no expiry and no
call under way takes its pin back, and a call about to pledge one knows if there is such a call. Names
are parsed back to keys by their parts (`ParseName`, `ParseOther`); that two keys of one namespace
never share a name, whatever the ids are made of, and two of different ones neither, follows from
`NamespacesApart` (`OneName`), and with it that the commands of a client are effects on its own
namespace and stutter for the others.

### ExplicitKVCache

| theorem | hypotheses | statement |
|---|---|---|
| `TypeCorrect` | | `Spec => []TypeOK` |
| `HitIsRight` | `Compatible` | `Spec => []HitNeverGarbage` |
| `CompleteHolds` | `OneWriter(w)`, `Calm` | `Spec => []PublishedComplete` |
| `ConsistentHolds` | and `AllBuild` | `Spec => []PublishedConsistent` |
| `NoOrphans` | and `AllBuild` | `Spec => []NothingOrphaned` |
| `SequentialHitIsRight` | `Thread = {w}`, `Calm`, `AllBuild`, `OneShardCount` | `Spec => []HitNeverGarbage` |

The hypotheses are what the code needs, and each is one of section 4's disagreements turned round:

* `Compatible`: prompts registered under one id extend one another. Then any number of threads, ttls,
  and a store that evicts, refuses and loses are allowed. Without it a reader between a put and the
  publication of a register loads the new prompt's KV.
* `OneWriter(w)`: `w` is the only thread, or the others only read and no cache has a ttl (a read of an
  expired cache deletes). Two writers, or a ttl, let a delete by id take away another registration.
* `Calm`: the store neither evicts, refuses nor loses; what these theorems say of residency is
  therefore only that the engine itself takes nothing away.
* `AllBuild`: no register has an invalid ttl, which raises after the chunks have been written over.
* `OneShardCount`: all registrations have one number of workers; otherwise the chunks that an older
  one left under further workers are loaded.

`HitIsRight` rests on `HitInv`: the store holds under `<<c, i, worker>>` nothing or the first `i` chunks
of a prompt of `c`, what a reuse has matched are chunks of such a prompt, and what it has still to
load follows what it has loaded. `Compatible` then makes a chunk of an id known by its index alone
(`ChunkUnique`), so that it does not matter which registration the chunk that is read came from.

The theorems with one writer share two invariants. `PlaceInv` says what the writer knows at each step
of its call: what it has fetched is what the table says, what it retires has expired, what it removes
is no longer published; the other threads only read. `Data` says what that makes of the store: the
chunks of each published cache are there (`Complete`), are those of its prompt unless the writer is
registering over them (`Consistent`), and there are no others except the ones being written or removed
and those that the last registration of their id does not reach (`Led`, `Beyond`); and that a register
has put what is no longer on its list (`Written`). For a single thread, `Matched` adds that between
its lookup and its load the published prompt begins with what has matched.

The types and `HitInv` are kept by every step of `Moving`, which is `Next` with calls of any method: so
that they hold too in a system whose threads call the engine for reasons of their own.

### ServingProcess

| theorem | hypotheses | statement |
|---|---|---|
| `RepliesTrue` | | `ServingSpec => []RepliesAreTrue` |
| `ServedHitIsRight` | `Compatible` | `ServingSpec => []HitNeverGarbage` |
| `RetrievedRight` | `OnePrompt`, `OwnBlocks` | `ServingSpec => []RetrievedIsRight` |
| `StoredRight` | `OnePrompt`, `OwnBlocks` | `ServingSpec => []StoredIsItsOwn` |

Any number of handlers and adapter threads, ids, caches and blocks. `Steps` says once what a step of
the engine makes of the call it belongs to, as its caller sees it: the call goes on (`GoesOn`), and
where it has come to tells what it has read, or it ends (`Ends`), and its outcome tells where it was.

`RepliesAreTrue` speaks of the whole time of a request. Its history `seen` has each descriptor that the
id has had since the request began, with all that it has been; a reply may only say what was so. It has
to be about descriptors rather than about the table: the descriptor a handler has read can be taken
out of the table before the handler checks it, and with a second handler it can be extended between the
check that found it expired and the 410. `ReplyInv` relates the request to the call it is in: the handler
has seen the descriptor its call holds and what that is now (`Looking`), and a call that is about to
retire, extend or pin one has come to it through a state that the handler has seen (`Found`). The
step of another thread, of the clock or of the store is an `Onlooker`'s: what has been seen stays seen.

The adapter takes the count of `lookup` for what `load` loads (section 4), which is right if an id stands
for one prompt: `OnePrompt`. Then a load has behind it or before it as many chunks as were matched
(`LoadsInv`), whenever and however often the id is deleted and registered again in between. `OwnBlocks`
is SGLang's part: each request has blocks of its own, and enough of them. `KVInv` follows the KV from
the payloads of a load into the first blocks (`LoadIntoFacts`), past the computation of the rest, to what
`save_from` makes of them (`SaveFromFacts`); no thread writes to another's blocks (`Others`). `JobInv` ties
the adapter's place in its call to the engine's.

### VLLMConnector

| theorem | hypotheses | statement |
|---|---|---|
| `TypeCorrect` | | `Spec => []TypeOK` |
| `RunsRight` | `Apart`, `Steady` | `Spec => []RunsOnItsOwnKV` |
| `SavedRight` | `Apart`, `Steady` | `Spec => []SavedIsRight` |

`Apart` says that vLLM has no prefix cache of its own and that nobody deletes a cache between a match
and the allocation that follows it, `Steady` that an id which other clients register stands for one
prompt, which what vLLM saves there begins; each of the three breaks `RunsOnItsOwnKV` (section 4), and
what runs on garbage is saved. Any number of requests may be in a step and of clients in a registration;
under an id that only vLLM writes the prompts of the requests may disagree; puts may be refused,
commits fail, chunks be evicted at any moment and caches deleted at any other.

The two properties are proved together (`KVInv`), since what is loaded was saved and what is saved may
have been loaded. `OwnInv`: without a shared prefix a block belongs to one request, at one place, so
that a load or a computation cannot reach the blocks of another. `LoadsInv` follows a request from the
count `get_num_new_matched_tokens` gave to the model's run: until it is allocated its cache exists and
still matches as many blocks (`StillMatched`), then its plan is made and, as long as the cache exists,
still right, and when the plan is done its external blocks hold their KV. A client's commit in between
changes none of this, because the chunks that matched are at the head of what it registers, and
of all that may be registered under the id (`AtHead`). The cache may be gone again by the time of the
load; that is an error then (`StartLoad`), never wrong KV. `RightInv` is about the store: under an id
that clients register all chunks are those of their prompt (`SharedInv`), the chunks a save has counted
as put are those of its own (`PutInv`), and together they make `SavedIsRight` inductive. `CallInv` types
the registrations under way. `PhaseInv` is why no save comes in
between: loads of a step come before its saves, and a step's plans are gone when it ends. The
arithmetic is in the first lemmas: block `j` is the `PlaceOf(j)`-th of chunk `ChunkOf(j)` and of no
other, also if the last chunk is short (`BlockInChunk`, `BlockOfChunk`), and the chunks that match
make equal blocks (`MatchedFacts`, `SameKV`); so that loading the first chunks of the cache fills the
first blocks of the request (`LoadIsRight`), and saving what they hold makes its chunks (`SaveIsRight`).

### PrefixMatch

| theorem | statement |
|---|---|
| `TypeCorrect` | `Spec => []TypeOK` |
| `ReuseShared` | `Spec => []ReuseIsShared` |
| `WholeReused` | `Spec => []WholeChunksReused` |
| `SameIsFull` | `Spec => []SamePromptIsFull` |

They need that tokens are integers, chunk sizes and the width positive, and the bound on the length of
a prompt a natural number. The state hardly matters (`Inv` says that an answer is what lookup computes
for a request whose compared chunks can be encoded); the work is in what the fingerprints tell. Two
tokens with the same digits are the same modulo `2 ^ Width` (`DigitsTell`, by induction over the
digits), and two in range with the same residue are the same token (`EncodingTells`), so that equal
fingerprints come from equal chunks (`FingerprintTells`), of the same length because a fingerprint has
`Width` digits for each token. `LeadingFacts` says what the loop of `matched_chunk_count` has found
when it stops: the first chunks are the same ones, and the next, if both prompts have one, is not.
`SameChunksSameTokens` turns chunks into tokens, also if the last chunk is short.

The provers know nothing of powers and cannot take an operator as a parameter, so two lemmas stand for
induction: `Induction` is about a set of numbers, and `Powers` obtains `2 ^ (n + 1) = 2 * 2 ^ n` from
the number of subsets of `1 .. n`.

### Only model-checked

Liveness under fairness (`LockReleased`, `EveryRequestEnds`) is out of the prover's reach. Every other
property that a passing run checks is stated by a theorem, under the hypotheses named there.

## 6. Not modelled, and why

* `TorchKVTransfer`: copies tensors with the block arithmetic of `DictKVTransfer`; no control of its
  own. The serializers of `payload.py` encode dtypes and shapes, without state. `cli.py`: one HTTP
  request per command. `errors.py` and `__init__.py`: exception classes and re-exports.
* `keys` of `DiskBackend` walks directories while others change them; the model's is one step. `clear` of
  `RedisBackend` passes the namespace into a glob pattern (`remote.py:96`): a namespace with the
  characters `*`, `?` or `[` in it would match other names too, and is not covered.
* HTTP itself: connections that are kept alive or lost, bodies that do not parse (a request that does
  not reach the engine is one step, `Reject`). Starting and stopping the server.
* Several worker processes: the descriptor table is in one process; the connector writes all shards
  under worker 0. Processes that share a Redis are modelled as far as the store goes.
* One root shared by several `DiskBackend` objects, and loss of power: the lock is per object, and
  nothing is synced.
* `TieredBackend` over the steps of `DiskBackend` or `RedisBackend`: its cold tier is a store whose
  calls are single steps and whose writes may fail.

## 7. Plan

Done: the contract, all stores, the engine, prefix matching, both connectors and the control server;
the proofs of section 5. Next: `TieredBackend` over the steps of the stores below it, and bounds on
what the failures of section 4 leave behind.
