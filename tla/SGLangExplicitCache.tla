------------------------ MODULE SGLangExplicitCache ------------------------
(***************************************************************************)
(* The SGLang adapter, connectors/sglang.py: threads that retrieve the KV  *)
(* of a request from a cache into their blocks and store it under an id,   *)
(* through several calls of the engine each.                               *)
(*                                                                         *)
(* External: SGLang itself, which gives a request fresh blocks, computes   *)
(* the KV of the chunks that were not retrieved, and may store the result. *)
(* A block is as long as a chunk.                                          *)
(***************************************************************************)
EXTENDS ExplicitKVCache

CONSTANTS Adapter,    \* the threads that call the adapter
          Block,
          BlocksOf    \* block_ids: the blocks of each thread's requests

\* The adapter reads and writes the chunks of one worker.
ASSUME AdapterAssumption == /\ Adapter \subseteq Thread /\ BlocksOf \in [Adapter -> Seq(Block)]
                           /\ 1 \in ShardCounts

VARIABLES job,      \* the request each thread works on
          buffer    \* the KV in each block, or None

Transfer == INSTANCE DictKVTransfer WITH BlocksPerChunk <- 1

NoJob == [at |-> "idle", cid |-> None, prompt |-> <<>>, reused |-> 0, payloads |-> <<>>]

SGLangInit == job = [t \in Adapter |-> NoJob] /\ buffer = [b \in Block |-> None]

engineVars == <<content, kept, descs, table, proc>>
JobGoto(t, label) == job' = [job EXCEPT ![t].at = label]
Cleared(t) == [b \in Block |-> IF b \in {BlocksOf[t][i] : i \in DOMAIN BlocksOf[t]}
                               THEN None ELSE buffer[b]]
Done(t) == job' = [job EXCEPT ![t] = NoJob] /\ buffer' = Cleared(t)

\* retrieve: exists first.
Retrieve(t) ==
    /\ job[t].at = "idle"
    /\ \E c \in CacheId, p \in Request :
         /\ Begin(t, "get", c)
         /\ job' = [job EXCEPT ![t] = [NoJob EXCEPT !.at = "exists", !.cid = c, !.prompt = p]]
    /\ UNCHANGED buffer

\* Mutant: lookup is not given the request's tokens.
Lookup_Trusting(t) ==
    /\ job[t].at = "lookup"
    /\ BeginReuse(t, job[t].cid, None, 1)
    /\ JobGoto(t, "load")
    /\ UNCHANGED <<content, kept, descs, table, buffer>>

\* lookup, then load of as many chunks, both calls of the engine.
Lookup(t) ==
    /\ job[t].at = "lookup"
    /\ BeginReuse(t, job[t].cid, job[t].prompt, 1)
    /\ JobGoto(t, "load")
    /\ UNCHANGED <<content, kept, descs, table, buffer>>

\* Mutant: a chunk that is missing is passed over.
Ended_Passed(t) ==
    IF job[t].at = "exists" THEN JobGoto(t, IF Outcome(t) = "returned" THEN "lookup" ELSE "forward")
    ELSE IF job[t].at = "load" /\ Outcome(t) \in {"returned", "CacheMismatchError"}
    THEN job' = [job EXCEPT ![t].at = "into", ![t].payloads = proc[t].out, ![t].reused = proc[t].count]
    ELSE job' = [job EXCEPT ![t] = NoJob]

\* A call of the engine has ended.  exists turns errors into False; the others leave the
\* adapter.  The count that retrieve returns is the one of lookup.
Ended(t) ==
    IF job[t].at = "exists" THEN JobGoto(t, IF Outcome(t) = "returned" THEN "lookup" ELSE "forward")
    ELSE IF job[t].at = "load" /\ Outcome(t) = "returned"
    THEN job' = [job EXCEPT ![t].at = "into", ![t].payloads = proc[t].out, ![t].reused = proc[t].count]
    ELSE job' = [job EXCEPT ![t] = NoJob]

InEngine(t) ==
    /\ job[t].at \in {"exists", "load", "store"}
    /\ Step(t)
    /\ IF proc'[t].at # "idle"
       THEN UNCHANGED <<job, buffer>>
       ELSE /\ Ended(t)
            /\ buffer' = IF job'[t].at = "idle" THEN Cleared(t) ELSE buffer

Into(t) ==
    /\ job[t].at = "into"
    /\ buffer' = Transfer!LoadInto(buffer, BlocksOf[t],
                                   [i \in DOMAIN job[t].payloads |-> <<job[t].payloads[i]>>])
    /\ job' = [job EXCEPT ![t].at = "forward", ![t].payloads = <<>>]
    /\ UNCHANGED engineVars

\* The rest of the prompt is computed; a request without tokens has none to compute.
Forward(t) ==
    /\ job[t].at = "forward"
    /\ \/ job[t].prompt = None /\ Done(t)
       \/ /\ job[t].prompt # None
          /\ buffer' = [b \in Block |->
                          LET mine == {i \in DOMAIN job[t].prompt : i > job[t].reused /\ BlocksOf[t][i] = b}
                          IN  IF mine = {} THEN buffer[b]
                              ELSE Payload(job[t].prompt, CHOOSE i \in mine : TRUE)]
          /\ JobGoto(t, "computed")
    /\ UNCHANGED engineVars

\* store: save_from, then put_chunk for each chunk and commit, which is what register does
\* with the payloads of one worker; StoredIsItsOwn says that they are what PutChunk writes.
\* The id is any id, and the tokens are any leading chunks of the request's.
StoreKV(t) ==
    /\ job[t].at = "computed"
    /\ \E c \in CacheId, n \in DOMAIN job[t].prompt :
         /\ BeginRegister(t, c)
         /\ proc'[t].prompt = Payload(job[t].prompt, n) /\ proc'[t].shards = 1
    /\ JobGoto(t, "store")
    /\ UNCHANGED <<content, kept, descs, table, buffer>>

Finish(t) == job[t].at = "computed" /\ Done(t) /\ UNCHANGED engineVars

Work(t) == Lookup(t) \/ InEngine(t) \/ Into(t) \/ Forward(t) \/ StoreKV(t) \/ Finish(t)

SGLangNext == \E t \in Adapter : Retrieve(t) \/ Work(t)

-----------------------------------------------------------------------------
\* retrieve returns "the reused token count" (sglang.py:63): the blocks of that many
\* leading chunks hold the KV of the request's own prompt.
RetrievedIsRight ==
    \A t \in Adapter : job[t].at = "forward" /\ job[t].prompt # None =>
        \A i \in 1 .. job[t].reused : buffer[BlocksOf[t][i]] = Payload(job[t].prompt, i)

\* What store saves under an id, reused under that or another id or computed, is the KV of
\* the tokens whose fingerprints it commits (sglang.py:44-55).
StoredIsItsOwn ==
    \A t \in Adapter : job[t].at = "store" =>
        LET p == proc[t].prompt
        IN  Transfer!SaveFrom(buffer, BlocksOf[t], Len(p)) = [i \in DOMAIN p |-> <<Payload(p, i)>>]
=============================================================================
