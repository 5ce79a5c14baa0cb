------------------------- MODULE MCExplicitKVCache -------------------------
(***************************************************************************)
(* Instances of ExplicitKVCache for TLC.  The configurations choose which  *)
(* threads there are, what each of them calls and which prompts may be     *)
(* registered under one id.                                                *)
(***************************************************************************)
EXTENDS ExplicitKVCache, TLC

CONSTANTS h1,              \* a cache id
          x, y, z,         \* chunk contents
          writer, reader   \* threads

OneId == {h1}
MCChunk == {x, y, z}

\* One prompt and a longer one that begins with it: nothing registered under the id
\* ever contradicts what was registered before.
Growing == [c \in CacheId |-> {<<x>>, <<x, y>>}]
\* Prompts of one length that disagree.
Rebound == [c \in CacheId |-> {<<x, y>>, <<x, z>>, <<y, y>>}]
\* Prompts of two lengths that disagree.
ReboundResized == [c \in CacheId |-> {<<x, y>>, <<z>>}]

\* Requests that match all of a prompt, its first chunk only, and none of it.
MCRequest == {<<x, y>>, <<x, z>>, <<z>>}

Both == BOOLEAN
NoPin == {FALSE}
NoTTL == {"none"}
SomeTTL == {"some"}
AnyTTL == {"some", "invalid"}

Two == {writer, reader}
OneShard == {1}
OneOrTwoShards == {1, 2}

Calls(ops) == [t \in Thread |-> ops]
AllByEach == Calls(Operation)
\* Sound where each thread calls the same methods.
AnyThread == Permutations(Thread)
WriterAndReader == [t \in Thread |-> IF t = writer THEN {"register", "delete", "pin", "unpin"}
                                                   ELSE {"get", "reuse", "load"}]
RegisterAndReuse == Calls({"register", "reuse"})
ExtendAndGet == Calls({"register", "extend_ttl", "get", "sweep"})
=============================================================================
