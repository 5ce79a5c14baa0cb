-------------------------- MODULE MCServingProcess --------------------------
(***************************************************************************)
(* Instance of ServingProcess for TLC: a handler and a thread of the       *)
(* adapter, on two ids, with at most two registrations.                    *)
(***************************************************************************)
EXTENDS ServingProcess

CONSTANTS h1, h2, x, y, z, handler, adapter, b1, b2

MCThread == {handler, adapter}
MCHandler == {handler}
MCAdapter == {adapter}
MCCacheId == {h1, h2}
MCChunk == {x, y, z}
\* One prompt for each id, and one begins the other: what is reused under h1 can be stored
\* under h2 with a chunk that was computed, and what is reused under h2 under h1.
MCPrompts == [c \in CacheId |-> IF c = h1 THEN {<<x>>} ELSE {<<x, y>>}]
\* A request for all of the longer prompt, one that shares its first chunk, one without
\* tokens.
MCRequest == {<<x, y>>, <<x, z>>, None}
\* get, pin and unpin take the path of extend_ttl through the server.
MCOps == [t \in Thread |-> IF t = handler THEN Operation \ {"get", "reuse", "load", "pin", "unpin"} ELSE {}]
MCShards == {1}
MCPins == {FALSE}
MCTTL == {"some"}
MCBlock == {b1, b2}
MCBlocksOf == [t \in Adapter |-> <<b1, b2>>]
=============================================================================
