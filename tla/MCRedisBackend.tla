--------------------------- MODULE MCRedisBackend ---------------------------
(***************************************************************************)
(* Instance of RedisBackend for TLC: two processes of one namespace, one   *)
(* with and one without key_ttl, and one of another namespace.  One cache  *)
(* id begins like the other and goes on like a name.                       *)
(***************************************************************************)
EXTENDS RedisBackend

CONSTANTS c1, c2, c3, o1

MCPart == {"a", "b", "x", "0"}
MCClient == {c1, c2, c3}
MCNamespaceOf == [c \in Client |-> IF c = c3 THEN <<"b">> ELSE <<"a">>]
MCOpsOf == [c \in Client |-> IF c = c3 THEN {"put", "clear"}
                             ELSE {"put", "get", "remove", "pin", "unpin", "clear"}]
MCHasTTL == {c1, c3}
MCCacheId == {<<"x">>, <<"x", "0", "0">>}
MCWorker == {"0"}
MCIndex == {"0"}
MCObj == {o1}
Both == BOOLEAN
=============================================================================
