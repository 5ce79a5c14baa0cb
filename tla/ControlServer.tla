--------------------------- MODULE ControlServer ---------------------------
(***************************************************************************)
(* The HTTP control plane, control.py, over the engine of the process it   *)
(* runs in: one thread per connection, each request one or two calls of    *)
(* the engine and a reply made from how they end.  An exception that no    *)
(* handler catches closes the connection without a reply ("dropped").      *)
(*                                                                         *)
(* The routes are named for the engine's methods: GET of a cache is "get", *)
(* of the list and of the stats "sweep" (engine.list), POST .../ttl is     *)
(* "extend_ttl".  start_background and stop begin and end the accept loop; *)
(* the handlers are daemon threads that go on with what they have, so a    *)
(* stopped server is one that gets no more requests.                       *)
(***************************************************************************)
EXTENDS ExplicitKVCache

CONSTANT Handler   \* the threads of ThreadingHTTPServer

ASSUME HandlerAssumption ==
    /\ Handler \subseteq Thread
    /\ \A t \in Handler : OpsOf[t] \subseteq Operation \ {"reuse", "load"}

VARIABLE http   \* the request each handler serves

Free == [at |-> "idle", op |-> "none", cid |-> None, code |-> "none", seen |-> {}]

HTTPInit == http = [t \in Handler |-> Free]

Status(ds, d) == IF d = 0 THEN "absent" ELSE IF ds[d].expired THEN "expired" ELSE "live"

\* History: until the reply is made, seen collects the descriptors that the id has had since
\* the request began, 0 for none, and what each of them has been.
Watch(requests) ==
    http' = [t \in Handler |->
               IF requests[t].cid = None \/ http[t].at = "send" THEN requests[t]
               ELSE LET had == {s[1] : s \in requests[t].seen} \union {table'[requests[t].cid]}
                    IN  [requests[t] EXCEPT !.seen = @ \union {<<d, Status(descs', d)>> : d \in had}]]

\* A request that names one of the routes.
Receive(t) ==
    /\ http[t].at = "idle"
    /\ \E op \in OpsOf[t], c \in CacheId :
         /\ Begin(t, op, c)
         /\ Watch([http EXCEPT ![t] = [Free EXCEPT !.at = "call", !.op = op,
                                               !.cid = IF op = "sweep" THEN None ELSE c]])

\* A request that does not reach the engine's table: /healthz, no such route, a body that
\* lacks a field or a payload, or (TypeError, caught nowhere) holds a value of a wrong type.
Reject(t) ==
    /\ http[t].at = "idle"
    /\ \E code \in {"200", "404", "400", "dropped"} :
         http' = [http EXCEPT ![t] = [Free EXCEPT !.at = "send", !.code = code]]
    /\ UNCHANGED <<content, kept, descs, table, proc>>

\* Mutant: a register that the engine refuses is reported as done.
Answer_Accepted(op, outcome) ==
    IF outcome = "CacheNotFoundError" THEN "404"
    ELSE IF outcome = "CacheExpiredError" THEN "410"
    ELSE IF op = "register" THEN "201" ELSE "200"

\* The except clauses of the handlers; StorageFullError and TypeError are in none.
Answer(op, outcome) ==
    IF outcome = "CacheNotFoundError" THEN "404"
    ELSE IF outcome = "CacheExpiredError" THEN "410"
    ELSE IF outcome \in {"StorageFullError", "TypeError"} THEN "dropped"
    ELSE IF op = "register" THEN "201" ELSE "200"

\* What _build_descriptor raises ("TypeError") may also be a ValueError, for a token that is
\* no number, and that _register does catch.
Answers(op, outcome) == {Answer(op, outcome)} \union {code \in {"400"} : outcome = "TypeError"}

Mutates(op) == op \in {"pin", "unpin", "extend_ttl"}

\* The engine's part of the request goes on.  When pin, unpin or extend_ttl has returned
\* the descriptor is fetched again for the reply, outside the try block.
Engine(t) ==
    LET h == http[t]
    IN  /\ h.at \in {"call", "again"}
        /\ Step(t)
        /\ \E code \in Answers(h.op, Outcome(t)) :
             Watch([http EXCEPT ![t] =
                      IF proc'[t].at # "idle" THEN h
                      ELSE IF h.at = "call" /\ Mutates(h.op) /\ code = "200"
                           THEN [h EXCEPT !.at = "refetch"]
                      ELSE [h EXCEPT !.at = "send",
                                     !.code = IF h.at = "again" /\ code # "200" THEN "dropped" ELSE code]])

Refetch(t) ==
    /\ http[t].at = "refetch"
    /\ Begin(t, "get", http[t].cid)
    /\ Watch([http EXCEPT ![t].at = "again"])

Send(t) ==
    /\ http[t].at = "send"
    /\ http' = [http EXCEPT ![t] = Free]
    /\ UNCHANGED <<content, kept, descs, table, proc>>

Serve(t) == Engine(t) \/ Refetch(t) \/ Send(t)

HTTPNext == \E t \in Handler : Receive(t) \/ Reject(t) \/ Serve(t)

-----------------------------------------------------------------------------
\* What a reply says of the cache was so at some moment of the request: 404 when there
\* was none, 200 or 201 with a description when a descriptor that the id had was live, 200
\* for DELETE when it was gone; 410 when the ttl of a descriptor the id had has run out (it
\* may be the one before the last: section 4 of the README).  A connection is dropped
\* without a reply only when a register fails in the engine, or when a cache that has been
\* pinned, unpinned or extended in this very request has expired or gone before the reply
\* (control.py:149).
Was(h, status) == \E s \in h.seen : s[2] = status

RepliesAreTrue ==
    \A t \in Handler : http[t].at = "send" /\ http[t].cid # None =>
        LET h == http[t]
        IN  /\ h.code = "404" => Was(h, "absent")
            /\ h.code = "410" => Was(h, "expired")
            /\ h.code \in {"200", "201"} => Was(h, IF h.op = "delete" THEN "absent" ELSE "live")
            /\ h.code = "dropped" =>
                 \/ h.op = "register"
                 \/ Mutates(h.op) /\ Was(h, "live") /\ (Was(h, "absent") \/ Was(h, "expired"))
=============================================================================
