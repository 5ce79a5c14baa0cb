---------------------------- MODULE RedisBackend ----------------------------
(***************************************************************************)
(* The remote cold tier, store/remote.py: one Redis that the processes of  *)
(* a fleet share, each with a namespace and perhaps a default expiry       *)
(* (key_ttl).  Redis carries out one command at a time, so a step is one   *)
(* command; a SET replaces a value as a whole.  A pinned key is a key      *)
(* without an expiry.  A call can break off between two commands: the      *)
(* process dies or the connection does.                                    *)
(*                                                                         *)
(* A name "namespace:cache_id:worker:chunk" is the sequence of its parts,  *)
(* the text between the colons; namespaces and cache ids may hold colons.  *)
(***************************************************************************)
EXTENDS Integers, Sequences

CONSTANTS Client, Obj, None,
          Part,          \* the texts between colons
          NamespaceOf,   \* of each client: a sequence of parts
          HasTTL,        \* the clients that were given a key_ttl
          CacheId,       \* cache ids: sequences of parts, at least one
          Worker, Index, \* worker ids and chunk indices: single parts
          OpsOf,         \* the methods each client calls
          PinChoices     \* the values of the argument pin

Ext == INSTANCE SequencesExt

Namespace == {NamespaceOf[c] : c \in Client}

\* No namespace begins another one: else two namespaces share names ("a" with cache id
\* "b:x" and "a:b" with "x"), and clear in one takes keys of the other.
ASSUME NamespacesApart ==
    \A m, n \in Namespace : m # n => ~Ext!IsPrefix(m, n)
ASSUME RedisOpsAssumption ==
    OpsOf \in [Client -> SUBSET {"put", "get", "remove", "pin", "unpin", "clear"}]
ASSUME HasTTLAssumption == HasTTL \subseteq Client
ASSUME PartsAssumption == /\ NamespaceOf \in [Client -> Seq(Part)]
                          /\ CacheId \subseteq Seq(Part) \ {<<>>}
                          /\ Worker \union Index \subseteq Part
ASSUME RedisChoicesAssumption == PinChoices \subseteq BOOLEAN /\ None \notin Obj

\* ChunkKey.
Key == [cid : CacheId, worker : Worker, index : Index]

ASSUME NoneIsNoKey == None \notin Key

\* Mutant: the namespace is left out.
Name_Bare(ns, k) == k.cid \o <<k.worker, k.index>>

Name(ns, k) == ns \o k.cid \o <<k.worker, k.index>>

\* Mutant: the cache id is cut at its first colon.
Parse_FirstColon(ns, name) ==
    LET rest == SubSeq(name, Len(ns) + 1, Len(name))
    IN  IF Ext!IsPrefix(ns, name) /\ Len(rest) > 2
        THEN [cid |-> SubSeq(rest, 1, 1), worker |-> rest[2], index |-> rest[3]]
        ELSE None

\* _parse: what is behind the namespace, split at its last two colons.
Parse(ns, name) ==
    LET rest == SubSeq(name, Len(ns) + 1, Len(name))
        n == Len(rest)
    IN  IF Ext!IsPrefix(ns, name) /\ n > 2
        THEN [cid |-> SubSeq(rest, 1, n - 2), worker |-> rest[n - 1], index |-> rest[n]]
        ELSE None

Names == {Name(ns, k) : ns \in Namespace, k \in Key}

VARIABLES kv,         \* the object under each name, or None
          expiring,   \* the names with an expiry
          proc,       \* the call each client is in
          pledged     \* history: names pinned by a call that has returned, and since then
                      \* not unpinned, removed, cleared or put without pin by anyone

vars == <<kv, expiring, proc, pledged>>

Idle == [at |-> "idle", op |-> "none", name |-> None, obj |-> None, pin |-> FALSE,
         rest |-> {}, due |-> {}, raced |-> FALSE]

Init == /\ kv = [n \in Names |-> None]
        /\ expiring = {}
        /\ proc = [c \in Client |-> Idle]
        /\ pledged = {}

At(c, label) == proc[c].at = label
Return(c) == proc' = [proc EXCEPT ![c] = Idle]

\* The names whose pin a call takes back: it replaces, removes or unpins them.
Retracts(c, call) ==
    IF call.op = "clear" THEN {Name(NamespaceOf[c], k) : k \in Key}
    ELSE IF call.op \in {"remove", "unpin"} \/ (call.op = "put" /\ ~call.pin) THEN {call.name}
    ELSE {}

\* A method is called; raced notes whether a call that takes pins of the name back has
\* been under way at the same time.
Begin(c, call) ==
    /\ proc' = [d \in Client |->
                  IF d = c
                  THEN [call EXCEPT !.raced =
                          \E e \in Client \ {c} : call.name \in Retracts(e, proc[e])]
                  ELSE [proc[d] EXCEPT !.raced = @ \/ proc[d].name \in Retracts(c, call)]]
    /\ pledged' = pledged \ Retracts(c, call)

Call(c) ==
    /\ At(c, "idle")
    /\ \/ \E k \in Key, o \in Obj, p \in PinChoices :
            /\ "put" \in OpsOf[c]
            /\ Begin(c, [Idle EXCEPT !.at = "set", !.op = "put", !.name = Name(NamespaceOf[c], k),
                                     !.obj = o, !.pin = p])
       \/ \E k \in Key, op \in OpsOf[c] \ {"put", "clear"} :
            Begin(c, [Idle EXCEPT !.at = op, !.op = op, !.name = Name(NamespaceOf[c], k)])
       \/ "clear" \in OpsOf[c] /\ Begin(c, [Idle EXCEPT !.at = "scan", !.op = "clear"])
    /\ UNCHANGED <<kv, expiring>>

\* A call that pins a key has returned.
Pledge(c) == pledged' = IF kv[proc[c].name] # None /\ ~proc[c].raced
                        THEN pledged \union {proc[c].name} ELSE pledged

(***************************************************************************)
(* put: SET, with the expiry unless it is to be pinned; then PERSIST.      *)
(***************************************************************************)
\* Mutant: every value is set with the expiry, and PERSIST takes it off again.
PutSet_AlwaysExpiring(c) ==
    LET n == proc[c].name
    IN  /\ At(c, "set")
        /\ kv' = [kv EXCEPT ![n] = proc[c].obj]
        /\ expiring' = IF c \in HasTTL THEN expiring \union {n} ELSE expiring \ {n}
        /\ proc' = [d \in Client |->
                      IF d # c THEN [proc[d] EXCEPT !.due = @ \ {n}]
                      ELSE IF proc[c].pin THEN [proc[c] EXCEPT !.at = "persist"] ELSE Idle]
        /\ UNCHANGED pledged

PutSet(c) ==
    LET n == proc[c].name
    IN  /\ At(c, "set")
        /\ kv' = [kv EXCEPT ![n] = proc[c].obj]
        /\ expiring' = IF c \in HasTTL /\ ~proc[c].pin THEN expiring \union {n} ELSE expiring \ {n}
        /\ proc' = [d \in Client |->
                      IF d # c THEN [proc[d] EXCEPT !.due = @ \ {n}]
                      ELSE IF proc[c].pin THEN [proc[c] EXCEPT !.at = "persist"] ELSE Idle]
        /\ UNCHANGED pledged

PutPersist(c) ==
    /\ At(c, "persist")
    /\ expiring' = expiring \ {proc[c].name}
    /\ Pledge(c)
    /\ Return(c)
    /\ UNCHANGED kv

(***************************************************************************)
(* The other methods: one command each.                                    *)
(***************************************************************************)
Get(c) == /\ At(c, "get")
          /\ Return(c)
          /\ UNCHANGED <<kv, expiring, pledged>>

Delete(n) == /\ kv' = [kv EXCEPT ![n] = None]
             /\ expiring' = expiring \ {n}

Remove(c) == /\ At(c, "remove")
             /\ Delete(proc[c].name)
             /\ Return(c)
             /\ UNCHANGED pledged

PinKey(c) == /\ At(c, "pin")
             /\ expiring' = expiring \ {proc[c].name}
             /\ Pledge(c)
             /\ Return(c)
             /\ UNCHANGED kv

UnpinKey(c) ==
    LET n == proc[c].name
    IN  /\ At(c, "unpin")
        /\ expiring' = IF c \in HasTTL /\ kv[n] # None THEN expiring \union {n} ELSE expiring
        /\ Return(c)
        /\ UNCHANGED <<kv, pledged>>

(***************************************************************************)
(* clear: the names of the namespace are scanned and parsed; the keys are  *)
(* removed one by one.  due are the keys that are there to be cleared.     *)
(***************************************************************************)
Scan(c) ==
    LET ns == NamespaceOf[c]
    IN  /\ At(c, "scan")
        /\ proc' = [proc EXCEPT
                      ![c].at = "next",
                      ![c].rest = {Parse(ns, n) : n \in {m \in Names : kv[m] # None}} \ {None},
                      ![c].due = {n \in {Name(ns, k) : k \in Key} : kv[n] # None}]
        /\ UNCHANGED <<kv, expiring, pledged>>

ClearNext(c) ==
    /\ At(c, "next")
    /\ \/ /\ proc[c].rest = {}
          /\ Return(c)
          /\ UNCHANGED <<kv, expiring>>
       \/ \E k \in proc[c].rest :
            LET n == Name(NamespaceOf[c], k)
            IN  /\ IF n \in Names THEN Delete(n) ELSE UNCHANGED <<kv, expiring>>
                /\ proc' = [proc EXCEPT ![c].rest = @ \ {k}]
    /\ UNCHANGED pledged

\* The connection or the process is lost in the middle of a call.
BreakOff(c) == /\ ~At(c, "idle")
               /\ Return(c)
               /\ UNCHANGED <<kv, expiring, pledged>>

\* Redis drops a key whose expiry is reached.
Expire == \E n \in expiring : Delete(n) /\ UNCHANGED <<proc, pledged>>

Next == Expire \/ \E c \in Client : \/ Call(c) \/ BreakOff(c)
                                    \/ PutSet(c) \/ PutPersist(c) \/ Get(c) \/ Remove(c)
                                    \/ PinKey(c) \/ UnpinKey(c) \/ Scan(c) \/ ClearNext(c)

Spec == Init /\ [][Next]_vars

-----------------------------------------------------------------------------
(***************************************************************************)
(* Properties.                                                             *)
(***************************************************************************)

\* "Pinned keys are made persistent (no expiry)" (remote.py:36-37): once a put with
\* pin=True or a pin has returned, the key is there, and no expiry runs, until a client
\* of the fleet unpins, removes, clears or replaces it; whatever breaks off or expires.
PledgedStays == \A n \in pledged : kv[n] # None /\ n \notin expiring

\* When clear returns, every key of the namespace that it found is gone, unless somebody
\* has put it again: no name is missed or taken for another (remote.py:55-65, 94-100).
ClearIsComplete ==
    \A c \in Client : At(c, "next") /\ proc[c].rest = {} =>
        \A n \in proc[c].due : kv[n] = None

\* Every namespace is a store of its own that keeps the contract of StorageBackend, with
\* the keys that have no expiry for its pins; a call in one changes no key of another.
Held == [nk \in Namespace \X Key |-> kv[Name(nk[1], nk[2])]]
Kept == {nk \in Namespace \X Key :
            LET n == Name(nk[1], nk[2]) IN kv[n] # None /\ n \notin expiring}

Abstract == INSTANCE StorageBackend
    WITH Key <- Namespace \X Key, content <- Held, pinned <- Kept,
         last <- None, Bounded <- FALSE, Lossy <- TRUE

ImplementsContract == Abstract!Contract
=============================================================================
