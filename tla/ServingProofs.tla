---------------------------- MODULE ServingProofs ----------------------------
(***************************************************************************)
(* Proofs about ServingProcess: the replies of the control server, for any *)
(* number of handlers and inference threads on one engine, and the KV that *)
(* the SGLang adapter retrieves and stores.                                *)
(***************************************************************************)
EXTENDS ServingProcess, ExplicitKVCacheProofs

-----------------------------------------------------------------------------
(***************************************************************************)
(* What a step of a call makes of the call, as its caller sees it.         *)
(***************************************************************************)

\* The chunks a lookup has matched, as far as the descriptor goes by the time of the load,
\* are loaded one by one.
Loads(call, next) ==
    LET d == descs[call.desc]
    IN  /\ next.count = call.count
        /\ \/ call.at = "load" /\ Len(next.out) + Len(next.todo) = Len(call.out) + Len(call.todo)
           \/ /\ call.at = "check" /\ call.count # -1 /\ next.out = call.out
              /\ Len(next.todo) = IF call.count > Len(d.prompt) THEN Len(d.prompt) ELSE call.count

\* The call goes on: what has changed tells what was read.
GoesOn(call, next) ==
    /\ next.at # "idle" /\ next.op = call.op /\ next.prompt = call.prompt
    /\ call.op # "sweep" => next.cid = call.cid
    /\ next.desc # call.desc => next.desc = table[call.cid]
    /\ next.at = "pop" /\ call.op # "sweep" => call.at = "check" /\ descs[call.desc].expired
    /\ next.at = "remove" => /\ call.at \in {"pop", "remove"}
                             /\ call.at = "pop" => table'[call.cid] = 0
    /\ next.at \in {"extend", "pin"} => \/ call.at = next.at
                                        \/ call.at = "check" /\ ~descs[call.desc].expired
    /\ next.at = "load" /\ next.op = "reuse" => Loads(call, next)

\* The call ends: the outcome tells where it was.
Ends(call, outcome) ==
    /\ outcome = "CacheNotFoundError" => call.op # "sweep" /\ table[call.cid] = 0
    /\ outcome = "CacheExpiredError" => call.at \in {"pop", "remove"} /\ call.op \notin {"delete", "sweep"}
    /\ outcome \in {"StorageFullError", "TypeError"} => call.op = "register"
    /\ outcome = "CacheMismatchError" => call.op \in {"reuse", "load"}
    /\ outcome = "returned" =>
         /\ call.op = "register" => table'[call.cid] # 0 /\ ~descs'[table'[call.cid]].expired
         /\ call.op = "get" => call.at = "check" /\ ~descs[call.desc].expired
         /\ call.op = "extend_ttl" => call.at = "extend"
         /\ call.op \in {"pin", "unpin"} => call.at = "pin"
         /\ call.op = "delete" => call.at = "remove" \/ table[call.cid] = 0
         /\ call.op \in {"reuse", "load"} => call.at = "load" /\ call.todo = <<>>

Outcomes == {"CacheNotFoundError", "CacheExpiredError", "StorageFullError", "TypeError",
             "CacheMismatchError", "returned"}

LEMMA OutcomeType ==
  ASSUME NEW t PROVE Outcome(t) \in Outcomes
BY DEF Outcome, Outcomes

\* Every step of a call moves its thread alone, on or to the end of the call.
LEMMA Steps ==
  ASSUME TypeInv, NEW t \in Thread, Step(t), NEW call, call = proc[t]
  PROVE  /\ call.at # "idle" /\ Fits(call)
         /\ \/ Return(t) /\ Ends(call, Outcome(t))
            \/ \E next : Goto(t, next) /\ GoesOn(call, next)
<1>1. Fits(call) /\ call \in Calling /\ DescsInv
  BY DEF TypeInv, CallsFit, Fits
<1>2. call.at # "idle"
  BY DEF Step, At, PutChunk, Publish, BuildFailed, Fetch, CheckExpired, GetLive, LookupLive, LoadLive,
         GetChunk, Loaded, ExtendLive, Extend, PinLive, PinChunk, NextExpired, Pop, RemoveChunk, Live
<1> DEFINE Result == \/ Return(t) /\ Ends(call, Outcome(t))
                     \/ \E next : Goto(t, next) /\ GoesOn(call, next)
<1> SUFFICES Result
  BY <1>1, <1>2
<1>3. ASSUME NEW next, Goto(t, next), next.at = call.at, next.op = call.op, next.prompt = call.prompt,
             next.cid = call.cid, next.desc = call.desc, call.at \notin {"idle", "pop", "load"}
      PROVE  Result
  BY <1>3 DEF GoesOn
<1>4. ASSUME NEW next, Goto(t, next), next.op = call.op, next.prompt = call.prompt,
             next.cid = call.cid, next.desc = call.desc, next.at \in {"fetch", "next"}
      PROVE  Result
  BY <1>4 DEF GoesOn
<1>5. CASE PutChunk(t)
  <2>1. CASE Return(t)
    <3>1. call.op = "register"
      BY <1>1, <1>5 DEF PutChunk, At, Fits
    <3>2. Outcome(t) = "StorageFullError"
      BY <1>5 DEF Outcome, PutChunk, At
    <3> QED
      BY <2>1, <3>1, <3>2 DEF Ends
  <2>2. CASE Goto(t, [call EXCEPT !.todo = Tail(call.todo)])
    <3> DEFINE next == [call EXCEPT !.todo = Tail(call.todo)]
    <3>1. /\ next.at = call.at /\ next.op = call.op /\ next.prompt = call.prompt
          /\ next.cid = call.cid /\ next.desc = call.desc /\ call.at = "put"
      BY <1>1, <1>5 DEF Calling, PutChunk, At
    <3>2. Goto(t, next)
      BY <2>2
    <3> HIDE DEF next
    <3> QED
      BY <1>3, <3>1, <3>2
  <2> QED
    BY <1>5, <2>1, <2>2 DEF PutChunk
<1>6. CASE Publish(t)
  <2>1. call.op = "register" /\ call.cid \in CacheId /\ Outcome(t) = "returned"
    BY <1>1, <1>6 DEF Publish, At, Fits, Outcome
  <2>2. PICK d : descs' = Append(descs, d) /\ d.expired = FALSE
    <3> DEFINE d == [cid |-> call.cid, prompt |-> call.prompt, shards |-> call.shards,
                     pinned |-> call.pin, ttl |-> call.ttl = "some", expired |-> FALSE]
    <3>1. descs' = Append(descs, d)
      BY <1>6 DEF Publish
    <3>2. d.expired = FALSE
      OBVIOUS
    <3> HIDE DEF d
    <3> QED
      BY <3>1, <3>2
  <2>3. Len(descs') = Len(descs) + 1 /\ descs'[Len(descs')] = d /\ Len(descs) \in Nat
    BY <1>1, <2>2 DEF DescsInv
  <2>4. table'[call.cid] = Len(descs')
    BY <1>1, <1>6, <2>1 DEF Publish, DescsInv
  <2>5. table'[call.cid] # 0 /\ ~descs'[table'[call.cid]].expired
    BY <2>2, <2>3, <2>4
  <2>6. Return(t)
    BY <1>6 DEF Publish
  <2> QED
    BY <2>1, <2>5, <2>6 DEF Ends
<1>7. CASE BuildFailed(t)
  <2>1. call.op = "register" /\ Outcome(t) = "TypeError" /\ Return(t)
    BY <1>1, <1>7 DEF BuildFailed, At, Fits, Outcome
  <2> QED
    BY <2>1 DEF Ends
<1>8. CASE Fetch(t)
  <2>1. call.at = "fetch" /\ call.op # "sweep" /\ call.cid \in CacheId
    BY <1>1, <1>8 DEF Fetch, At, Fits, Fetching
  <2>2. CASE Return(t) /\ call.cid \notin Published
    <3>1. Outcome(t) = "CacheNotFoundError" /\ table[call.cid] = 0
      BY <2>1, <2>2 DEF Outcome, At, Published
    <3> QED
      BY <2>1, <2>2, <3>1 DEF Ends
  <2>3. CASE Goto(t, [call EXCEPT !.at = "check", !.desc = table[call.cid]])
    <3> DEFINE next == [call EXCEPT !.at = "check", !.desc = table[call.cid]]
    <3>1. /\ next.at = "check" /\ next.op = call.op /\ next.prompt = call.prompt
          /\ next.cid = call.cid /\ next.desc = table[call.cid]
      BY <1>1 DEF Calling
    <3>2. Goto(t, next)
      BY <2>3
    <3> HIDE DEF next
    <3> QED
      BY <3>1, <3>2 DEF GoesOn
  <2> QED
    BY <1>8, <2>2, <2>3 DEF Fetch
<1>9. CASE CheckExpired(t)
  <2> DEFINE next == [call EXCEPT !.at = "pop"]
  <2>1. Goto(t, next) /\ call.at = "check" /\ descs[call.desc].expired
    BY <1>9 DEF CheckExpired, At
  <2>2. /\ next.at = "pop" /\ next.op = call.op /\ next.prompt = call.prompt
        /\ next.cid = call.cid /\ next.desc = call.desc
    BY <1>1 DEF Calling
  <2> HIDE DEF next
  <2> QED
    BY <2>1, <2>2 DEF GoesOn
<1>10. CASE GetLive(t)
  <2>1. call.op = "get" /\ call.at = "check" /\ ~descs[call.desc].expired /\ Return(t)
    BY <1>10 DEF GetLive, Live, At
  <2>2. Outcome(t) = "returned"
    BY <2>1 DEF Outcome, At
  <2> QED
    BY <2>1, <2>2 DEF Ends
<1>11. CASE LookupLive(t)
  <2> DEFINE n == MatchedChunks(call.prompt, descs[call.desc].prompt)
  <2> HIDE DEF n
  <2> DEFINE next == [call EXCEPT !.at = "fetch", !.count = n]
  <2>1. Goto(t, next)
    BY <1>11 DEF LookupLive, n
  <2>2. /\ next.at = "fetch" /\ next.op = call.op /\ next.prompt = call.prompt
        /\ next.cid = call.cid /\ next.desc = call.desc
    BY <1>1 DEF Calling
  <2> HIDE DEF next
  <2> QED
    BY <1>4, <2>1, <2>2
<1>12. CASE LoadLive(t)
  <2> DEFINE d == descs[call.desc]
             n == IF call.op = "load" \/ call.count > Len(d.prompt) THEN Len(d.prompt) ELSE call.count
             todo == [i \in 1 .. n |-> <<d.cid, i, call.shards>>]
             next == [call EXCEPT !.at = "load", !.todo = todo]
  <2>1. /\ Goto(t, next) /\ call.at = "check" /\ call.op \in {"load", "reuse"}
        /\ call.op = "reuse" => call.count # -1
    BY <1>12 DEF LoadLive, Live, At
  <2>2. call.op = "reuse" => Len(todo) = n
    <3>1. call.desc \in 1 .. Len(descs) /\ call.count \in Nat \union {-1}
      BY <1>1, <2>1 DEF Fits, Calling, DescsInv
    <3>2. Len(d.prompt) \in Nat
      BY <1>1, <3>1, DescFacts
    <3>3. call.op = "reuse" => n \in Nat
      BY <2>1, <3>1, <3>2
    <3> HIDE DEF n, d
    <3> QED
      BY <3>3
  <2>3. /\ next.at = "load" /\ next.op = call.op /\ next.prompt = call.prompt /\ next.count = call.count
        /\ next.cid = call.cid /\ next.desc = call.desc /\ next.out = call.out /\ next.todo = todo
    BY <1>1 DEF Calling
  <2> HIDE DEF next, todo
  <2>4. call.op = "reuse" => Loads(call, next)
    BY <2>1, <2>2, <2>3 DEF Loads
  <2> QED
    BY <2>1, <2>3, <2>4 DEF GoesOn
<1>13. CASE GetChunk(t)
  <2>1. call.at = "load" /\ call.todo # <<>>
    BY <1>13 DEF GetChunk, At
  <2>2. CASE Return(t)
    <3>1. Outcome(t) = "CacheMismatchError" /\ call.op \in {"reuse", "load"}
      BY <1>1, <2>1 DEF Outcome, At, Fits
    <3> QED
      BY <2>2, <3>1 DEF Ends
  <2>3. CASE ~Return(t)
    <3> DEFINE o == content[Head(call.todo)]
               next == [call EXCEPT !.todo = Tail(call.todo), !.out = Append(call.out, o)]
    <3>1. Goto(t, next)
      BY <1>13, <2>3 DEF GetChunk
    <3>2. /\ next.at = call.at /\ next.op = call.op /\ next.prompt = call.prompt /\ next.count = call.count
          /\ next.cid = call.cid /\ next.desc = call.desc
          /\ next.todo = Tail(call.todo) /\ next.out = Append(call.out, o)
      BY <1>1 DEF Calling
    <3>3. call.todo \in Seq(Key) /\ call.out \in Seq(Obj \union {None})
      BY <1>1 DEF Calling
    <3> HIDE DEF next, o
    <3>4. Len(next.out) + Len(next.todo) = Len(call.out) + Len(call.todo)
      <4>1. Len(Tail(call.todo)) = Len(call.todo) - 1 /\ Len(call.todo) \in Nat /\ Len(call.out) \in Nat
        BY <2>1, <3>3
      <4>2. Len(Append(call.out, o)) = Len(call.out) + 1
        BY <3>3
      <4>3. Len(next.out) = Len(call.out) + 1 /\ Len(next.todo) = Len(call.todo) - 1
        BY <3>2, <4>1, <4>2, Zenon
      <4>4. \A m, n \in Nat : (m + 1) + (n - 1) = m + n
        OBVIOUS
      <4> QED
        BY <4>1, <4>3, <4>4, Zenon
    <3>5. Loads(call, next)
      BY <2>1, <3>2, <3>4 DEF Loads
    <3> QED
      BY <2>1, <3>1, <3>2, <3>5 DEF GoesOn
  <2> QED
    BY <2>2, <2>3
<1>14. CASE Loaded(t)
  <2>1. /\ call.at = "load" /\ call.todo = <<>> /\ call.op \in {"reuse", "load"}
        /\ Outcome(t) = "returned" /\ Return(t)
    BY <1>1, <1>14 DEF Loaded, At, Outcome, Fits
  <2> QED
    BY <2>1 DEF Ends
<1>15. CASE ExtendLive(t)
  <2> DEFINE next == [call EXCEPT !.at = "extend"]
  <2>1. Goto(t, next) /\ call.at = "check" /\ ~descs[call.desc].expired
    BY <1>15 DEF ExtendLive, Live, At
  <2>2. /\ next.at = "extend" /\ next.op = call.op /\ next.prompt = call.prompt
        /\ next.cid = call.cid /\ next.desc = call.desc
    BY <1>1 DEF Calling
  <2> HIDE DEF next
  <2> QED
    BY <2>1, <2>2 DEF GoesOn
<1>16. CASE Extend(t)
  <2>1. call.op = "extend_ttl" /\ call.at = "extend" /\ Outcome(t) = "returned" /\ Return(t)
    BY <1>1, <1>16 DEF Extend, At, Outcome, Fits
  <2> QED
    BY <2>1 DEF Ends
<1>17. CASE PinLive(t)
  <2> DEFINE next == [call EXCEPT !.at = "pin", !.todo = KeysOf(descs[call.desc])]
  <2>1. Goto(t, next) /\ call.at = "check" /\ ~descs[call.desc].expired
    BY <1>17 DEF PinLive, Live, At
  <2>2. /\ next.at = "pin" /\ next.op = call.op /\ next.prompt = call.prompt
        /\ next.cid = call.cid /\ next.desc = call.desc
    BY <1>1 DEF Calling
  <2> HIDE DEF next
  <2> QED
    BY <2>1, <2>2 DEF GoesOn
<1>18. CASE PinChunk(t)
  <2>1. call.at = "pin" /\ call.op \in {"pin", "unpin"}
    BY <1>1, <1>18 DEF PinChunk, At, Fits
  <2>2. CASE Return(t)
    <3>1. Outcome(t) = "returned"
      BY <2>1 DEF Outcome, At
    <3> QED
      BY <2>1, <2>2, <3>1 DEF Ends
  <2>3. CASE ~Return(t)
    <3> DEFINE next == [call EXCEPT !.todo = Tail(call.todo)]
    <3>1. Goto(t, next)
      BY <1>18, <2>3 DEF PinChunk
    <3>2. /\ next.at = call.at /\ next.op = call.op /\ next.prompt = call.prompt
          /\ next.cid = call.cid /\ next.desc = call.desc
      BY <1>1 DEF Calling
    <3> HIDE DEF next
    <3> QED
      BY <1>3, <2>1, <3>1, <3>2
  <2> QED
    BY <2>2, <2>3
<1>19. CASE NextExpired(t)
  <2>1. call.at = "next" /\ call.op = "sweep"
    BY <1>1, <1>19 DEF NextExpired, At, Fits
  <2>2. CASE Return(t)
    <3>1. Outcome(t) = "returned"
      BY <2>1 DEF Outcome, At
    <3> QED
      BY <2>1, <2>2, <3>1 DEF Ends
  <2>3. CASE ~Return(t)
    <3>1. PICK c \in call.rest : Goto(t, [call EXCEPT !.at = "pop", !.cid = c, !.rest = call.rest \ {c}])
      BY <1>19, <2>3 DEF NextExpired
    <3> DEFINE next == [call EXCEPT !.at = "pop", !.cid = c, !.rest = call.rest \ {c}]
    <3>2. Goto(t, next)
      BY <3>1
    <3>3. /\ next.at = "pop" /\ next.op = call.op /\ next.prompt = call.prompt /\ next.desc = call.desc
      BY <1>1 DEF Calling
    <3> HIDE DEF next
    <3> QED
      BY <2>1, <3>2, <3>3 DEF GoesOn
  <2> QED
    BY <2>2, <2>3
<1>20. ASSUME Deleted(t), \/ call.at = "remove"
                          \/ call.at = "pop" /\ call.cid \in CacheId /\ table[call.cid] = 0
       PROVE  Result
  <2>1. call.op \in Fetching \union {"delete", "sweep"}
    BY <1>1, <1>20 DEF Fits
  <2>2. CASE call.op = "sweep"
    <3> DEFINE next == [call EXCEPT !.at = "next", !.todo = <<>>]
    <3>1. Goto(t, next)
      BY <1>20, <2>2 DEF Deleted
    <3>2. /\ next.at = "next" /\ next.op = call.op /\ next.prompt = call.prompt
          /\ next.cid = call.cid /\ next.desc = call.desc
      BY <1>1 DEF Calling
    <3> HIDE DEF next
    <3> QED
      BY <1>4, <3>1, <3>2
  <2>3. CASE call.op = "delete"
    <3>1. Outcome(t) = "returned" /\ Return(t)
      BY <1>20, <2>3 DEF Outcome, At, Deleted
    <3> QED
      BY <1>20, <2>3, <3>1 DEF Ends
  <2>4. CASE call.op \in Fetching
    <3>1. call.op \notin {"delete", "sweep"}
      BY <2>4 DEF Fetching
    <3>2. Outcome(t) = "CacheExpiredError" /\ Return(t)
      BY <1>20, <3>1 DEF Outcome, At, Deleted
    <3> QED
      BY <1>20, <3>1, <3>2 DEF Ends
  <2> QED
    BY <2>1, <2>2, <2>3, <2>4
<1>21. CASE Pop(t)
  <2>1. call.at = "pop" /\ call.cid \in CacheId
    BY <1>1, <1>21 DEF Pop, At, Fits
  <2>2. CASE call.cid \notin Published
    BY <1>20, <1>21, <2>1, <2>2 DEF Pop, Published
  <2>3. CASE call.cid \in Published
    <3> DEFINE next == [call EXCEPT !.at = "remove", !.todo = KeysOf(descs[table[call.cid]])]
    <3>1. Goto(t, next) /\ table' = [table EXCEPT ![call.cid] = 0]
      BY <1>21, <2>3 DEF Pop
    <3>2. table'[call.cid] = 0
      BY <1>1, <2>1, <3>1 DEF DescsInv
    <3>3. /\ next.at = "remove" /\ next.op = call.op /\ next.prompt = call.prompt
          /\ next.cid = call.cid /\ next.desc = call.desc
      BY <1>1 DEF Calling
    <3> HIDE DEF next
    <3> QED
      BY <2>1, <3>1, <3>2, <3>3 DEF GoesOn
  <2> QED
    BY <2>2, <2>3
<1>22. CASE RemoveChunk(t)
  <2>1. call.at = "remove"
    BY <1>22 DEF RemoveChunk, At
  <2>2. CASE Deleted(t)
    BY <1>20, <2>1, <2>2
  <2>3. CASE ~Deleted(t)
    <3> DEFINE next == [call EXCEPT !.todo = Tail(call.todo)]
    <3>1. Goto(t, next)
      BY <1>22, <2>3 DEF RemoveChunk
    <3>2. /\ next.at = call.at /\ next.op = call.op /\ next.prompt = call.prompt
          /\ next.cid = call.cid /\ next.desc = call.desc
      BY <1>1 DEF Calling
    <3> HIDE DEF next
    <3> QED
      BY <1>3, <2>1, <3>1, <3>2
  <2> QED
    BY <2>2, <2>3
<1> QED
  BY <1>1, <1>2, <1>5, <1>6, <1>7, <1>8, <1>9, <1>10, <1>11, <1>12, <1>13, <1>14, <1>15, <1>16,
     <1>17, <1>18, <1>19, <1>21, <1>22 DEF Step

\* The descriptors are only added to.
LEMMA LengthGrows ==
  ASSUME TypeInv, [Moving]_vars
  PROVE  Len(descs) \in Nat /\ Len(descs') >= Len(descs)
<1>1. Len(descs) \in Nat /\ DOMAIN descs = 1 .. Len(descs) /\ descs \in Seq(Descriptor)
  BY DEF TypeInv, DescsInv
<1>2. ASSUME NEW d, descs' = Append(descs, d) PROVE Len(descs') = Len(descs) + 1
  BY <1>1, <1>2
<1>3. ASSUME DOMAIN descs' = DOMAIN descs, descs' \in Seq(Descriptor) PROVE Len(descs') = Len(descs)
  BY <1>1, <1>3
<1>4. DescsInv'
  BY TypeStep DEF TypeInv
<1>5. (\E d : descs' = Append(descs, d)) \/ DOMAIN descs' = DOMAIN descs
  <2>1. ASSUME NEW t \in Thread, Publish(t) PROVE \E d : descs' = Append(descs, d)
    BY <2>1 DEF Publish
  <2>2. ASSUME NEW t \in Thread, Step(t), ~Publish(t) PROVE DOMAIN descs' = DOMAIN descs
    BY <2>2 DEF Step, PutChunk, BuildFailed, Fetch, CheckExpired, GetLive, LookupLive, LoadLive,
                GetChunk, Loaded, ExtendLive, Extend, PinLive, PinChunk, NextExpired, Pop, RemoveChunk
  <2>3. ASSUME NEW t \in Thread, NEW op, NEW c, Begin(t, op, c) PROVE descs' = descs
    BY <2>3 DEF Begin
  <2>4. Expire \/ Vanish \/ UNCHANGED vars => DOMAIN descs' = DOMAIN descs
    BY DEF Expire, Vanish, vars
  <2> QED
    BY <2>1, <2>2, <2>3, <2>4 DEF Moving
<1> QED
  BY <1>1, <1>2, <1>3, <1>4, <1>5 DEF DescsInv

\* A call that has just begun.
Begun(next, op, c) ==
    /\ next.op = op /\ next.desc = 0
    /\ next.at \in {"put", "fetch", "pop", "next"}
    /\ op # "sweep" => next.cid = c /\ next.at # "next"
    /\ next.at = "pop" => op = "delete"

LEMMA Begins ==
  ASSUME NEW t, NEW op, NEW c, Begin(t, op, c)
  PROVE  proc[t].at = "idle" /\ \E next : Goto(t, next) /\ Begun(next, op, c)
<1>1. proc[t].at = "idle"
  BY DEF Begin, At
<1>2. CASE op = "register" /\ BeginRegister(t, c)
  <2>1. PICK p, n, pin, ttl, todo :
               Goto(t, [Idle EXCEPT !.at = "put", !.op = "register", !.cid = c, !.prompt = p,
                                    !.shards = n, !.pin = pin, !.ttl = ttl, !.todo = todo])
    BY <1>2 DEF BeginRegister
  <2> DEFINE next == [Idle EXCEPT !.at = "put", !.op = "register", !.cid = c, !.prompt = p,
                                  !.shards = n, !.pin = pin, !.ttl = ttl, !.todo = todo]
  <2>2. Goto(t, next)
    BY <2>1
  <2>3. next.op = "register" /\ next.desc = 0 /\ next.at = "put" /\ next.cid = c
    BY DEF Idle
  <2> HIDE DEF next
  <2> QED
    BY <1>1, <1>2, <2>2, <2>3 DEF Begun
<1>3. CASE op = "reuse" /\ \E p \in Request, w \in Worker : BeginReuse(t, c, p, w)
  <2>1. PICK p, w : Goto(t, [Idle EXCEPT !.at = "fetch", !.op = "reuse", !.cid = c,
                                         !.prompt = p, !.shards = w, !.count = -1])
    BY <1>3 DEF BeginReuse
  <2> DEFINE next == [Idle EXCEPT !.at = "fetch", !.op = "reuse", !.cid = c,
                                  !.prompt = p, !.shards = w, !.count = -1]
  <2>2. Goto(t, next)
    BY <2>1
  <2>3. next.op = "reuse" /\ next.desc = 0 /\ next.at = "fetch" /\ next.cid = c
    BY DEF Idle
  <2> HIDE DEF next
  <2> QED
    BY <1>1, <1>3, <2>2, <2>3 DEF Begun
<1>4. CASE /\ op \in {"get", "extend_ttl", "pin", "unpin"}
           /\ Goto(t, [Idle EXCEPT !.at = "fetch", !.op = op, !.cid = c])
  <2> DEFINE next == [Idle EXCEPT !.at = "fetch", !.op = op, !.cid = c]
  <2>1. Goto(t, next)
    BY <1>4
  <2>2. next.op = op /\ next.desc = 0 /\ next.at = "fetch" /\ next.cid = c
    BY DEF Idle
  <2> HIDE DEF next
  <2> QED
    BY <1>1, <2>1, <2>2 DEF Begun
<1>5. CASE /\ op = "load"
           /\ \E w \in Worker : Goto(t, [Idle EXCEPT !.at = "fetch", !.op = op, !.cid = c, !.shards = w])
  <2>1. PICK w \in Worker : Goto(t, [Idle EXCEPT !.at = "fetch", !.op = op, !.cid = c, !.shards = w])
    BY <1>5
  <2> DEFINE next == [Idle EXCEPT !.at = "fetch", !.op = op, !.cid = c, !.shards = w]
  <2>2. Goto(t, next)
    BY <2>1
  <2>3. next.op = op /\ next.desc = 0 /\ next.at = "fetch" /\ next.cid = c
    BY DEF Idle
  <2> HIDE DEF next
  <2> QED
    BY <1>1, <2>2, <2>3 DEF Begun
<1>6. CASE op = "delete" /\ Goto(t, [Idle EXCEPT !.at = "pop", !.op = op, !.cid = c])
  <2> DEFINE next == [Idle EXCEPT !.at = "pop", !.op = op, !.cid = c]
  <2>1. Goto(t, next)
    BY <1>6
  <2>2. next.op = op /\ next.desc = 0 /\ next.at = "pop" /\ next.cid = c
    BY DEF Idle
  <2> HIDE DEF next
  <2> QED
    BY <1>1, <1>6, <2>1, <2>2 DEF Begun
<1>7. CASE op = "sweep" /\ \E rest : Goto(t, [Idle EXCEPT !.at = "next", !.op = op, !.rest = rest])
  <2>1. PICK rest : Goto(t, [Idle EXCEPT !.at = "next", !.op = op, !.rest = rest])
    BY <1>7
  <2> DEFINE next == [Idle EXCEPT !.at = "next", !.op = op, !.rest = rest]
  <2>2. Goto(t, next)
    BY <2>1
  <2>3. next.op = op /\ next.desc = 0 /\ next.at = "next"
    BY DEF Idle
  <2> HIDE DEF next
  <2> QED
    BY <1>1, <1>7, <2>2, <2>3 DEF Begun
<1> QED
  BY <1>2, <1>3, <1>4, <1>5, <1>6, <1>7 DEF Begin

-----------------------------------------------------------------------------
(***************************************************************************)
(* The control server.  A handler in a request has seen the descriptor the *)
(* id has now, and of each that it has had, what it is now; what its call  *)
(* of the engine has found, it has seen.                                   *)
(***************************************************************************)
Had(h) == {s[1] : s \in h.seen}

Waiting == [at : {"idle", "call", "refetch", "again", "send"}, op : Operation \union {"none"},
            cid : CacheId \union {None},
            code : {"none", "200", "201", "400", "404", "410", "dropped"},
            seen : SUBSET (Nat \X {"absent", "expired", "live"})]

Looking(h) == /\ table[h.cid] \in Had(h)
              /\ \A d \in Had(h) : d <= Len(descs) /\ <<d, Status(descs, d)>> \in h.seen

Told(h) ==
    /\ h.code = "404" => Was(h, "absent")
    /\ h.code = "410" => Was(h, "expired")
    /\ h.code \in {"200", "201"} => Was(h, IF h.op = "delete" THEN "absent" ELSE "live")
    /\ h.code = "dropped" =>
         \/ h.op = "register"
         \/ Mutates(h.op) /\ Was(h, "live") /\ (Was(h, "absent") \/ Was(h, "expired"))

Found(h, call) ==
    /\ call.desc # 0 => call.desc \in Had(h)
    /\ call.at \in {"pop", "remove"} /\ call.op # "delete" => Was(h, "expired")
    /\ call.at = "remove" /\ call.op = "delete" => Was(h, "absent")
    /\ call.at \in {"extend", "pin"} => Was(h, "live")

Serving(t, h, call) ==
    /\ h \in Waiting
    /\ call.at = "idle" <=> h.at \notin {"call", "again"}
    /\ h.at \in {"call", "refetch", "again"} => h.op \in OpsOf[t] /\ (h.op # "sweep" => h.cid \in CacheId)
    /\ h.at = "call" => call.op = h.op
    /\ h.at = "again" => call.op = "get"
    /\ h.at \in {"call", "again"} /\ h.op # "sweep" => call.cid = h.cid
    /\ h.op = "sweep" => h.cid = None
    /\ h.at \in {"refetch", "again"} => Mutates(h.op)
    /\ h.cid # None =>
         /\ h.at \in {"refetch", "again"} => Was(h, "live")
         /\ h.at \in {"call", "refetch", "again"} => Looking(h)
         /\ h.at \in {"call", "again"} => Found(h, call)
         /\ h.at = "send" => Told(h)

ReplyInv == DOMAIN http = Handler /\ \A t \in Handler : Serving(t, http[t], proc[t])

\* The request after its handler, or a bystander's step, has been watched.
Watched(h) ==
    [h EXCEPT !.seen = h.seen \union {<<d, Status(descs', d)>> : d \in Had(h) \union {table'[h.cid]}}]

LEMMA WatchIs ==
  ASSUME NEW requests, Watch(requests), NEW t \in Handler
  PROVE  http'[t] = IF requests[t].cid = None \/ http[t].at = "send" THEN requests[t]
                    ELSE Watched(requests[t])
BY DEF Watch, Watched, Had

\* Watching a request adds to what has been seen, and leaves nothing unseen.
LEMMA WatchedFacts ==
  ASSUME DescsInv', Len(descs) \in Nat, Len(descs') >= Len(descs),
         NEW h \in Waiting, h.cid # None, NEW w, w = Watched(h)
  PROVE  /\ w \in Waiting /\ w.at = h.at /\ w.op = h.op /\ w.cid = h.cid /\ w.code = h.code
         /\ h.seen \subseteq w.seen /\ Had(w) = Had(h) \union {table'[h.cid]}
         /\ \A d \in Had(w) : <<d, Status(descs', d)>> \in w.seen
         /\ (\A d \in Had(h) : d <= Len(descs)) => Looking(w)'
<1> DEFINE had == Had(h) \union {table'[h.cid]}
           more == {<<d, Status(descs', d)>> : d \in had}
<1>1. h.cid \in CacheId /\ h.seen \subseteq Nat \X {"absent", "expired", "live"}
  BY DEF Waiting
<1>2. table'[h.cid] \in 0 .. Len(descs') /\ Len(descs') \in Nat
  BY <1>1 DEF DescsInv
<1>3. Had(h) \subseteq Nat
  BY <1>1 DEF Had
<1>4. had \subseteq Nat
  BY <1>2, <1>3
<1>5. \A d \in had : <<d, Status(descs', d)>> \in Nat \X {"absent", "expired", "live"}
  BY <1>4 DEF Status
<1>6. more \subseteq Nat \X {"absent", "expired", "live"}
  BY <1>5
<1> HIDE DEF more
<1>7. w = [h EXCEPT !.seen = h.seen \union more]
  BY DEF Watched, more
<1>8. /\ w \in Waiting /\ w.at = h.at /\ w.op = h.op /\ w.cid = h.cid /\ w.code = h.code
      /\ w.seen = h.seen \union more
  BY <1>1, <1>6, <1>7 DEF Waiting
<1>9. Had(w) = had
  <2>1. {s[1] : s \in more} = had
    <3>1. \A d \in had : <<d, Status(descs', d)>>[1] = d
      OBVIOUS
    <3> QED
      BY <3>1 DEF more
  <2> QED
    BY <1>8, <2>1 DEF Had
<1>10. \A d \in Had(w) : <<d, Status(descs', d)>> \in w.seen
  BY <1>8, <1>9 DEF more
<1>11. ASSUME \A d \in Had(h) : d <= Len(descs) PROVE Looking(w)'
  <2>1. ASSUME NEW d \in Had(w) PROVE d <= Len(descs')
    BY <1>2, <1>3, <1>9, <1>11, <2>1
  <2>2. table'[w.cid] \in Had(w)
    BY <1>8, <1>9
  <2> QED
    BY <1>10, <2>1, <2>2 DEF Looking
<1> QED
  BY <1>8, <1>9, <1>10, <1>11

\* What has been seen stays seen.
LEMMA SeenMore ==
  ASSUME NEW h, NEW w, h.seen \subseteq w.seen, w.op = h.op, w.code = h.code
  PROVE  /\ \A status : Was(h, status) => Was(w, status)
         /\ Told(h) => Told(w)
         /\ \A call : Found(h, call) => Found(w, call)
<1>1. \A status : Was(h, status) => Was(w, status)
  BY DEF Was
<1>2. Had(h) \subseteq Had(w)
  BY DEF Had
<1> QED
  BY <1>1, <1>2 DEF Told, Found

\* A handler that looks on while another thread, the clock or the store moves.
LEMMA Onlooker ==
  ASSUME DescsInv', Len(descs) \in Nat, Len(descs') >= Len(descs),
         NEW requests, Watch(requests), NEW t \in Handler, requests[t] = http[t],
         Serving(t, http[t], proc[t]), proc'[t] = proc[t]
  PROVE  Serving(t, http[t], proc[t])'
<1> PICK h : h = http[t]
  OBVIOUS
<1> PICK call : call = proc[t]
  OBVIOUS
<1> PICK w : w = http'[t]
  OBVIOUS
<1>1. Serving(t, h, call) /\ h \in Waiting
  BY DEF Serving
<1>2. CASE h.cid = None \/ h.at = "send"
  <2>1. w = h
    BY <1>2, WatchIs
  <2>2. Serving(t, h, call)'
    BY <1>1, <1>2 DEF Serving
  <2> QED
    BY <2>1, <2>2 DEF Serving, Looking
<1>3. CASE h.cid # None /\ h.at # "send"
  <2>1. w = Watched(h)
    BY <1>3, WatchIs
  <2>2. /\ w \in Waiting /\ w.at = h.at /\ w.op = h.op /\ w.cid = h.cid /\ w.code = h.code
        /\ h.seen \subseteq w.seen
        /\ (\A d \in Had(h) : d <= Len(descs)) => Looking(w)'
    BY <1>1, <1>3, <2>1, WatchedFacts
  <2>3. /\ \A status : Was(h, status) => Was(w, status)
        /\ Found(h, call) => Found(w, call)
    BY <2>2, SeenMore
  <2>4. Looking(h) => Looking(w)'
    BY <2>2 DEF Looking
  <2>5. Serving(t, w, call)'
    BY <1>1, <1>3, <2>2, <2>3, <2>4 DEF Serving
  <2> QED
    BY <2>5 DEF Serving, Looking
<1> QED
  BY <1>2, <1>3

\* One handler moves, and the others look on.
LEMMA HandlerMoves ==
  ASSUME TypeInv, ReplyInv, [Moving]_vars,
         NEW t \in Handler, NEW new, Watch([http EXCEPT ![t] = new]),
         NEW next, Goto(t, next), NEW w, w = http'[t], Serving(t, w, next)'
  PROVE  ReplyInv'
<1>1. DescsInv' /\ Len(descs) \in Nat /\ Len(descs') >= Len(descs)
  BY TypeStep, LengthGrows DEF TypeInv
<1>2. DOMAIN http' = Handler
  BY DEF Watch
<1>3. t \in Thread /\ Handler \subseteq Thread
  BY HandlerAssumption
<1>4. proc'[t] = next /\ \A u \in Thread \ {t} : proc'[u] = proc[u]
  BY <1>3 DEF Goto, TypeInv, CallsFit
<1>5. Serving(t, http[t], proc[t])'
  BY <1>4 DEF Serving, Looking
<1>6. ASSUME NEW u \in Handler, u # t PROVE Serving(u, http[u], proc[u])'
  <2>1. [http EXCEPT ![t] = new][u] = http[u]
    BY <1>6 DEF ReplyInv
  <2>2. Serving(u, http[u], proc[u]) /\ proc'[u] = proc[u]
    BY <1>3, <1>4, <1>6 DEF ReplyInv
  <2> QED
    BY <1>1, <2>1, <2>2, Onlooker
<1> QED
  BY <1>2, <1>5, <1>6 DEF ReplyInv

\* No handler moves.
LEMMA HandlersLook ==
  ASSUME TypeInv, ReplyInv, [Moving]_vars, Watch(http), \A u \in Handler : proc'[u] = proc[u]
  PROVE  ReplyInv'
<1>1. DescsInv' /\ Len(descs) \in Nat /\ Len(descs') >= Len(descs)
  BY TypeStep, LengthGrows DEF TypeInv
<1>2. DOMAIN http' = Handler
  BY DEF Watch
<1>3. ASSUME NEW u \in Handler PROVE Serving(u, http[u], proc[u])'
  <2>1. Serving(u, http[u], proc[u]) /\ proc'[u] = proc[u]
    BY DEF ReplyInv
  <2> QED
    BY <1>1, <2>1, Onlooker
<1> QED
  BY <1>2, <1>3 DEF ReplyInv

LEMMA ReceiveReply ==
  ASSUME TypeInv, ReplyInv, NEW t \in Handler, Receive(t)
  PROVE  ReplyInv'
<1>1. PICK op \in OpsOf[t], c \in CacheId :
         /\ Begin(t, op, c)
         /\ Watch([http EXCEPT ![t] = [Free EXCEPT !.at = "call", !.op = op,
                                               !.cid = IF op = "sweep" THEN None ELSE c]])
  BY DEF Receive
<1> DEFINE h == [Free EXCEPT !.at = "call", !.op = op, !.cid = IF op = "sweep" THEN None ELSE c]
<1>2. t \in Thread /\ op \in Operation
  BY HandlerAssumption
<1>3. [Moving]_vars
  BY <1>1, <1>2 DEF Moving
<1>4. PICK next : Goto(t, next) /\ Begun(next, op, c)
  BY <1>1, Begins
<1>5. DescsInv' /\ Len(descs) \in Nat /\ Len(descs') >= Len(descs)
  BY <1>3, TypeStep, LengthGrows DEF TypeInv
<1>6. /\ h \in Waiting /\ h.at = "call" /\ h.op = op /\ h.seen = {} /\ h.code = "none"
      /\ h.cid = IF op = "sweep" THEN None ELSE c
  BY <1>2 DEF Free, Waiting
<1>7. http[t].at # "send"
  BY DEF Receive
<1>8. Watch([http EXCEPT ![t] = h])
  BY <1>1
<1> HIDE DEF h
<1>9. [http EXCEPT ![t] = h][t] = h
  BY DEF ReplyInv
<1> PICK w : w = http'[t]
  OBVIOUS
<1>10. w = IF h.cid = None THEN h ELSE Watched(h)
  BY <1>7, <1>8, <1>9, WatchIs
<1>11. next.at # "idle" /\ next.op = op /\ next.desc = 0 /\ (op # "sweep" => next.cid = c)
  BY <1>4 DEF Begun
<1>12. CASE h.cid = None
  <2>1. Serving(t, w, next)'
    BY <1>2, <1>6, <1>10, <1>11, <1>12 DEF Serving
  <2> QED
    BY <1>3, <1>4, <1>8, <2>1, HandlerMoves
<1>13. CASE h.cid # None
  <2>1. op # "sweep" /\ w = Watched(h)
    BY <1>6, <1>10, <1>13
  <2>2. /\ w \in Waiting /\ w.at = h.at /\ w.op = h.op /\ w.cid = h.cid
        /\ (\A d \in Had(h) : d <= Len(descs)) => Looking(w)'
    BY <1>5, <1>6, <1>13, <2>1, WatchedFacts
  <2>3. Had(h) = {}
    BY <1>6 DEF Had
  <2>4. Found(w, next)
    BY <1>4 DEF Begun, Found
  <2>5. Serving(t, w, next)'
    BY <1>1, <1>2, <1>6, <1>11, <2>1, <2>2, <2>3, <2>4 DEF Serving
  <2> QED
    BY <1>3, <1>4, <1>8, <2>5, HandlerMoves
<1> QED
  BY <1>12, <1>13

LEMMA RefetchReply ==
  ASSUME TypeInv, ReplyInv, NEW t \in Handler, Refetch(t)
  PROVE  ReplyInv'
<1> PICK old : old = http[t]
  OBVIOUS
<1>1. /\ Serving(t, old, proc[t]) /\ old.at = "refetch" /\ Begin(t, "get", old.cid)
      /\ Watch([http EXCEPT ![t] = [old EXCEPT !.at = "again"]])
  BY DEF Refetch, ReplyInv
<1> DEFINE h == [old EXCEPT !.at = "again"]
<1>2. old \in Waiting /\ old.op # "sweep" /\ old.cid \in CacheId /\ Mutates(old.op) /\ old.op \in OpsOf[t]
  BY <1>1 DEF Serving, Mutates
<1>3. [Moving]_vars
  <2>1. t \in Thread /\ "get" \in Operation
    BY HandlerAssumption DEF Operation
  <2> QED
    BY <1>1, <1>2, <2>1 DEF Moving
<1>4. PICK next : Goto(t, next) /\ Begun(next, "get", old.cid)
  BY <1>1, Begins
<1>5. DescsInv' /\ Len(descs) \in Nat /\ Len(descs') >= Len(descs)
  BY <1>3, TypeStep, LengthGrows DEF TypeInv
<1>6. /\ h \in Waiting /\ h.at = "again" /\ h.op = old.op /\ h.cid = old.cid /\ h.seen = old.seen
      /\ h.code = old.code
  BY <1>2 DEF Waiting
<1>7. Watch([http EXCEPT ![t] = h])
  BY <1>1
<1> HIDE DEF h
<1>8. [http EXCEPT ![t] = h][t] = h
  BY DEF ReplyInv
<1> PICK w : w = http'[t]
  OBVIOUS
<1>9. w = IF h.cid = None THEN h ELSE Watched(h)
  BY <1>1, <1>7, <1>8, WatchIs
<1>10. next.at # "idle" /\ next.op = "get" /\ next.desc = 0 /\ next.cid = old.cid
  BY <1>4 DEF Begun
<1>11. CASE h.cid = None
  <2>1. Serving(t, w, next)'
    BY <1>2, <1>6, <1>9, <1>10, <1>11 DEF Serving
  <2> QED
    BY <1>3, <1>4, <1>7, <2>1, HandlerMoves
<1>12. CASE h.cid # None
  <2>1. w = Watched(h)
    BY <1>9, <1>12
  <2>2. /\ w \in Waiting /\ w.at = h.at /\ w.op = h.op /\ w.cid = h.cid /\ w.code = h.code
        /\ h.seen \subseteq w.seen
        /\ (\A d \in Had(h) : d <= Len(descs)) => Looking(w)'
    BY <1>5, <1>6, <1>12, <2>1, WatchedFacts
  <2>3. Looking(old) /\ Was(old, "live")
    BY <1>1, <1>6, <1>12 DEF Serving
  <2>4. Looking(w)' /\ Was(w, "live")
    BY <1>6, <2>2, <2>3 DEF Looking, Had, Was
  <2>5. Found(w, next)
    BY <1>4 DEF Begun, Found
  <2>6. Serving(t, w, next)'
    BY <1>2, <1>6, <1>10, <2>2, <2>4, <2>5 DEF Serving
  <2> QED
    BY <1>3, <1>4, <1>7, <2>6, HandlerMoves
<1> QED
  BY <1>11, <1>12

\* A request that does not reach the engine, or has had its reply.
LEMMA ReplyReply ==
  ASSUME TypeInv, ReplyInv, NEW t \in Handler, Reject(t) \/ Send(t)
  PROVE  ReplyInv'
<1>1. UNCHANGED <<content, kept, descs, table, proc>>
  BY DEF Reject, Send
<1>2. PICK h : http' = [http EXCEPT ![t] = h] /\ h \in Waiting /\ h.cid = None
               /\ h.op = "none" /\ h.at \in {"idle", "send"}
  <2>1. Free \in Waiting /\ Free.cid = None /\ Free.op = "none" /\ Free.at = "idle"
    BY DEF Free, Waiting
  <2>2. ASSUME NEW code \in {"200", "404", "400", "dropped"}
        PROVE  LET h == [Free EXCEPT !.at = "send", !.code = code]
               IN  h \in Waiting /\ h.cid = None /\ h.op = "none" /\ h.at = "send"
    BY DEF Free, Waiting
  <2>3. CASE Send(t)
    BY <2>1, <2>3 DEF Send
  <2>4. CASE Reject(t)
    BY <2>2, <2>4 DEF Reject
  <2> QED
    BY <2>3, <2>4
<1>3. http[t].at \in {"idle", "send"}
  BY DEF Reject, Send
<1>4. DOMAIN http' = Handler /\ http'[t] = h
  BY <1>2 DEF ReplyInv
<1>5. proc[t].at = "idle" /\ proc'[t] = proc[t]
  BY <1>1, <1>3 DEF ReplyInv, Serving
<1>6. Serving(t, http[t], proc[t])'
  BY <1>2, <1>4, <1>5 DEF Serving
<1>7. ASSUME NEW u \in Handler, u # t PROVE Serving(u, http[u], proc[u])'
  <2>1. http'[u] = http[u] /\ proc'[u] = proc[u] /\ table' = table /\ descs' = descs
    BY <1>1, <1>2, <1>7 DEF ReplyInv
  <2>2. Serving(u, http[u], proc[u])
    BY DEF ReplyInv
  <2> QED
    BY <2>1, <2>2 DEF Serving, Looking, Status
<1> QED
  BY <1>4, <1>6, <1>7 DEF ReplyInv

LEMMA AnswerFacts ==
  ASSUME NEW op, NEW outcome \in Outcomes, NEW code \in Answers(op, outcome)
  PROVE  /\ code \in {"400", "404", "410", "dropped", "201", "200"}
         /\ code = "404" => outcome = "CacheNotFoundError"
         /\ code = "410" => outcome = "CacheExpiredError"
         /\ code = "dropped" => outcome \in {"StorageFullError", "TypeError"}
         /\ code = "400" => outcome = "TypeError"
         /\ code \in {"200", "201"} => outcome \in {"returned", "CacheMismatchError"}
         /\ code = "201" => op = "register"
BY DEF Answers, Answer, Outcomes

\* What the end of a call of the engine tells its handler, the handler has seen.
LEMMA EndSeen ==
  ASSUME NEW h, NEW w, h.cid # None, h.seen \subseteq w.seen, Looking(h),
         NEW call, Found(h, call), call.cid = h.cid, call.at = "check" => call.desc # 0,
         NEW outcome, Ends(call, outcome),
         table'[h.cid] \in Had(w), \A d \in Had(w) : <<d, Status(descs', d)>> \in w.seen
  PROVE  /\ outcome = "CacheNotFoundError" => Was(w, "absent")
         /\ outcome = "CacheExpiredError" => Was(w, "expired")
         /\ outcome = "returned" /\ call.op = "delete" => Was(w, "absent")
         /\ outcome = "returned" /\ call.op \in {"register", "get", "extend_ttl", "pin", "unpin"} =>
              Was(w, "live")
<1>1. \A status : Was(h, status) => Was(w, status)
  BY DEF Was
<1>2. ASSUME table[h.cid] = 0 PROVE Was(w, "absent")
  <2>1. <<0, "absent">> \in h.seen
    BY <1>2 DEF Looking, Status
  <2> QED
    BY <1>1, <2>1 DEF Was
<1>3. outcome = "CacheNotFoundError" => Was(w, "absent")
  BY <1>2 DEF Ends
<1>4. outcome = "CacheExpiredError" => Was(w, "expired")
  BY <1>1 DEF Ends, Found
<1>5. outcome = "returned" /\ call.op = "delete" => Was(w, "absent")
  BY <1>1, <1>2 DEF Ends, Found
<1>6. CASE outcome = "returned" /\ call.op = "register"
  <2>1. table'[h.cid] # 0 /\ ~descs'[table'[h.cid]].expired
    BY <1>6 DEF Ends
  <2>2. Status(descs', table'[h.cid]) = "live"
    BY <2>1 DEF Status
  <2>3. <<table'[h.cid], "live">> \in w.seen
    BY <2>2
  <2>4. Was(w, "live")
    BY <2>3 DEF Was
  <2> QED
    BY <1>6, <2>4
<1>7. CASE outcome = "returned" /\ call.op = "get"
  <2>1. call.desc # 0 /\ ~descs[call.desc].expired
    BY <1>7 DEF Ends
  <2>2. Status(descs, call.desc) = "live" /\ call.desc \in Had(h)
    BY <2>1 DEF Status, Found
  <2>3. <<call.desc, "live">> \in h.seen
    BY <2>2 DEF Looking
  <2>4. Was(w, "live")
    BY <2>3 DEF Was
  <2> QED
    BY <1>7, <2>4
<1>8. CASE outcome = "returned" /\ call.op \in {"extend_ttl", "pin", "unpin"}
  <2>1. call.at \in {"extend", "pin"}
    BY <1>8 DEF Ends
  <2>2. Was(w, "live")
    BY <1>1, <2>1 DEF Found
  <2> QED
    BY <1>8, <2>2
<1> QED
  BY <1>3, <1>4, <1>5, <1>6, <1>7, <1>8

\* The call of the engine goes on.
LEMMA EngineGoesOn ==
  ASSUME DescsInv', Len(descs) \in Nat, Len(descs') >= Len(descs),
         NEW t, NEW h, NEW call, Serving(t, h, call), Fits(call), h.at \in {"call", "again"},
         NEW next, GoesOn(call, next), NEW w, w = IF h.cid = None THEN h ELSE Watched(h)
  PROVE  Serving(t, w, next)'
<1>1. h \in Waiting /\ next.at # "idle" /\ next.op = call.op
  BY DEF Serving, GoesOn
<1>2. (call.op = "sweep" => h.cid = None) /\ (h.op = "sweep" => h.cid = None)
  BY DEF Serving
<1>3. CASE h.cid = None
  <2>1. w = h
    BY <1>3
  <2>2. h.op # "sweep" => next.cid = h.cid
    BY DEF Serving, GoesOn
  <2>3. Serving(t, h, next)'
    BY <1>1, <1>3, <2>2 DEF Serving
  <2> QED
    BY <2>1, <2>3 DEF Serving, Looking
<1>4. CASE h.cid # None
  <2>1. w = Watched(h) /\ call.op # "sweep" /\ h.op # "sweep"
    BY <1>2, <1>4
  <2>2. /\ w \in Waiting /\ w.at = h.at /\ w.op = h.op /\ w.cid = h.cid /\ w.code = h.code
        /\ h.seen \subseteq w.seen /\ Had(w) = Had(h) \union {table'[h.cid]}
        /\ \A d \in Had(w) : <<d, Status(descs', d)>> \in w.seen
        /\ (\A d \in Had(h) : d <= Len(descs)) => Looking(w)'
    BY <1>1, <1>4, <2>1, WatchedFacts
  <2>3. Looking(h) /\ Found(h, call) /\ call.cid = h.cid /\ next.cid = h.cid
    BY <1>4, <2>1 DEF Serving, GoesOn
  <2>4. Looking(w)'
    BY <2>2, <2>3 DEF Looking
  <2>5. \A status : Was(h, status) => Was(w, status)
    BY <2>2 DEF Was
  <2>6. call.at = "check" => call.desc \in Had(h) /\ call.desc # 0
    BY <2>3 DEF Fits, Found
  <2>7. ASSUME call.at = "check", descs[call.desc].expired PROVE Was(w, "expired")
    <3>1. <<call.desc, "expired">> \in h.seen
      BY <2>3, <2>6, <2>7 DEF Looking, Status
    <3> QED
      BY <2>2, <3>1 DEF Was
  <2>8. ASSUME call.at = "check", ~descs[call.desc].expired PROVE Was(w, "live")
    <3>1. <<call.desc, "live">> \in h.seen
      BY <2>3, <2>6, <2>8 DEF Looking, Status
    <3> QED
      BY <2>2, <3>1 DEF Was
  <2>9. Found(w, next)
    <3>1. next.desc # 0 => next.desc \in Had(w)
      BY <2>2, <2>3 DEF GoesOn, Looking, Found
    <3>2. ASSUME next.at \in {"pop", "remove"}, next.op # "delete" PROVE Was(w, "expired")
      <4>1. CASE next.at = "pop"
        BY <2>1, <2>7, <4>1 DEF GoesOn
      <4>2. CASE next.at = "remove"
        BY <1>1, <2>3, <2>5, <3>2, <4>2 DEF GoesOn, Found
      <4> QED
        BY <3>2, <4>1, <4>2
    <3>3. ASSUME next.at = "remove", next.op = "delete" PROVE Was(w, "absent")
      <4>1. CASE call.at = "remove"
        BY <1>1, <2>3, <2>5, <3>3, <4>1 DEF Found
      <4>2. CASE call.at = "pop"
        <5>1. table'[h.cid] = 0
          BY <2>3, <3>3, <4>2 DEF GoesOn
        <5>2. <<0, "absent">> \in w.seen
          BY <2>2, <5>1 DEF Status
        <5> QED
          BY <5>2 DEF Was
      <4> QED
        BY <3>3, <4>1, <4>2 DEF GoesOn
    <3>4. ASSUME next.at \in {"extend", "pin"} PROVE Was(w, "live")
      BY <2>3, <2>5, <2>8, <3>4 DEF GoesOn, Found
    <3> QED
      BY <3>1, <3>2, <3>3, <3>4 DEF Found
  <2> QED
    BY <1>1, <2>1, <2>2, <2>3, <2>4, <2>5, <2>9 DEF Serving
<1> QED
  BY <1>3, <1>4

\* The call of the engine has ended: the handler looks again, or has its reply.
Replied(h, code) == IF h.at = "call" /\ Mutates(h.op) /\ code = "200"
                    THEN [h EXCEPT !.at = "refetch"]
                    ELSE [h EXCEPT !.at = "send",
                                   !.code = IF h.at = "again" /\ code # "200" THEN "dropped" ELSE code]

LEMMA EngineEnds ==
  ASSUME DescsInv', Len(descs) \in Nat, Len(descs') >= Len(descs),
         NEW t \in Handler, NEW h, NEW call, Serving(t, h, call), Fits(call), h.at \in {"call", "again"},
         NEW outcome \in Outcomes, Ends(call, outcome),
         NEW code \in Answers(h.op, outcome), NEW new, new = Replied(h, code),
         NEW w, w = IF new.cid = None THEN new ELSE Watched(new)
  PROVE  Serving(t, w, Idle)'
<1>1. /\ code \in {"400", "404", "410", "dropped", "201", "200"}
      /\ code = "404" => outcome = "CacheNotFoundError"
      /\ code = "410" => outcome = "CacheExpiredError"
      /\ code = "dropped" => outcome \in {"StorageFullError", "TypeError"}
      /\ code = "400" => outcome = "TypeError"
      /\ code \in {"200", "201"} => outcome \in {"returned", "CacheMismatchError"}
      /\ code = "201" => h.op = "register"
  BY AnswerFacts
<1>2. new = Replied(h, code)
  OBVIOUS
<1>3. /\ h \in Waiting /\ h.op \in OpsOf[t] /\ OpsOf[t] \subseteq Operation \ {"reuse", "load"}
      /\ h.op # "sweep" => h.cid \in CacheId
      /\ h.op = "sweep" => h.cid = None
  BY HandlerAssumption DEF Serving
<1>4. /\ new \in Waiting /\ new.op = h.op /\ new.cid = h.cid /\ new.seen = h.seen
      /\ \/ new.at = "refetch" /\ h.at = "call" /\ Mutates(h.op) /\ code = "200"
         \/ new.at = "send" /\ new.code = IF h.at = "again" /\ code # "200" THEN "dropped" ELSE code
  <2>1. CASE h.at = "call" /\ Mutates(h.op) /\ code = "200"
    BY <1>2, <1>3, <2>1 DEF Replied, Waiting
  <2>2. CASE ~(h.at = "call" /\ Mutates(h.op) /\ code = "200")
    BY <1>1, <1>2, <1>3, <2>2 DEF Replied, Waiting
  <2> QED
    BY <2>1, <2>2
<1>5. Idle.at = "idle"
  BY DEF Idle
<1>6. CASE h.cid = None
  <2>1. w = new
    BY <1>4, <1>6
  <2> QED
    BY <1>3, <1>4, <1>5, <1>6, <2>1 DEF Serving
<1>7. CASE h.cid # None
  <2>1. w = Watched(new) /\ h.op # "sweep" /\ call.cid = h.cid
    BY <1>3, <1>4, <1>7 DEF Serving
  <2>2. Looking(h) /\ Found(h, call)
    BY <1>7 DEF Serving
  <2>3. /\ w \in Waiting /\ w.at = new.at /\ w.op = h.op /\ w.cid = h.cid /\ w.code = new.code
        /\ h.seen \subseteq w.seen /\ table'[h.cid] \in Had(w)
        /\ \A d \in Had(w) : <<d, Status(descs', d)>> \in w.seen
        /\ (\A d \in Had(new) : d <= Len(descs)) => Looking(w)'
    BY <1>4, <1>7, <2>1, WatchedFacts
  <2>4. Looking(w)'
    BY <1>4, <2>2, <2>3 DEF Looking, Had
  <2>5. call.at = "check" => call.desc # 0
    BY DEF Fits
  <2>6. /\ outcome = "CacheNotFoundError" => Was(w, "absent")
        /\ outcome = "CacheExpiredError" => Was(w, "expired")
        /\ outcome = "returned" /\ call.op = "delete" => Was(w, "absent")
        /\ outcome = "returned" /\ call.op \in {"register", "get", "extend_ttl", "pin", "unpin"} =>
             Was(w, "live")
    BY <1>7, <2>1, <2>2, <2>3, <2>5, EndSeen
  <2>7. CASE h.at = "call"
    <3>1. call.op = h.op /\ h.op \in Operation \ {"reuse", "load", "sweep"}
      BY <1>3, <2>1, <2>7 DEF Serving
    <3>2. code \in {"200", "201"} => outcome = "returned"
      BY <1>1, <3>1 DEF Ends
    <3>3. code = "dropped" => h.op = "register"
      BY <1>1, <3>1 DEF Ends
    <3>4. code \in {"200", "201"} => Was(w, IF h.op = "delete" THEN "absent" ELSE "live")
      BY <2>6, <3>1, <3>2 DEF Operation
    <3>5. CASE new.at = "refetch"
      <4>1. Mutates(h.op) /\ Was(w, "live")
        BY <1>4, <3>4, <3>5 DEF Mutates
      <4> QED
        BY <1>3, <1>5, <1>7, <2>1, <2>3, <2>4, <3>5, <4>1 DEF Serving
    <3>6. CASE new.at = "send"
      <4>1. new.code = code
        BY <1>4, <2>7, <3>6
      <4>2. Told(w)
        BY <1>1, <2>3, <2>6, <3>3, <3>4, <4>1 DEF Told
      <4> QED
        BY <1>5, <1>7, <2>1, <2>3, <3>6, <4>2 DEF Serving
    <3> QED
      BY <1>4, <3>5, <3>6
  <2>8. CASE h.at = "again"
    <3>1. call.op = "get" /\ Mutates(h.op) /\ Was(h, "live")
      BY <1>7, <2>8 DEF Serving
    <3>2. Was(w, "live")
      BY <2>3, <3>1 DEF Was
    <3>3. new.at = "send" /\ new.code = IF code # "200" THEN "dropped" ELSE "200"
      BY <1>4, <2>8
    <3>4. code # "200" => Was(w, "absent") \/ Was(w, "expired")
      <4>1. code \notin {"dropped", "400"}
        BY <1>1, <3>1 DEF Ends
      <4>2. code # "201"
        BY <1>1, <3>1 DEF Mutates
      <4> QED
        BY <1>1, <2>6, <4>1, <4>2
    <3>5. Told(w)
      BY <2>3, <3>1, <3>2, <3>3, <3>4 DEF Told, Mutates
    <3> QED
      BY <1>5, <1>7, <2>1, <2>3, <3>3, <3>5 DEF Serving
  <2> QED
    BY <2>7, <2>8
<1> QED
  BY <1>6, <1>7

LEMMA EngineReply ==
  ASSUME TypeInv, ReplyInv, NEW t \in Handler, Engine(t)
  PROVE  ReplyInv'
<1> PICK h : h = http[t]
  OBVIOUS
<1> PICK call : call = proc[t]
  OBVIOUS
<1> PICK w : w = http'[t]
  OBVIOUS
<1> PICK outcome : outcome = Outcome(t)
  OBVIOUS
<1> PICK code \in Answers(h.op, outcome) :
           Watch([http EXCEPT ![t] = IF proc'[t].at # "idle" THEN h ELSE Replied(h, code)])
  BY DEF Engine, Replied
<1> DEFINE new == IF proc'[t].at # "idle" THEN h ELSE Replied(h, code)
<1>1. /\ Serving(t, h, call) /\ h.at \in {"call", "again"} /\ Step(t)
      /\ Watch([http EXCEPT ![t] = new])
  BY DEF Engine, Replied, ReplyInv
<1>2. t \in Thread
  BY HandlerAssumption
<1>3. [Moving]_vars
  BY <1>1, <1>2 DEF Moving
<1>4. DescsInv' /\ Len(descs) \in Nat /\ Len(descs') >= Len(descs)
  BY <1>3, TypeStep, LengthGrows DEF TypeInv
<1>5. /\ Fits(call)
      /\ \/ Return(t) /\ Ends(call, outcome)
         \/ \E next : Goto(t, next) /\ GoesOn(call, next)
  BY <1>1, <1>2, Steps
<1>6. outcome \in Outcomes
  BY OutcomeType
<1>7. \A next : Goto(t, next) => proc'[t] = next
  BY <1>2 DEF Goto, TypeInv, CallsFit
<1> HIDE DEF new
<1>8. [http EXCEPT ![t] = new][t] = new
  BY DEF ReplyInv
<1>9. w = IF new.cid = None THEN new ELSE Watched(new)
  BY <1>1, <1>8, WatchIs
<1>10. CASE Return(t) /\ Ends(call, outcome)
  <2>1. Goto(t, Idle)
    BY <1>10 DEF Return
  <2>2. new = Replied(h, code)
    <3>1. proc'[t].at = "idle"
      BY <1>7, <2>1 DEF Idle
    <3> QED
      BY <3>1 DEF new
  <2>3. Serving(t, w, Idle)'
    BY <1>1, <1>4, <1>5, <1>6, <1>9, <1>10, <2>2, EngineEnds
  <2> QED
    BY <1>1, <1>3, <2>1, <2>3, HandlerMoves
<1>11. ASSUME NEW next, Goto(t, next), GoesOn(call, next) PROVE ReplyInv'
  <2>1. new = h
    <3>1. proc'[t].at # "idle"
      BY <1>7, <1>11 DEF GoesOn
    <3> QED
      BY <3>1 DEF new
  <2>2. Serving(t, w, next)'
    BY <1>1, <1>4, <1>5, <1>9, <1>11, <2>1, EngineGoesOn
  <2> QED
    BY <1>1, <1>3, <1>11, <2>2, HandlerMoves
<1> QED
  BY <1>5, <1>10, <1>11

-----------------------------------------------------------------------------
(***************************************************************************)
(* The adapter: the request of a thread and the call it is in.             *)
(***************************************************************************)
Jobs == [at : {"idle", "exists", "lookup", "load", "into", "forward", "computed", "store"},
         cid : CacheId \union {None}, prompt : Request \union {<<>>}, reused : Nat \union {-1},
         payloads : Seq(Obj \union {None})]

Working(j, call) ==
    /\ j \in Jobs
    /\ call.at = "idle" <=> j.at \notin {"exists", "load", "store"}
    /\ j.at # "idle" => j.cid \in CacheId /\ j.prompt \in Request
    /\ j.at \in {"exists", "lookup"} => j.reused = 0
    /\ j.at = "exists" => call.op = "get"
    /\ j.at = "load" => call.op = "reuse" /\ call.cid = j.cid /\ call.prompt = j.prompt
    /\ j.at = "store" => /\ call.op = "register"
                         /\ \E n \in DOMAIN j.prompt : call.prompt = Payload(j.prompt, n)

JobInv == DOMAIN job = Adapter /\ \A t \in Adapter : Working(job[t], proc[t])

\* One thread of the adapter moves, or only its job does.
LEMMA JobMoves ==
  ASSUME JobInv, CallsFit, NEW t \in Adapter,
         NEW j, job' = [job EXCEPT ![t] = j] \/ (job' = job /\ j = job[t]),
         NEW next, Goto(t, next) \/ (proc' = proc /\ next = proc[t]), Working(j, next)
  PROVE  JobInv'
<1>1. t \in Thread /\ Adapter \subseteq Thread
  BY AdapterAssumption
<1>2. DOMAIN job' = Adapter /\ job'[t] = j /\ \A u \in Adapter \ {t} : job'[u] = job[u]
  BY DEF JobInv
<1>3. proc'[t] = next /\ \A u \in Adapter \ {t} : proc'[u] = proc[u]
  BY <1>1 DEF Goto, CallsFit
<1>4. ASSUME NEW u \in Adapter PROVE Working(job'[u], proc'[u])
  BY <1>2, <1>3 DEF JobInv
<1> QED
  BY <1>2, <1>4 DEF JobInv

\* The engine moves as it does for any caller, and no other thread does.
Alone(t) == [Moving]_vars /\ \A u \in Thread \ {t} : proc'[u] = proc[u]

LEMMA RetrieveJob ==
  ASSUME TypeInv, JobInv, NEW t \in Adapter, Retrieve(t)
  PROVE  JobInv' /\ Alone(t)
<1>1. PICK c \in CacheId, p \in Request :
         /\ Begin(t, "get", c)
         /\ job' = [job EXCEPT ![t] = [NoJob EXCEPT !.at = "exists", !.cid = c, !.prompt = p]]
  BY DEF Retrieve
<1>2. t \in Thread /\ "get" \in Operation
  BY AdapterAssumption DEF Operation
<1>3. PICK next : Goto(t, next) /\ Begun(next, "get", c)
  BY <1>1, Begins
<1> DEFINE j == [NoJob EXCEPT !.at = "exists", !.cid = c, !.prompt = p]
<1>4. j \in Jobs /\ j.at = "exists" /\ j.cid = c /\ j.prompt = p /\ j.reused = 0
  <2>1. <<>> \in Seq(Obj \union {None})
    OBVIOUS
  <2> QED
    BY <2>1 DEF NoJob, Jobs
<1>5. job' = [job EXCEPT ![t] = j]
  BY <1>1
<1> HIDE DEF j
<1>6. Working(j, next)
  BY <1>3, <1>4 DEF Working, Begun
<1>7. JobInv'
  BY <1>3, <1>5, <1>6, JobMoves DEF TypeInv
<1>8. Moving
  BY <1>1, <1>2 DEF Moving
<1>9. \A u \in Thread \ {t} : proc'[u] = proc[u]
  BY <1>3 DEF Goto, TypeInv, CallsFit
<1> QED
  BY <1>7, <1>8, <1>9 DEF Alone

LEMMA LookupJob ==
  ASSUME TypeInv, JobInv, NEW t \in Adapter, Lookup(t)
  PROVE  JobInv' /\ Alone(t)
<1> PICK old : old = job[t]
  OBVIOUS
<1> DEFINE next == [Idle EXCEPT !.at = "fetch", !.op = "reuse", !.cid = old.cid,
                                !.prompt = old.prompt, !.shards = 1, !.count = -1]
           j == [old EXCEPT !.at = "load"]
<1>1. /\ Working(old, proc[t]) /\ old.at = "lookup" /\ job' = [job EXCEPT ![t] = j]
      /\ UNCHANGED <<content, kept, descs, table>>
      /\ BeginReuse(t, old.cid, old.prompt, 1) /\ Goto(t, next)
  BY DEF JobInv, Lookup, BeginReuse, JobGoto
<1>2. t \in Thread /\ "reuse" \in Operation /\ 1 \in Worker
  <2>1. 1 \in 1 .. 1 /\ 1 \in ShardCounts
    BY AdapterAssumption
  <2> QED
    BY <2>1, AdapterAssumption DEF Operation, Worker
<1>3. old \in Jobs /\ old.cid \in CacheId /\ old.prompt \in Request /\ proc[t].at = "idle"
  BY <1>1 DEF Working
<1>4. next.at = "fetch" /\ next.op = "reuse" /\ next.cid = old.cid /\ next.prompt = old.prompt
  BY DEF Idle
<1>5. j \in Jobs /\ j.at = "load" /\ j.cid = old.cid /\ j.prompt = old.prompt
  BY <1>3 DEF Jobs
<1>6. Begin(t, "reuse", old.cid)
  BY <1>1, <1>2, <1>3 DEF Begin, At
<1> HIDE DEF next, j
<1>7. Working(j, next)
  BY <1>3, <1>4, <1>5 DEF Working
<1>8. JobInv'
  BY <1>1, <1>7, JobMoves DEF TypeInv
<1>9. Moving
  BY <1>2, <1>3, <1>6 DEF Moving
<1>10. \A u \in Thread \ {t} : proc'[u] = proc[u]
  BY <1>1 DEF Goto, TypeInv, CallsFit
<1> QED
  BY <1>8, <1>9, <1>10 DEF Alone

LEMMA StoreJob ==
  ASSUME TypeInv, JobInv, NEW t \in Adapter, StoreKV(t)
  PROVE  JobInv' /\ Alone(t)
<1> PICK old : old = job[t]
  OBVIOUS
<1> DEFINE j == [old EXCEPT !.at = "store"]
<1>1. /\ Working(old, proc[t]) /\ old.at = "computed" /\ job' = [job EXCEPT ![t] = j]
      /\ UNCHANGED <<content, kept, descs, table>>
  BY DEF JobInv, StoreKV, JobGoto
<1> PICK c \in CacheId, n \in DOMAIN old.prompt :
           BeginRegister(t, c) /\ proc'[t].prompt = Payload(old.prompt, n)
  BY DEF StoreKV
<1>2. t \in Thread /\ "register" \in Operation
  BY AdapterAssumption DEF Operation
<1>3. old \in Jobs /\ old.cid \in CacheId /\ old.prompt \in Request /\ proc[t].at = "idle"
  BY <1>1 DEF Working
<1>4. Begin(t, "register", c)
  BY <1>1, <1>3 DEF Begin, At
<1>5. PICK next : Goto(t, next) /\ Begun(next, "register", c)
  BY <1>4, Begins
<1>6. proc'[t] = next /\ \A u \in Thread \ {t} : proc'[u] = proc[u]
  BY <1>2, <1>5 DEF Goto, TypeInv, CallsFit
<1>7. j \in Jobs /\ j.at = "store" /\ j.cid = old.cid /\ j.prompt = old.prompt
  BY <1>3 DEF Jobs
<1> HIDE DEF j
<1>8. Working(j, next)
  BY <1>1, <1>3, <1>5, <1>6, <1>7 DEF Working, Begun
<1>9. JobInv'
  BY <1>1, <1>5, <1>8, JobMoves DEF TypeInv
<1>10. Moving
  BY <1>2, <1>3, <1>4 DEF Moving
<1> QED
  BY <1>6, <1>9, <1>10 DEF Alone

\* The steps in which the engine has no part.
LEMMA QuietJob ==
  ASSUME TypeInv, JobInv, NEW t \in Adapter, Into(t) \/ Forward(t) \/ Finish(t)
  PROVE  JobInv' /\ Alone(t)
<1> PICK old : old = job[t]
  OBVIOUS
<1>1. Working(old, proc[t]) /\ UNCHANGED vars /\ old.at \in {"into", "forward", "computed"}
  BY DEF JobInv, Into, Forward, Finish, engineVars, vars
<1>2. old \in Jobs /\ old.cid \in CacheId /\ old.prompt \in Request /\ proc[t].at = "idle"
  BY <1>1 DEF Working
<1>3. PICK j : job' = [job EXCEPT ![t] = j] /\ Working(j, proc[t])
  <2>1. ASSUME NEW j \in Jobs, j.at \in {"forward", "computed"}, j.cid = old.cid, j.prompt = old.prompt
        PROVE  Working(j, proc[t])
    BY <1>2, <2>1 DEF Working
  <2>2. CASE Into(t)
    <3> DEFINE j == [old EXCEPT !.at = "forward", !.payloads = <<>>]
    <3>1. job' = [job EXCEPT ![t] = j]
      BY <2>2 DEF Into
    <3>2. <<>> \in Seq(Obj \union {None})
      OBVIOUS
    <3>3. j \in Jobs /\ j.at = "forward" /\ j.cid = old.cid /\ j.prompt = old.prompt
      BY <1>2, <3>2 DEF Jobs
    <3> HIDE DEF j
    <3> QED
      BY <2>1, <3>1, <3>3
  <2>3. CASE Forward(t) /\ ~Done(t)
    <3> DEFINE j == [old EXCEPT !.at = "computed"]
    <3>1. job' = [job EXCEPT ![t] = j]
      BY <2>3 DEF Forward, JobGoto
    <3>2. j \in Jobs /\ j.at = "computed" /\ j.cid = old.cid /\ j.prompt = old.prompt
      BY <1>2 DEF Jobs
    <3> HIDE DEF j
    <3> QED
      BY <2>1, <3>1, <3>2
  <2>4. CASE Done(t)
    <3>1. job' = [job EXCEPT ![t] = NoJob]
      BY <2>4 DEF Done
    <3>2. Working(NoJob, proc[t])
      BY <1>2 DEF Working, NoJob, Jobs
    <3> QED
      BY <3>1, <3>2
  <2> QED
    BY <2>2, <2>3, <2>4 DEF Finish
<1>4. JobInv'
  BY <1>1, <1>3, JobMoves DEF TypeInv, vars
<1> QED
  BY <1>1, <1>4 DEF Alone, vars

LEMMA InEngineJob ==
  ASSUME TypeInv, JobInv, NEW t \in Adapter, InEngine(t)
  PROVE  JobInv' /\ Alone(t)
<1> PICK old : old = job[t]
  OBVIOUS
<1> PICK call : call = proc[t]
  OBVIOUS
<1>1. Working(old, call) /\ old.at \in {"exists", "load", "store"} /\ Step(t) /\ t \in Thread
  BY AdapterAssumption DEF JobInv, InEngine
<1>2. old \in Jobs /\ old.cid \in CacheId /\ old.prompt \in Request
  BY <1>1 DEF Working
<1>3. Moving
  BY <1>1 DEF Moving
<1>4. \A next : Goto(t, next) => proc'[t] = next /\ \A u \in Thread \ {t} : proc'[u] = proc[u]
  BY <1>1 DEF Goto, TypeInv, CallsFit
<1>5. /\ Fits(call)
      /\ \/ Return(t) /\ Ends(call, Outcome(t))
         \/ \E next : Goto(t, next) /\ GoesOn(call, next)
  BY <1>1, Steps
<1>6. CASE Return(t)
  <2>1. Goto(t, Idle) /\ Idle.at = "idle" /\ proc'[t].at = "idle"
    BY <1>4, <1>6 DEF Return, Idle
  <2>2. Ended(t)
    BY <2>1 DEF InEngine
  <2>3. PICK j : job' = [job EXCEPT ![t] = j] /\ Working(j, Idle)
    <3>1. CASE old.at = "exists"
      <4>1. PICK label \in {"lookup", "forward"} : job' = [job EXCEPT ![t].at = label]
        BY <2>2, <3>1 DEF Ended, JobGoto
      <4> DEFINE j == [old EXCEPT !.at = label]
      <4>2. job' = [job EXCEPT ![t] = j]
        BY <4>1
      <4>3. j \in Jobs /\ j.at = label /\ j.cid = old.cid /\ j.prompt = old.prompt /\ j.reused = 0
        BY <1>1, <1>2, <3>1 DEF Working, Jobs
      <4> HIDE DEF j
      <4>4. Working(j, Idle)
        BY <1>2, <2>1, <4>3 DEF Working
      <4> QED
        BY <4>2, <4>4
    <3>2. CASE old.at = "load" /\ Outcome(t) = "returned"
      <4> DEFINE j == [old EXCEPT !.at = "into", !.payloads = call.out, !.reused = call.count]
      <4>1. job' = [job EXCEPT ![t] = j]
        BY <2>2, <3>2 DEF Ended
      <4>2. call.out \in Seq(Obj \union {None}) /\ call.count \in Nat \union {-1}
        BY <1>5 DEF Fits, Calling
      <4>3. j \in Jobs /\ j.at = "into" /\ j.cid = old.cid /\ j.prompt = old.prompt
        BY <1>2, <4>2 DEF Jobs
      <4> HIDE DEF j
      <4>4. Working(j, Idle)
        BY <1>2, <2>1, <4>3 DEF Working
      <4> QED
        BY <4>1, <4>4
    <3>3. CASE old.at # "exists" /\ ~(old.at = "load" /\ Outcome(t) = "returned")
      <4>1. job' = [job EXCEPT ![t] = NoJob]
        BY <2>2, <3>3 DEF Ended
      <4>2. Working(NoJob, Idle)
        BY <2>1 DEF Working, NoJob, Jobs
      <4> QED
        BY <4>1, <4>2
    <3> QED
      BY <3>1, <3>2, <3>3
  <2>4. JobInv'
    BY <2>1, <2>3, JobMoves DEF TypeInv
  <2> QED
    BY <1>3, <1>4, <2>1, <2>4 DEF Alone
<1>7. ASSUME NEW next, Goto(t, next), GoesOn(call, next) PROVE JobInv' /\ Alone(t)
  <2>1. proc'[t] = next /\ next.at # "idle" /\ next.op = call.op /\ next.prompt = call.prompt
    BY <1>4, <1>7 DEF GoesOn
  <2>2. job' = job
    BY <2>1 DEF InEngine
  <2>3. call.op # "sweep" => next.cid = call.cid
    BY <1>7 DEF GoesOn
  <2>4. Working(old, next)
    BY <1>1, <2>1, <2>3 DEF Working
  <2>5. JobInv'
    BY <1>7, <2>2, <2>4, JobMoves DEF TypeInv
  <2> QED
    BY <1>3, <1>4, <1>7, <2>5 DEF Alone
<1> QED
  BY <1>5, <1>6, <1>7

-----------------------------------------------------------------------------
(***************************************************************************)
(* The process.                                                            *)
(***************************************************************************)
LEMMA HandlerAlone ==
  ASSUME TypeInv, ReplyInv, NEW t \in Handler, Receive(t) \/ Reject(t) \/ Serve(t)
  PROVE  Alone(t)
<1>1. t \in Thread /\ Handler \subseteq Thread
  BY HandlerAssumption
<1>2. \A next : Goto(t, next) => \A u \in Thread \ {t} : proc'[u] = proc[u]
  BY <1>1 DEF Goto, TypeInv, CallsFit
<1>3. ASSUME NEW op \in Operation, NEW c \in CacheId, Begin(t, op, c) PROVE Alone(t)
  <2>1. Moving
    BY <1>1, <1>3 DEF Moving
  <2> QED
    BY <1>2, <1>3, <2>1, Begins DEF Alone
<1>4. CASE Receive(t)
  BY <1>3, <1>4, HandlerAssumption DEF Receive
<1>5. CASE Refetch(t)
  <2>1. PICK h : h = http[t]
    OBVIOUS
  <2>2. Serving(t, h, proc[t]) /\ h.at = "refetch" /\ Begin(t, "get", h.cid)
    BY <1>5, <2>1 DEF Refetch, ReplyInv
  <2>3. h.cid \in CacheId /\ "get" \in Operation
    BY <2>2 DEF Serving, Mutates, Operation
  <2> QED
    BY <1>3, <2>2, <2>3
<1>6. CASE Engine(t)
  <2>1. Step(t)
    BY <1>6 DEF Engine
  <2>2. Moving
    BY <1>1, <2>1 DEF Moving
  <2>3. \E next : Goto(t, next)
    BY <1>1, <2>1, Steps DEF Return
  <2> QED
    BY <1>2, <2>2, <2>3 DEF Alone
<1>7. CASE Reject(t) \/ Send(t)
  BY <1>7 DEF Reject, Send, Alone, vars
<1> QED
  BY <1>4, <1>5, <1>6, <1>7 DEF Serve

LEMMA HandlerReply ==
  ASSUME TypeInv, ReplyInv, NEW t \in Handler, Receive(t) \/ Reject(t) \/ Serve(t)
  PROVE  ReplyInv'
BY ReceiveReply, RefetchReply, ReplyReply, EngineReply DEF Serve

LEMMA AdapterJob ==
  ASSUME TypeInv, JobInv, NEW t \in Adapter, Retrieve(t) \/ Work(t)
  PROVE  JobInv' /\ Alone(t)
BY RetrieveJob, LookupJob, StoreJob, QuietJob, InEngineJob DEF Work

ControlInv == TypeInv /\ JobInv /\ ReplyInv

\* Every step of the process is one of the engine for a thread of one kind, and leaves the
\* threads of the other kind alone.
LEMMA ControlStep ==
  ASSUME ControlInv, [ServingNext]_servingVars
  PROVE  [Moving]_vars /\ ControlInv'
<1> USE DEF ControlInv
<1>1. Handler \subseteq Thread /\ Adapter \subseteq Thread /\ Handler \intersect Adapter = {}
  BY HandlerAssumption, AdapterAssumption, SeparateAssumption
<1>2. ASSUME job' = job, \A u \in Adapter : proc'[u] = proc[u] PROVE JobInv'
  BY <1>2 DEF JobInv
<1>3. ASSUME NEW t \in Handler, Receive(t) \/ Reject(t) \/ Serve(t), job' = job
      PROVE  [Moving]_vars /\ JobInv' /\ ReplyInv'
  <2>1. Alone(t) /\ ReplyInv'
    BY <1>3, HandlerAlone, HandlerReply
  <2>2. \A u \in Adapter : proc'[u] = proc[u]
    BY <1>1, <2>1 DEF Alone
  <2> QED
    BY <1>2, <1>3, <2>1, <2>2 DEF Alone
<1>4. ASSUME NEW t \in Adapter, Retrieve(t) \/ Work(t), Watch(http)
      PROVE  [Moving]_vars /\ JobInv' /\ ReplyInv'
  <2>1. JobInv' /\ Alone(t)
    BY <1>4, AdapterJob
  <2>2. \A u \in Handler : proc'[u] = proc[u]
    BY <1>1, <2>1 DEF Alone
  <2> QED
    BY <1>4, <2>1, <2>2, HandlersLook DEF Alone
<1>5. ASSUME Expire \/ Vanish, Watch(http), job' = job
      PROVE  [Moving]_vars /\ JobInv' /\ ReplyInv'
  <2>1. Moving /\ proc' = proc
    BY <1>5 DEF Moving, Expire, Vanish
  <2> QED
    BY <1>2, <1>5, <2>1, HandlersLook
<1>6. ASSUME UNCHANGED servingVars PROVE [Moving]_vars /\ JobInv' /\ ReplyInv'
  <2>1. UNCHANGED vars /\ job' = job /\ http' = http /\ proc' = proc
    BY <1>6 DEF servingVars, vars
  <2>2. ReplyInv'
    BY <2>1 DEF vars, ReplyInv, Serving, Looking
  <2> QED
    BY <1>2, <2>1, <2>2
<1>7. [Moving]_vars /\ JobInv' /\ ReplyInv'
  BY <1>3, <1>4, <1>5, <1>6 DEF ServingNext, HTTPNext, SGLangNext
<1> QED
  BY <1>7, TypeStep

LEMMA ControlInit ==
  ServingInit => ControlInv
<1> SUFFICES ASSUME ServingInit PROVE ControlInv
  OBVIOUS
<1>1. TypeInv
  BY InitType DEF ServingInit
<1>2. \A t \in Thread : proc[t].at = "idle"
  BY DEF ServingInit, Init, Idle
<1>3. ReplyInv
  <2>1. Free \in Waiting /\ Free.at = "idle" /\ Free.op = "none"
    BY DEF Free, Waiting
  <2>2. \A t \in Handler : Serving(t, Free, proc[t])
    BY <1>2, <2>1, HandlerAssumption DEF Serving
  <2> QED
    BY <2>2 DEF ServingInit, HTTPInit, ReplyInv
<1>4. JobInv
  <2>1. <<>> \in Seq(Obj \union {None})
    OBVIOUS
  <2>2. NoJob \in Jobs /\ NoJob.at = "idle"
    BY <2>1 DEF NoJob, Jobs
  <2>3. \A t \in Adapter : Working(NoJob, proc[t])
    BY <1>2, <2>2, AdapterAssumption DEF Working
  <2> QED
    BY <2>3 DEF ServingInit, SGLangInit, JobInv
<1> QED
  BY <1>1, <1>3, <1>4 DEF ControlInv

\* What a reply of the control server says of a cache was so at some moment of the request,
\* however many handlers and inference threads work on the same id meanwhile, and whatever
\* the clock and the store do between the engine's answer and the second look.
THEOREM RepliesTrue == ServingSpec => []RepliesAreTrue
<1>1. ControlInv /\ [ServingNext]_servingVars => ControlInv'
  BY ControlStep
<1>2. ControlInv => RepliesAreTrue
  BY DEF ControlInv, ReplyInv, Serving, Told, RepliesAreTrue
<1> QED
  BY <1>1, <1>2, ControlInit, PTL DEF ServingSpec

\* A load of the adapter that follows a lookup returns the request's own chunks or fails
\* ("An explicit hit can never serve stale/garbage KV", engine.py:10-11), although the
\* server's handlers work on the same engine: as the engine by itself, as long as the
\* prompts of an id extend one another.
THEOREM ServedHitIsRight == ASSUME Compatible PROVE ServingSpec => []HitNeverGarbage
<1> DEFINE Inv == ControlInv /\ HitInv
<1>1. Inv /\ [ServingNext]_servingVars => Inv'
  <2> SUFFICES ASSUME Inv, [ServingNext]_servingVars PROVE Inv'
    OBVIOUS
  <2>1. [Moving]_vars /\ ControlInv'
    BY ControlStep
  <2>2. TypeInv /\ \A t \in Thread : NextRight(proc[t])
    BY CompatibleRight DEF ControlInv
  <2> QED
    BY <2>1, <2>2, RightStep
<1>2. ServingInit => Inv
  BY ControlInit, RightInit DEF ServingInit
<1>3. Inv => HitNeverGarbage
  BY RightHits
<1> HIDE DEF Inv
<1> QED
  BY <1>1, <1>2, <1>3, PTL DEF ServingSpec

-----------------------------------------------------------------------------
(***************************************************************************)
(* The KV that the adapter loads.  It lets lookup count the chunks that    *)
(* match and load fetch the cache again, and takes the count for what was  *)
(* loaded: that holds when an id stands for one prompt.                    *)
(***************************************************************************)
OnePrompt == \A c \in CacheId : \A p, q \in PromptsOf[c] : p = q

LEMMA OneIsCompatible == OnePrompt => Compatible
BY DEF OnePrompt, Compatible

\* A load has before it, or behind it, as many chunks as have matched.
AsMatched(call) ==
    call.op = "reuse" /\ call.prompt # None /\ call.at = "load" =>
        Len(call.out) + Len(call.todo) = call.count

LoadsInv == \A t \in Thread : AsMatched(proc[t])

\* The descriptor that is fetched again has all the chunks that matched.
LEMMA LoadsAsMatched ==
  ASSUME TypeInv, OnePrompt, NEW call, Fits(call), CallRight(call), AsMatched(call),
         NEW next, GoesOn(call, next)
  PROVE  AsMatched(next)
<1> SUFFICES ASSUME next.op = "reuse", next.prompt # None, next.at = "load"
             PROVE  Len(next.out) + Len(next.todo) = next.count
  BY DEF AsMatched
<1> DEFINE d == descs[call.desc]
<1>1. call.op = "reuse" /\ call.prompt # None /\ Loads(call, next)
  BY DEF GoesOn
<1>2. CASE call.at = "load"
  <2>1. Len(call.out) + Len(call.todo) = call.count
    BY <1>1, <1>2 DEF AsMatched
  <2>2. Len(next.out) + Len(next.todo) = Len(call.out) + Len(call.todo) /\ next.count = call.count
    BY <1>1, <1>2 DEF Loads
  <2> QED
    BY <2>1, <2>2
<1>3. CASE call.at = "check"
  <2>1. /\ call.count # -1 /\ next.count = call.count /\ next.out = call.out
        /\ Len(next.todo) = IF call.count > Len(d.prompt) THEN Len(d.prompt) ELSE call.count
    BY <1>1, <1>3 DEF Loads
  <2>2. /\ call.count \in Nat /\ call.cid \in CacheId
        /\ call.desc \in 1 .. Len(descs) /\ d.cid = call.cid
    BY <1>3, <2>1 DEF Fits, Calling, TypeInv, DescsInv
  <2>3. d.prompt \in PromptsOf[call.cid]
    BY <2>2 DEF TypeInv, DescsInv
  <2>4. Len(d.prompt) \in Nat /\ DOMAIN d.prompt = 1 .. Len(d.prompt)
    BY <2>2, <2>3, PromptFacts
  <2>5. call.out = <<>> /\ \A i \in 1 .. call.count : IsChunk(Payload(call.prompt, i), call.cid, i)
    BY <1>1, <1>3 DEF CallRight
  <2>6. call.count > 0 => call.count \in DOMAIN d.prompt
    <3>1. \A p \in PromptsOf[call.cid] : p = d.prompt
      BY <2>2, <2>3 DEF OnePrompt
    <3> HIDE DEF d
    <3>2. SUFFICES ASSUME call.count > 0 PROVE call.count \in DOMAIN d.prompt
      OBVIOUS
    <3>3. IsChunk(Payload(call.prompt, call.count), call.cid, call.count)
      BY <2>2, <2>5, <3>2
    <3> QED
      BY <3>1, <3>3 DEF IsChunk
  <2> HIDE DEF d
  <2>7. Len(next.todo) = call.count
    BY <2>1, <2>2, <2>4, <2>6
  <2>8. Len(next.out) = 0
    BY <2>1, <2>5
  <2> QED
    BY <2>1, <2>2, <2>7, <2>8
<1> QED
  BY <1>1, <1>2, <1>3 DEF Loads

LEMMA LoadsStep ==
  ASSUME TypeInv, HitInv, OnePrompt, LoadsInv, [Moving]_vars
  PROVE  LoadsInv'
<1>1. ASSUME NEW t \in Thread, NEW next, Goto(t, next), AsMatched(next) PROVE LoadsInv'
  <2>1. \A u \in Thread : proc'[u] = IF u = t THEN next ELSE proc[u]
    BY <1>1 DEF TypeInv, CallsFit, Goto
  <2>2. \A u \in Thread : AsMatched(proc'[u])
    BY <1>1, <2>1 DEF LoadsInv
  <2> QED
    BY <2>2 DEF LoadsInv, AsMatched
<1>2. ASSUME NEW t \in Thread, Step(t) PROVE LoadsInv'
  <2>1. PICK call : call = proc[t]
    OBVIOUS
  <2>2. /\ Fits(call) /\ AsMatched(call) /\ CallRight(call)
        /\ Return(t) \/ \E next : Goto(t, next) /\ GoesOn(call, next)
    BY <1>2, <2>1, Steps DEF LoadsInv, HitInv
  <2>3. AsMatched(Idle)
    BY DEF Idle, AsMatched
  <2> QED
    BY <1>1, <2>2, <2>3, LoadsAsMatched DEF Return
<1>3. ASSUME NEW t \in Thread, NEW op, NEW c, Begin(t, op, c) PROVE LoadsInv'
  <2>1. PICK next : Goto(t, next) /\ Begun(next, op, c)
    BY <1>3, Begins
  <2>2. AsMatched(next)
    BY <2>1 DEF Begun, AsMatched
  <2> QED
    BY <1>1, <2>1, <2>2
<1>4. ASSUME proc' = proc PROVE LoadsInv'
  BY <1>4 DEF LoadsInv, AsMatched
<1> QED
  BY <1>2, <1>3, <1>4 DEF Moving, Expire, Vanish, vars

-----------------------------------------------------------------------------
(***************************************************************************)
(* The KV in the blocks of a request, from the end of its load on.         *)
(***************************************************************************)
\* SGLang gives each request blocks of its own, and enough of them.
OwnBlocks ==
    \A t \in Adapter :
      /\ \A p \in Request \ {None} : Len(p) <= Len(BlocksOf[t])
      /\ \A u \in Adapter : \A i \in DOMAIN BlocksOf[t], k \in DOMAIN BlocksOf[u] :
           BlocksOf[t][i] = BlocksOf[u][k] => t = u /\ i = k

BlocksIn(t) == {BlocksOf[t][i] : i \in DOMAIN BlocksOf[t]}

\* The first n blocks of the thread hold the KV of the prompt.
RightTo(t, p, n) == \A i \in 1 .. n : i \in DOMAIN BlocksOf[t] /\ buffer[BlocksOf[t][i]] = Payload(p, i)

KVRight(t, j) ==
    /\ j.at \in {"into", "forward"} /\ j.prompt # None => j.reused \in 0 .. Len(j.prompt)
    /\ j.at = "into" /\ j.prompt # None =>
         Len(j.payloads) = j.reused /\ \A i \in 1 .. j.reused : j.payloads[i] = Payload(j.prompt, i)
    /\ j.at = "forward" /\ j.prompt # None => RightTo(t, j.prompt, j.reused)
    /\ j.at \in {"computed", "store"} => j.prompt # None /\ RightTo(t, j.prompt, Len(j.prompt))

KVInv == DOMAIN buffer = Block /\ \A t \in Adapter : KVRight(t, job[t])

\* Only the blocks of the thread are written.
Others(t) == DOMAIN buffer' = Block /\ \A b \in Block \ BlocksIn(t) : buffer'[b] = buffer[b]

LEMMA BlockFacts ==
  ASSUME NEW t \in Adapter
  PROVE  /\ BlocksOf[t] \in Seq(Block) /\ Len(BlocksOf[t]) \in Nat
         /\ DOMAIN BlocksOf[t] = 1 .. Len(BlocksOf[t])
         /\ \A i \in DOMAIN BlocksOf[t] : BlocksOf[t][i] \in Block
<1>1. BlocksOf[t] \in Seq(Block)
  BY AdapterAssumption
<1> QED
  BY <1>1

\* One thread of the adapter moves, and writes to its own blocks alone.
LEMMA KVMoves ==
  ASSUME JobInv, KVInv, OwnBlocks, NEW t \in Adapter,
         NEW j, job' = [job EXCEPT ![t] = j] \/ (job' = job /\ j = job[t]),
         Others(t), KVRight(t, j)'
  PROVE  KVInv'
<1>1. job'[t] = j /\ \A u \in Adapter \ {t} : job'[u] = job[u]
  BY DEF JobInv
<1>2. ASSUME NEW u \in Adapter, u # t, NEW p, NEW n, RightTo(u, p, n) PROVE RightTo(u, p, n)'
  <2> SUFFICES ASSUME NEW i \in 1 .. n
               PROVE  i \in DOMAIN BlocksOf[u] /\ buffer'[BlocksOf[u][i]] = Payload(p, i)
    BY DEF RightTo
  <2>1. i \in DOMAIN BlocksOf[u] /\ buffer[BlocksOf[u][i]] = Payload(p, i)
    BY <1>2 DEF RightTo
  <2>2. BlocksOf[u][i] \in Block \ BlocksIn(t)
    BY <1>2, <2>1, BlockFacts DEF BlocksIn, OwnBlocks
  <2> QED
    BY <2>1, <2>2 DEF Others
<1>3. ASSUME NEW u \in Adapter PROVE KVRight(u, job[u])'
  <2>1. CASE u = t
    <3>1. job'[u] = j
      BY <1>1, <2>1
    <3> QED
      BY <2>1, <3>1 DEF KVRight, RightTo
  <2>2. CASE u # t
    <3>1. job'[u] = job[u] /\ KVRight(u, job[u])
      BY <1>1, <2>2 DEF KVInv
    <3>2. \A p, n : RightTo(u, p, n) => RightTo(u, p, n)'
      BY <1>2, <2>2
    <3> PICK h : h = job[u]
      OBVIOUS
    <3>3. KVRight(u, h)'
      BY <3>1, <3>2 DEF KVRight
    <3> QED
      BY <3>1, <3>3 DEF KVRight, RightTo
  <2> QED
    BY <2>1, <2>2
<1> QED
  BY <1>3 DEF KVInv, Others

\* A request ends: its blocks are given back.
LEMMA ClearedFacts ==
  ASSUME KVInv, NEW t \in Adapter, buffer' = Cleared(t)
  PROVE  Others(t)
BY DEF KVInv, Others, Cleared, BlocksIn

LEMMA NoJobRight ==
  ASSUME NEW t PROVE KVRight(t, NoJob) /\ KVRight(t, NoJob)'
BY DEF KVRight, NoJob

\* A block is as long as a chunk.
LEMMA ChunkBlocksAre ==
  ASSUME NEW t \in Adapter, NEW i \in Nat \ {0}
  PROVE  LET blocks == BlocksOf[t]
             chunk == Transfer!ChunkBlocks(blocks, i)
         IN  IF i <= Len(blocks)
             THEN Len(chunk) = 1 /\ DOMAIN chunk = 1 .. 1 /\ chunk[1] = blocks[i]
             ELSE DOMAIN chunk = {}
<1> PICK blocks : blocks = BlocksOf[t]
  OBVIOUS
<1>1. blocks \in Seq(Block) /\ Len(blocks) \in Nat
  BY BlockFacts
<1>2. Transfer!ChunkBlocks(blocks, i) = SubSeq(blocks, i, Transfer!Least(i, Len(blocks)))
  <2>1. (i - 1) * 1 + 1 = i /\ i * 1 = i
    OBVIOUS
  <2> QED
    BY <2>1, Zenon DEF Transfer!ChunkBlocks
<1>3. CASE i <= Len(blocks)
  <2>1. Transfer!Least(i, Len(blocks)) = i
    BY <1>1, <1>3 DEF Transfer!Least
  <2>2. Transfer!ChunkBlocks(blocks, i) = SubSeq(blocks, i, i)
    BY <1>2, <2>1
  <2>3. /\ Len(SubSeq(blocks, i, i)) = 1 /\ DOMAIN SubSeq(blocks, i, i) = 1 .. 1
        /\ SubSeq(blocks, i, i)[1] = blocks[i]
    BY <1>1, <1>3
  <2> QED
    BY <1>3, <2>2, <2>3
<1>4. CASE ~(i <= Len(blocks))
  <2>1. Transfer!Least(i, Len(blocks)) = Len(blocks) /\ Len(blocks) < i
    BY <1>1, <1>4 DEF Transfer!Least
  <2>2. Transfer!ChunkBlocks(blocks, i) = SubSeq(blocks, i, Len(blocks))
    BY <1>2, <2>1
  <2>3. DOMAIN SubSeq(blocks, i, Len(blocks)) = {}
    BY <1>1, <2>1
  <2> QED
    BY <1>4, <2>2, <2>3
<1> QED
  BY <1>3, <1>4

\* A chunk that was loaded is copied into its block.
LEMMA LoadIntoFacts ==
  ASSUME KVInv, OwnBlocks, NEW t \in Adapter, NEW payloads, Len(payloads) \in Nat,
         DOMAIN payloads = 1 .. Len(payloads),
         buffer' = Transfer!LoadInto(buffer, BlocksOf[t], [i \in DOMAIN payloads |-> <<payloads[i]>>])
  PROVE  /\ Others(t)
         /\ \A k \in DOMAIN payloads \intersect DOMAIN BlocksOf[t] : buffer'[BlocksOf[t][k]] = payloads[k]
<1> PICK blocks : blocks = BlocksOf[t]
  OBVIOUS
<1> PICK given : given = [i \in DOMAIN payloads |-> <<payloads[i]>>]
  OBVIOUS
<1> DEFINE chunk(i) == Transfer!ChunkBlocks(blocks, i)
           at(b) == {s \in (DOMAIN given) \X (1 .. 1) : s[2] \in DOMAIN chunk(s[1]) /\ chunk(s[1])[s[2]] = b}
<1>1. /\ Len(blocks) \in Nat /\ DOMAIN blocks = 1 .. Len(blocks)
      /\ \A i \in DOMAIN blocks : blocks[i] \in Block
  BY BlockFacts
<1>2. DOMAIN given = DOMAIN payloads /\ \A i \in DOMAIN payloads : given[i] = <<payloads[i]>>
  OBVIOUS
<1>3. ASSUME NEW i \in DOMAIN payloads
      PROVE  /\ i \in DOMAIN blocks => Len(chunk(i)) = 1 /\ DOMAIN chunk(i) = 1 .. 1 /\ chunk(i)[1] = blocks[i]
             /\ i \notin DOMAIN blocks => DOMAIN chunk(i) = {}
  <2>1. i \in Nat \ {0} /\ (i \in DOMAIN blocks <=> i <= Len(blocks))
    BY <1>1
  <2> QED
    BY <2>1, ChunkBlocksAre
<1> DEFINE put(b) == IF at(b) = {} THEN buffer[b]
                     ELSE LET s == CHOOSE s \in at(b) : \A r \in at(b) : r[1] <= s[1]
                          IN  Transfer!Split(given[s[1]], Len(chunk(s[1])))[s[2]]
<1>4. DOMAIN buffer' = Block /\ \A b \in Block : buffer'[b] = put(b)
  <2>1. buffer' = Transfer!LoadInto(buffer, blocks, given)
    OBVIOUS
  <2>2. Transfer!LoadInto(buffer, blocks, given) = [b \in DOMAIN buffer |-> put(b)]
    BY Zenon DEF Transfer!LoadInto
  <2> HIDE DEF put
  <2>3. buffer' = [b \in Block |-> put(b)]
    BY <2>1, <2>2 DEF KVInv
  <2> QED
    BY <2>3
<1> HIDE DEF chunk
<1>5. ASSUME NEW b, NEW s \in at(b)
      PROVE  /\ s[1] \in DOMAIN payloads \intersect DOMAIN blocks /\ s[2] = 1
             /\ b = blocks[s[1]] /\ s = <<s[1], 1>>
  BY <1>2, <1>3
<1>6. Others(t)
  <2>1. ASSUME NEW b \in Block \ BlocksIn(t) PROVE at(b) = {}
    BY <1>5, <2>1 DEF BlocksIn
  <2> HIDE DEF at
  <2> QED
    BY <1>4, <2>1 DEF Others
<1>7. ASSUME NEW k \in DOMAIN payloads \intersect DOMAIN blocks PROVE buffer'[blocks[k]] = payloads[k]
  <2> DEFINE b == blocks[k]
             s == CHOOSE s \in at(b) : \A r \in at(b) : r[1] <= s[1]
  <2>1. <<k, 1>> \in at(b)
    BY <1>2, <1>3
  <2>2. \A r \in at(b) : r = <<k, 1>>
    BY <1>5 DEF OwnBlocks
  <2>3. k \in Nat
    BY <1>1
  <2> HIDE DEF at, b
  <2>4. s \in at(b)
    BY <2>1, <2>2, <2>3
  <2>5. s[1] = k /\ s[2] = 1
    BY <2>2, <2>4
  <2> HIDE DEF s
  <2>6. b \in Block /\ at(b) # {}
    BY <1>1, <2>1 DEF b
  <2>7. buffer'[b] = Transfer!Split(given[k], Len(chunk(k)))[1]
    BY <1>4, <2>5, <2>6 DEF s
  <2>8. given[k] = <<payloads[k]>> /\ Len(chunk(k)) = 1
    BY <1>2, <1>3
  <2>9. Transfer!Split(<<payloads[k]>>, 1)[1] = payloads[k]
    BY DEF Transfer!Split
  <2> QED
    BY <2>7, <2>8, <2>9 DEF b
<1> QED
  BY <1>6, <1>7

\* What save_from gives for a prompt whose KV is in the blocks.
LEMMA SaveFromFacts ==
  ASSUME NEW t \in Adapter, NEW p \in Seq(Chunk), RightTo(t, p, Len(p))
  PROVE  Transfer!SaveFrom(buffer, BlocksOf[t], Len(p)) = [i \in DOMAIN p |-> <<Payload(p, i)>>]
<1> PICK blocks : blocks = BlocksOf[t]
  OBVIOUS
<1> DEFINE chunk(i) == Transfer!ChunkBlocks(blocks, i)
           saved(i) == [j \in DOMAIN chunk(i) |-> buffer[chunk(i)[j]]]
<1>1. DOMAIN p = 1 .. Len(p) /\ Len(p) \in Nat
  OBVIOUS
<1>2. ASSUME NEW i \in DOMAIN p PROVE saved(i) = <<Payload(p, i)>>
  <2>1. i \in Nat \ {0} /\ i \in DOMAIN blocks /\ buffer[blocks[i]] = Payload(p, i)
    BY <1>1 DEF RightTo
  <2>2. i <= Len(blocks)
    BY <2>1, BlockFacts
  <2>3. DOMAIN chunk(i) = 1 .. 1 /\ chunk(i)[1] = blocks[i]
    BY <2>1, <2>2, ChunkBlocksAre
  <2> HIDE DEF chunk
  <2>4. saved(i) = [j \in 1 .. 1 |-> Payload(p, i)]
    BY <2>1, <2>3
  <2> QED
    BY <2>4
<1>3. Transfer!SaveFrom(buffer, blocks, Len(p)) = [i \in 1 .. Len(p) |-> saved(i)]
  BY DEF Transfer!SaveFrom
<1> HIDE DEF saved
<1> QED
  BY <1>1, <1>2, <1>3

\* The request of a thread: its prompt fits its blocks.
LEMMA JobFacts ==
  ASSUME JobInv, KVInv, OwnBlocks, NEW t \in Adapter, NEW j, j = job[t]
  PROVE  /\ j \in Jobs /\ KVRight(t, j)
         /\ j.at # "idle" /\ j.prompt # None =>
              /\ j.prompt \in Seq(Chunk) /\ Len(j.prompt) \in Nat
              /\ DOMAIN j.prompt = 1 .. Len(j.prompt) /\ 1 .. Len(j.prompt) \subseteq DOMAIN BlocksOf[t]
<1>1. Working(j, proc[t]) /\ KVRight(t, j)
  BY DEF JobInv, KVInv
<1>2. j \in Jobs /\ (j.at # "idle" => j.prompt \in Request)
  BY <1>1 DEF Working
<1>3. ASSUME j.at # "idle", j.prompt # None
      PROVE  /\ j.prompt \in Seq(Chunk) /\ Len(j.prompt) \in Nat
             /\ DOMAIN j.prompt = 1 .. Len(j.prompt) /\ 1 .. Len(j.prompt) \subseteq DOMAIN BlocksOf[t]
  <2> PICK p : p = j.prompt
    OBVIOUS
  <2>1. p \in Request \ {None} /\ p \in Seq(Chunk)
    BY <1>2, <1>3, RequestAssumption
  <2>2. Len(p) \in Nat /\ DOMAIN p = 1 .. Len(p) /\ Len(p) <= Len(BlocksOf[t])
    BY <2>1 DEF OwnBlocks
  <2> QED
    BY <2>1, <2>2, BlockFacts
<1> QED
  BY <1>1, <1>2, <1>3

\* The request ends.
LEMMA DoneKV ==
  ASSUME JobInv, KVInv, OwnBlocks, NEW t \in Adapter, job' = [job EXCEPT ![t] = NoJob],
         buffer' = Cleared(t)
  PROVE  KVInv'
BY ClearedFacts, NoJobRight, KVMoves

\* The engine is called for the request.
LEMMA CallKV ==
  ASSUME JobInv, KVInv, OwnBlocks, NEW t \in Adapter, Retrieve(t) \/ Lookup(t) \/ StoreKV(t)
  PROVE  KVInv'
<1> PICK old : old = job[t]
  OBVIOUS
<1>1. buffer' = buffer /\ Others(t)
  BY DEF Retrieve, Lookup, StoreKV, KVInv, Others
<1>2. KVRight(t, old) /\ old \in Jobs
  BY JobFacts
<1>3. CASE Retrieve(t)
  <2>1. PICK c, p : job' = [job EXCEPT ![t] = [NoJob EXCEPT !.at = "exists", !.cid = c, !.prompt = p]]
    BY <1>3 DEF Retrieve
  <2> DEFINE j == [NoJob EXCEPT !.at = "exists", !.cid = c, !.prompt = p]
  <2>2. job' = [job EXCEPT ![t] = j]
    BY <2>1
  <2>3. j.at = "exists"
    BY DEF NoJob
  <2> HIDE DEF j
  <2>4. KVRight(t, j)'
    BY <2>3 DEF KVRight
  <2> QED
    BY <1>1, <2>2, <2>4, KVMoves
<1>4. CASE Lookup(t)
  <2> DEFINE j == [old EXCEPT !.at = "load"]
  <2>1. job' = [job EXCEPT ![t] = j]
    BY <1>4 DEF Lookup, JobGoto
  <2>2. j.at = "load"
    BY <1>2 DEF Jobs
  <2> HIDE DEF j
  <2>3. KVRight(t, j)'
    BY <2>2 DEF KVRight
  <2> QED
    BY <1>1, <2>1, <2>3, KVMoves
<1>5. CASE StoreKV(t)
  <2> DEFINE j == [old EXCEPT !.at = "store"]
  <2>1. job' = [job EXCEPT ![t] = j] /\ old.at = "computed"
    BY <1>5 DEF StoreKV, JobGoto
  <2>2. j.at = "store" /\ j.prompt = old.prompt
    BY <1>2 DEF Jobs
  <2> HIDE DEF j
  <2>3. old.prompt # None /\ RightTo(t, old.prompt, Len(old.prompt))
    BY <1>2, <2>1 DEF KVRight
  <2>4. KVRight(t, j)'
    BY <1>1, <2>2, <2>3 DEF KVRight, RightTo
  <2> QED
    BY <1>1, <2>1, <2>4, KVMoves
<1> QED
  BY <1>3, <1>4, <1>5

\* What was loaded goes into the blocks.
LEMMA IntoKV ==
  ASSUME JobInv, KVInv, OwnBlocks, NEW t \in Adapter, Into(t)
  PROVE  KVInv'
<1> PICK old : old = job[t]
  OBVIOUS
<1> DEFINE j == [old EXCEPT !.at = "forward", !.payloads = <<>>]
<1>1. /\ old.at = "into" /\ job' = [job EXCEPT ![t] = j]
      /\ buffer' = Transfer!LoadInto(buffer, BlocksOf[t], [i \in DOMAIN old.payloads |-> <<old.payloads[i]>>])
  BY DEF Into
<1>2. /\ old \in Jobs /\ KVRight(t, old)
      /\ old.prompt # None =>
           Len(old.prompt) \in Nat /\ 1 .. Len(old.prompt) \subseteq DOMAIN BlocksOf[t]
  BY <1>1, JobFacts
<1>3. old.payloads \in Seq(Obj \union {None})
  BY <1>2 DEF Jobs
<1>4. DOMAIN old.payloads = 1 .. Len(old.payloads) /\ Len(old.payloads) \in Nat
  BY <1>3
<1>5. /\ Others(t)
      /\ \A i \in DOMAIN old.payloads \intersect DOMAIN BlocksOf[t] :
           buffer'[BlocksOf[t][i]] = old.payloads[i]
  BY <1>1, <1>4, LoadIntoFacts
<1>6. j.at = "forward" /\ j.prompt = old.prompt /\ j.reused = old.reused
  BY <1>2 DEF Jobs
<1> HIDE DEF j
<1>7. ASSUME old.prompt # None
      PROVE  old.reused \in 0 .. Len(old.prompt) /\ RightTo(t, old.prompt, old.reused)'
  <2>1. /\ old.reused \in 0 .. Len(old.prompt) /\ Len(old.payloads) = old.reused
        /\ \A i \in 1 .. old.reused : old.payloads[i] = Payload(old.prompt, i)
    BY <1>1, <1>2, <1>7 DEF KVRight
  <2>2. ASSUME NEW i \in 1 .. old.reused
        PROVE  i \in DOMAIN BlocksOf[t] /\ buffer'[BlocksOf[t][i]] = Payload(old.prompt, i)
    <3>1. i \in 1 .. Len(old.prompt)
      BY <1>2, <1>7, <2>1
    <3>2. i \in DOMAIN BlocksOf[t] /\ i \in DOMAIN old.payloads
      BY <1>2, <1>4, <1>7, <2>1, <3>1
    <3> QED
      BY <1>5, <2>1, <3>2
  <2> QED
    BY <2>1, <2>2 DEF RightTo
<1>8. KVRight(t, j)'
  BY <1>6, <1>7 DEF KVRight
<1> QED
  BY <1>1, <1>5, <1>8, KVMoves

\* The rest of the prompt is computed.
LEMMA ForwardKV ==
  ASSUME JobInv, KVInv, OwnBlocks, NEW t \in Adapter, Forward(t)
  PROVE  KVInv'
<1> PICK old : old = job[t]
  OBVIOUS
<1>1. CASE Done(t)
  BY <1>1, DoneKV DEF Done
<1>2. CASE ~Done(t)
  <2> PICK p : p = old.prompt
    OBVIOUS
  <2> PICK blocks : blocks = BlocksOf[t]
    OBVIOUS
  <2> DEFINE j == [old EXCEPT !.at = "computed"]
             mine(b) == {i \in DOMAIN p : i > old.reused /\ blocks[i] = b}
             kv(b) == IF mine(b) = {} THEN buffer[b] ELSE Payload(p, CHOOSE i \in mine(b) : TRUE)
  <2>1. /\ old.at = "forward" /\ p # None /\ job' = [job EXCEPT ![t] = j]
        /\ buffer' = [b \in Block |-> kv(b)]
    BY <1>2 DEF Forward, JobGoto
  <2>2. /\ old \in Jobs /\ KVRight(t, old) /\ Len(p) \in Nat /\ DOMAIN p = 1 .. Len(p)
        /\ DOMAIN p \subseteq DOMAIN blocks
    BY <2>1, JobFacts
  <2>3. old.reused \in 0 .. Len(p) /\ RightTo(t, p, old.reused)
    BY <2>1, <2>2 DEF KVRight
  <2>4. j.at = "computed" /\ j.prompt = p
    BY <2>2 DEF Jobs
  <2> HIDE DEF j
  <2>5. \A b \in Block : buffer'[b] = kv(b)
    <3> HIDE DEF kv
    <3> QED
      BY <2>1
  <2>6. ASSUME NEW b \in Block \ BlocksIn(t) PROVE kv(b) = buffer[b]
    <3>1. mine(b) = {}
      BY <2>2, <2>6 DEF BlocksIn
    <3> QED
      BY <3>1
  <2>7. ASSUME NEW i \in 1 .. Len(p) PROVE kv(blocks[i]) = Payload(p, i)
    <3>1. i \in DOMAIN p /\ i \in DOMAIN blocks
      BY <2>2
    <3>2. \A k \in mine(blocks[i]) : k = i
      BY <2>2, <3>1 DEF OwnBlocks
    <3>3. CASE i > old.reused
      <4>1. i \in mine(blocks[i])
        BY <3>1, <3>3
      <4>2. (CHOOSE k \in mine(blocks[i]) : TRUE) = i
        BY <3>2, <4>1
      <4> HIDE DEF mine
      <4> QED
        BY <4>1, <4>2
    <3>4. CASE ~(i > old.reused)
      <4>1. mine(blocks[i]) = {}
        BY <3>2, <3>4
      <4>2. i \in 1 .. old.reused
        BY <2>2, <2>3, <3>4
      <4>3. buffer[blocks[i]] = Payload(p, i)
        BY <2>3, <4>2 DEF RightTo
      <4> HIDE DEF mine
      <4> QED
        BY <4>1, <4>3
    <3> QED
      BY <3>3, <3>4
  <2> HIDE DEF kv
  <2>8. Others(t)
    <3>1. DOMAIN buffer' = Block
      BY <2>1
    <3> QED
      BY <2>5, <2>6, <3>1 DEF Others
  <2>9. RightTo(t, p, Len(p))'
    <3>1. \A i \in 1 .. Len(p) : i \in DOMAIN blocks /\ blocks[i] \in Block
      BY <2>2, BlockFacts
    <3> QED
      BY <2>5, <2>7, <3>1 DEF RightTo
  <2>10. KVRight(t, j)'
    BY <2>1, <2>4, <2>9 DEF KVRight
  <2> QED
    BY <2>1, <2>8, <2>10, KVMoves
<1> QED
  BY <1>1, <1>2

\* A load that has returned has loaded as many chunks of the request as its lookup counted.
LEMMA LoadedKV ==
  ASSUME NEW call, Fits(call), CallRight(call), AsMatched(call), call.op = "reuse", call.at = "load",
         call.todo = <<>>, call.prompt # None, Len(call.prompt) \in Nat,
         DOMAIN call.prompt = 1 .. Len(call.prompt)
  PROVE  /\ call.count \in 0 .. Len(call.prompt) /\ Len(call.out) = call.count
         /\ \A i \in 1 .. call.count : call.out[i] = Payload(call.prompt, i)
<1>1. call.out \in Seq(Obj \union {None})
  BY DEF Fits, Calling
<1>2. Len(call.out) \in Nat /\ DOMAIN call.out = 1 .. Len(call.out)
  BY <1>1
<1>3. Len(call.todo) = 0
  OBVIOUS
<1>4. Len(call.out) = call.count
  BY <1>2, <1>3 DEF AsMatched
<1>5. /\ \A i \in 1 .. call.count : i \in 1 .. Len(call.prompt)
      /\ \A i \in 1 .. call.count : call.out[i] = Payload(call.prompt, i)
  BY <1>2, <1>4 DEF CallRight
<1>6. call.count \in Nat
  BY <1>2, <1>4
<1>7. call.count \in 0 .. Len(call.prompt)
  <2>1. CASE call.count = 0
    BY <2>1
  <2>2. CASE call.count # 0
    <3>1. call.count \in 1 .. call.count
      BY <1>6, <2>2
    <3>2. call.count \in 1 .. Len(call.prompt)
      BY <1>5, <3>1
    <3> QED
      BY <3>2
  <2> QED
    BY <2>1, <2>2
<1> QED
  BY <1>4, <1>5, <1>7

\* The engine works for the request.
LEMMA InEngineKV ==
  ASSUME TypeInv, HitInv, LoadsInv, JobInv, KVInv, OwnBlocks, NEW t \in Adapter, InEngine(t)
  PROVE  KVInv'
<1> PICK old : old = job[t]
  OBVIOUS
<1> PICK call : call = proc[t]
  OBVIOUS
<1>1. Working(old, call) /\ old.at \in {"exists", "load", "store"} /\ Step(t) /\ t \in Thread
  BY AdapterAssumption DEF JobInv, InEngine
<1>2. /\ old \in Jobs /\ KVRight(t, old)
      /\ old.prompt # None => /\ Len(old.prompt) \in Nat /\ DOMAIN old.prompt = 1 .. Len(old.prompt)
  BY <1>1, JobFacts
<1>3. /\ Fits(call) /\ CallRight(call) /\ AsMatched(call)
      /\ \/ Return(t) /\ Ends(call, Outcome(t))
         \/ \E next : Goto(t, next) /\ GoesOn(call, next)
  BY <1>1, Steps DEF HitInv, LoadsInv
<1>4. \A next : Goto(t, next) => proc'[t] = next
  BY <1>1 DEF Goto, TypeInv, CallsFit
<1>5. DOMAIN job = Adapter
  BY DEF JobInv
<1>6. ASSUME buffer' = buffer PROVE Others(t)
  BY <1>6 DEF KVInv, Others
<1>7. CASE Return(t) /\ Ends(call, Outcome(t))
  <2>1. proc'[t].at = "idle"
    <3>1. Goto(t, Idle) /\ Idle.at = "idle"
      BY <1>7 DEF Return, Idle
    <3> QED
      BY <1>4, <3>1
  <2>2. Ended(t) /\ buffer' = IF job'[t].at = "idle" THEN Cleared(t) ELSE buffer
    BY <2>1 DEF InEngine
  <2>3. ASSUME NEW j, job' = [job EXCEPT ![t] = j], j.at # "idle", buffer' = buffer => KVRight(t, j)'
        PROVE  KVInv'
    <3>1. buffer' = buffer
      BY <1>5, <2>2, <2>3
    <3> QED
      BY <1>6, <2>3, <3>1, KVMoves
  <2>4. CASE old.at = "exists"
    <3>1. PICK label \in {"lookup", "forward"} : job' = [job EXCEPT ![t].at = label]
      BY <2>2, <2>4 DEF Ended, JobGoto
    <3> DEFINE j == [old EXCEPT !.at = label]
    <3>2. job' = [job EXCEPT ![t] = j]
      BY <3>1
    <3>3. j.at = label /\ j.prompt = old.prompt /\ j.reused = 0
      BY <1>1, <1>2, <2>4 DEF Working, Jobs
    <3> HIDE DEF j
    <3>4. KVRight(t, j)'
      BY <1>2, <3>3 DEF KVRight, RightTo
    <3> QED
      BY <2>3, <3>2, <3>3, <3>4
  <2>5. CASE old.at = "load" /\ Outcome(t) = "returned"
    <3> DEFINE j == [old EXCEPT !.at = "into", !.payloads = call.out, !.reused = call.count]
    <3>1. job' = [job EXCEPT ![t] = j]
      BY <2>2, <2>5 DEF Ended
    <3>2. j.at = "into" /\ j.prompt = old.prompt /\ j.payloads = call.out /\ j.reused = call.count
      BY <1>2 DEF Jobs
    <3> HIDE DEF j
    <3>3. call.op = "reuse" /\ call.prompt = old.prompt
      BY <1>1, <2>5 DEF Working
    <3>4. call.at = "load" /\ call.todo = <<>>
      BY <1>7, <2>5, <3>3 DEF Ends
    <3>5. KVRight(t, j)'
      BY <1>2, <1>3, <3>2, <3>3, <3>4, LoadedKV DEF KVRight
    <3> QED
      BY <2>3, <3>1, <3>2, <3>5
  <2>6. CASE old.at # "exists" /\ ~(old.at = "load" /\ Outcome(t) = "returned")
    <3>1. job' = [job EXCEPT ![t] = NoJob]
      BY <2>2, <2>6 DEF Ended
    <3>2. buffer' = Cleared(t)
      BY <1>5, <2>2, <3>1 DEF NoJob
    <3> QED
      BY <3>1, <3>2, DoneKV
  <2> QED
    BY <2>4, <2>5, <2>6
<1>8. ASSUME NEW next, Goto(t, next), GoesOn(call, next) PROVE KVInv'
  <2>1. proc'[t].at # "idle"
    BY <1>4, <1>8 DEF GoesOn
  <2>2. job' = job /\ buffer' = buffer
    BY <2>1 DEF InEngine
  <2> QED
    BY <2>2 DEF KVInv, KVRight, RightTo
<1> QED
  BY <1>3, <1>7, <1>8

LEMMA AdapterKV ==
  ASSUME TypeInv, HitInv, LoadsInv, JobInv, KVInv, OwnBlocks, NEW t \in Adapter, Retrieve(t) \/ Work(t)
  PROVE  KVInv'
<1>1. CASE Finish(t)
  BY <1>1, DoneKV DEF Finish, Done
<1> QED
  BY <1>1, CallKV, InEngineKV, IntoKV, ForwardKV DEF Work

AdapterInv == ControlInv /\ HitInv /\ LoadsInv /\ KVInv

LEMMA AdapterStep ==
  ASSUME OnePrompt, OwnBlocks, AdapterInv, [ServingNext]_servingVars
  PROVE  AdapterInv'
<1>1. TypeInv /\ JobInv /\ HitInv /\ LoadsInv /\ KVInv
  BY DEF AdapterInv, ControlInv
<1>2. [Moving]_vars /\ ControlInv'
  BY ControlStep DEF AdapterInv
<1>3. HitInv'
  <2>1. \A t \in Thread : NextRight(proc[t])
    BY <1>1, OneIsCompatible, CompatibleRight
  <2> QED
    BY <1>1, <1>2, <2>1, RightStep
<1>4. LoadsInv'
  BY <1>1, <1>2, LoadsStep
<1>5. ASSUME UNCHANGED <<job, buffer>> PROVE KVInv'
  BY <1>1, <1>5 DEF KVInv, KVRight, RightTo
<1>6. KVInv'
  <2>1. ASSUME NEW t \in Adapter, Retrieve(t) \/ Work(t) PROVE KVInv'
    BY <1>1, <2>1, AdapterKV
  <2> QED
    BY <1>5, <2>1 DEF ServingNext, SGLangNext, servingVars
<1> QED
  BY <1>2, <1>3, <1>4, <1>6 DEF AdapterInv

LEMMA AdapterInit == ServingInit => AdapterInv
<1> SUFFICES ASSUME ServingInit PROVE AdapterInv
  OBVIOUS
<1>1. ControlInv
  BY ControlInit
<1>2. HitInv
  BY RightInit DEF ServingInit
<1>3. LoadsInv
  BY AdapterAssumption DEF ServingInit, Init, Idle, LoadsInv, AsMatched
<1>4. KVInv
  BY NoJobRight DEF ServingInit, SGLangInit, KVInv
<1> QED
  BY <1>1, <1>2, <1>3, <1>4 DEF AdapterInv

\* "the reused token count" that retrieve returns (sglang.py:63) is that of the blocks that
\* hold the KV of the request's own prompt, while the server's handlers register, delete and
\* extend the same ids and the store evicts and loses chunks, as long as an id stands for
\* one prompt.
THEOREM RetrievedRight ==
  ASSUME OnePrompt, OwnBlocks PROVE ServingSpec => []RetrievedIsRight
<1>1. AdapterInv /\ [ServingNext]_servingVars => AdapterInv'
  BY AdapterStep
<1>2. AdapterInv => RetrievedIsRight
  BY DEF AdapterInv, KVInv, KVRight, RightTo, RetrievedIsRight
<1> QED
  BY <1>1, <1>2, AdapterInit, PTL DEF ServingSpec

\* What store saves under an id (sglang.py:44-55), reused from that or another id or
\* computed, is the KV of the tokens whose fingerprints it commits.
THEOREM StoredRight ==
  ASSUME OnePrompt, OwnBlocks PROVE ServingSpec => []StoredIsItsOwn
<1>1. AdapterInv /\ [ServingNext]_servingVars => AdapterInv'
  BY AdapterStep
<1>2. AdapterInv => StoredIsItsOwn
  <2> SUFFICES ASSUME AdapterInv, NEW t \in Adapter, job[t].at = "store", NEW p, p = proc[t].prompt
               PROVE  Transfer!SaveFrom(buffer, BlocksOf[t], Len(p))
                          = [i \in DOMAIN p |-> <<Payload(p, i)>>]
    BY DEF StoredIsItsOwn
  <2>1. KVRight(t, job[t]) /\ JobInv /\ KVInv /\ Working(job[t], proc[t])
    BY DEF AdapterInv, KVInv, ControlInv, JobInv
  <2> PICK q : q = job[t].prompt
    OBVIOUS
  <2>2. q # None /\ RightTo(t, q, Len(q))
    BY <2>1 DEF KVRight
  <2>3. q \in Seq(Chunk)
    BY <2>1, <2>2, JobFacts
  <2>4. PICK n \in DOMAIN q : p = Payload(q, n)
    BY <2>1 DEF Working
  <2>5. /\ p \in Seq(Chunk) /\ Len(p) = n /\ n \in 1 .. Len(q) /\ Len(q) \in Nat
        /\ n \in DOMAIN p
    BY <2>3, <2>4 DEF Payload
  <2>6. Payload(p, n) = p
    BY <2>5 DEF Payload
  <2>7. \A i \in 1 .. n : Payload(p, i) = Payload(q, i)
    BY <2>3, <2>4, <2>5, <2>6, PayloadPrefix
  <2>8. RightTo(t, p, Len(p))
    BY <2>2, <2>5, <2>7 DEF RightTo
  <2> QED
    BY <2>5, <2>8, SaveFromFacts
<1> QED
  BY <1>1, <1>2, AdapterInit, PTL DEF ServingSpec
=============================================================================
