------------------------- MODULE RedisBackendProofs -------------------------
(***************************************************************************)
(* Proofs about RedisBackend, for every number of clients, namespaces,     *)
(* cache ids and keys.                                                     *)
(***************************************************************************)
EXTENDS RedisBackend, SequenceTheorems, TLAPS

-----------------------------------------------------------------------------
(***************************************************************************)
(* Names.                                                                  *)
(***************************************************************************)

\* What is behind the namespace in a name, and the last two parts of it.
LastParts(k) == <<k.worker, k.index>>
OwnParts(k) == k.cid \o LastParts(k)

LEMMA Joined ==
  ASSUME NEW s \in Seq(Part), NEW t \in Seq(Part)
  PROVE  /\ s \o t \in Seq(Part) /\ Len(s \o t) = Len(s) + Len(t)
         /\ \A i \in 1 .. Len(s) + Len(t) : (s \o t)[i] = IF i <= Len(s) THEN s[i] ELSE t[i - Len(s)]
         /\ \A u \in Seq(Part) : (s \o t) \o u = s \o (t \o u)
BY ConcatProperties, ConcatAssociative

LEMMA NameParts ==
  ASSUME NEW ns \in Seq(Part), NEW k \in Key
  PROVE  /\ k.cid \in Seq(Part) /\ LastParts(k) \in Seq(Part) /\ OwnParts(k) \in Seq(Part)
         /\ Name(ns, k) \in Seq(Part)
         /\ Name(ns, k) = ns \o OwnParts(k)
         /\ Len(k.cid) \in Nat \ {0} /\ Len(LastParts(k)) = 2
         /\ Len(OwnParts(k)) = Len(k.cid) + 2
         /\ Len(Name(ns, k)) = Len(ns) + Len(OwnParts(k))
<1>1. k.cid \in Seq(Part) /\ k.cid # <<>> /\ k.worker \in Part /\ k.index \in Part
  BY PartsAssumption DEF Key
<1>2. LastParts(k) \in Seq(Part) /\ Len(LastParts(k)) = 2
  BY <1>1 DEF LastParts
<1>3. OwnParts(k) \in Seq(Part) /\ Len(OwnParts(k)) = Len(k.cid) + 2
  <2>1. /\ k.cid \o LastParts(k) \in Seq(Part)
        /\ Len(k.cid \o LastParts(k)) = Len(k.cid) + Len(LastParts(k))
    BY <1>1, <1>2, ConcatProperties
  <2> QED
    BY <1>2, <2>1, Zenon DEF OwnParts
<1>4. (ns \o k.cid) \o LastParts(k) = ns \o (k.cid \o LastParts(k))
  BY <1>1, <1>2, Joined, Zenon
<1>5. Name(ns, k) = ns \o OwnParts(k)
  BY <1>4 DEF Name, OwnParts, LastParts
<1>6. Len(k.cid) \in Nat \ {0}
  BY <1>1, EmptySeq
<1>7. ns \o OwnParts(k) \in Seq(Part) /\ Len(ns \o OwnParts(k)) = Len(ns) + Len(OwnParts(k))
  BY <1>3, ConcatProperties
<1> QED
  BY <1>1, <1>2, <1>3, <1>5, <1>6, <1>7

\* What is behind a beginning of a sequence.
LEMMA Behind ==
  ASSUME NEW s \in Seq(Part), NEW t \in Seq(Part)
  PROVE  /\ SubSeq(s \o t, 1, Len(s)) = s
         /\ SubSeq(s \o t, Len(s) + 1, Len(s \o t)) = t
<1>1. /\ s \o t \in Seq(Part) /\ Len(s \o t) = Len(s) + Len(t)
      /\ Len(s) \in Nat /\ Len(t) \in Nat
      /\ \A i \in 1 .. Len(s) + Len(t) : (s \o t)[i] = IF i <= Len(s) THEN s[i] ELSE t[i - Len(s)]
  BY ConcatProperties, LenProperties
<1>2. SubSeq(s \o t, 1, Len(s)) = s
  <2> DEFINE u == SubSeq(s \o t, 1, Len(s))
  <2>1. /\ u \in Seq(Part) /\ Len(u) = Len(s)
        /\ \A i \in 1 .. Len(s) : u[i] = (s \o t)[i]
    BY <1>1, ElementOfSeq, SubSeqProperties
  <2>2. \A i \in 1 .. Len(s) : u[i] = s[i]
    BY <1>1, <2>1
  <2> QED
    BY <2>1, <2>2, SeqEqual
<1>3. SubSeq(s \o t, Len(s) + 1, Len(s) + Len(t)) = t
  <2> DEFINE u == SubSeq(s \o t, Len(s) + 1, Len(s) + Len(t))
  <2>1. /\ u \in Seq(Part) /\ Len(u) = Len(t)
        /\ \A i \in 1 .. Len(t) : u[i] = (s \o t)[Len(s) + i]
    BY <1>1, ElementOfSeq, SubSeqProperties
  <2>2. \A i \in 1 .. Len(t) : u[i] = t[i]
    BY <1>1, <2>1
  <2> QED
    BY <2>1, <2>2, SeqEqual
<1> QED
  BY <1>1, <1>2, <1>3

\* A name is parsed in its own namespace into the key it was made from.
LEMMA ParseName ==
  ASSUME NEW ns \in Seq(Part), NEW k \in Key
  PROVE  Parse(ns, Name(ns, k)) = k
<1> DEFINE name == Name(ns, k)
           rest == SubSeq(name, Len(ns) + 1, Len(name))
           n == Len(rest)
<1>1. k = [cid |-> k.cid, worker |-> k.worker, index |-> k.index]
  BY DEF Key
<1>2. /\ name = ns \o OwnParts(k) /\ OwnParts(k) \in Seq(Part) /\ Len(OwnParts(k)) = Len(k.cid) + 2
      /\ k.cid \in Seq(Part) /\ LastParts(k) \in Seq(Part) /\ Len(LastParts(k)) = 2
      /\ Len(k.cid) \in Nat \ {0} /\ Len(name) = Len(ns) + Len(OwnParts(k)) /\ Len(ns) \in Nat
  BY NameParts, LenProperties
<1>3. SubSeq(name, 1, Len(ns)) = ns /\ rest = OwnParts(k)
  BY <1>2, Behind
<1>4. Ext!IsPrefix(ns, name)
  <2>1. SubSeq(ns, 1, Len(ns)) = ns
    BY SubSeqFull
  <2> QED
    BY <1>2, <1>3, <2>1 DEF Ext!IsPrefix
<1>5. n = Len(k.cid) + 2 /\ n > 2
  BY <1>2, <1>3
<1>6. SubSeq(rest, 1, n - 2) = k.cid
  <2>1. SubSeq(k.cid \o LastParts(k), 1, Len(k.cid)) = k.cid
    BY <1>2, Behind
  <2>2. n - 2 = Len(k.cid)
    BY <1>2, <1>5
  <2> QED
    BY <1>3, <2>1, <2>2 DEF OwnParts
<1>7. rest[n - 1] = k.worker /\ rest[n] = k.index
  <2>1. \A i \in 1 .. Len(k.cid) + 2 : OwnParts(k)[i] =
           IF i <= Len(k.cid) THEN k.cid[i] ELSE LastParts(k)[i - Len(k.cid)]
    BY <1>2, Joined DEF OwnParts
  <2>2. ASSUME NEW i \in {1, 2} PROVE OwnParts(k)[Len(k.cid) + i] = LastParts(k)[i]
    <3>1. /\ Len(k.cid) + i \in 1 .. Len(k.cid) + 2 /\ ~(Len(k.cid) + i <= Len(k.cid))
          /\ (Len(k.cid) + i) - Len(k.cid) = i
      BY <1>2
    <3> QED
      BY <2>1, <3>1
  <2>3. LastParts(k)[1] = k.worker /\ LastParts(k)[2] = k.index
    BY DEF LastParts
  <2>4. n - 1 = Len(k.cid) + 1 /\ n = Len(k.cid) + 2
    BY <1>2, <1>5
  <2> QED
    BY <1>3, <2>2, <2>3, <2>4
<1>8. Parse(ns, name) = IF Ext!IsPrefix(ns, name) /\ n > 2
        THEN [cid |-> SubSeq(rest, 1, n - 2), worker |-> rest[n - 1], index |-> rest[n]]
        ELSE None
  BY DEF Parse
<1> HIDE DEF name, rest, n
<1>9. Parse(ns, name) = k
  BY <1>1, <1>4, <1>5, <1>6, <1>7, <1>8
<1> QED
  BY <1>9 DEF name

\* A name is parsed in another namespace into nothing.
LEMMA ParseOther ==
  ASSUME NEW m \in Namespace, NEW ns \in Namespace, NEW k \in Key,
         Ext!IsPrefix(ns, Name(m, k))
  PROVE  m = ns
<1> DEFINE name == Name(m, k)
<1>1. m \in Seq(Part) /\ ns \in Seq(Part)
  BY PartsAssumption DEF Namespace
<1>2. /\ name = m \o OwnParts(k) /\ OwnParts(k) \in Seq(Part) /\ name \in Seq(Part)
      /\ Len(m) \in Nat /\ Len(ns) \in Nat /\ Len(name) \in Nat /\ Len(m) <= Len(name)
  <2>1. /\ name = m \o OwnParts(k) /\ OwnParts(k) \in Seq(Part) /\ name \in Seq(Part)
        /\ Len(name) = Len(m) + Len(OwnParts(k))
    BY <1>1, NameParts
  <2>2. Len(m) \in Nat /\ Len(ns) \in Nat /\ Len(OwnParts(k)) \in Nat
    BY <1>1, <2>1, LenProperties
  <2> QED
    BY <2>1, <2>2
<1>3. SubSeq(name, 1, Len(m)) = m
  BY <1>1, <1>2, Behind
<1>4. SubSeq(ns, 1, Len(ns)) = ns /\ SubSeq(m, 1, Len(m)) = m
  BY <1>1, SubSeqFull
<1>5. Len(ns) <= Len(name) /\ SubSeq(name, 1, Len(ns)) = ns
  BY <1>4 DEF Ext!IsPrefix
<1>6. \A i \in 1 .. Len(m) : m[i] = name[i]
  BY <1>2, <1>3, ElementOfSeq, SubSeqProperties
<1>7. \A i \in 1 .. Len(ns) : ns[i] = name[i]
  BY <1>2, <1>5, ElementOfSeq, SubSeqProperties
<1>8. ASSUME NEW s \in Seq(Part), NEW t \in Seq(Part), Len(s) <= Len(t),
             \A i \in 1 .. Len(s) : s[i] = t[i]
      PROVE  Ext!IsPrefix(s, t)
  <2> DEFINE u == SubSeq(t, 1, Len(s))
  <2>1. Len(s) \in Nat /\ Len(t) \in Nat
    BY LenProperties
  <2>2. \A i \in 1 .. Len(s) : t[i] \in Part
    BY <1>8, <2>1, ElementOfSeq
  <2>3. u \in Seq(Part) /\ Len(u) = Len(s) /\ \A i \in 1 .. Len(s) : u[i] = t[i]
    BY <2>1, <2>2, SubSeqProperties
  <2>4. u = s
    BY <1>8, <2>3, SeqEqual
  <2>5. SubSeq(s, 1, Len(s)) = s
    BY SubSeqFull
  <2> QED
    BY <1>8, <2>4, <2>5 DEF Ext!IsPrefix
<1>9. Ext!IsPrefix(m, ns) \/ Ext!IsPrefix(ns, m)
  <2>1. CASE Len(m) <= Len(ns)
    BY <1>1, <1>2, <1>6, <1>7, <1>8, <2>1
  <2>2. CASE Len(ns) <= Len(m)
    BY <1>1, <1>2, <1>6, <1>7, <1>8, <2>2
  <2> QED
    BY <1>2, <2>1, <2>2
<1> QED
  BY <1>9, NamespacesApart

\* A name is the name of one key in one namespace.
LEMMA OneName ==
  ASSUME NEW m \in Namespace, NEW ns \in Namespace, NEW j \in Key, NEW k \in Key,
         Name(m, j) = Name(ns, k)
  PROVE  m = ns /\ j = k
<1>1. m \in Seq(Part) /\ ns \in Seq(Part)
  BY PartsAssumption DEF Namespace
<1>2. Parse(ns, Name(ns, k)) = k
  BY <1>1, ParseName
<1>3. Ext!IsPrefix(ns, Name(m, j))
  BY <1>2, NoneIsNoKey DEF Parse
<1>4. m = ns
  BY <1>3, ParseOther
<1> QED
  BY <1>1, <1>4, ParseName

\* What clear parses in its namespace are the keys it holds there.
LEMMA Parsed ==
  ASSUME NEW ns \in Namespace, NEW name \in Names, Parse(ns, name) # None
  PROVE  Parse(ns, name) \in Key /\ name = Name(ns, Parse(ns, name))
<1>1. PICK m \in Namespace, k \in Key : name = Name(m, k)
  BY DEF Names
<1>2. m = ns
  BY <1>1, ParseOther DEF Parse
<1>3. ns \in Seq(Part)
  BY PartsAssumption DEF Namespace
<1> QED
  BY <1>1, <1>2, <1>3, ParseName

-----------------------------------------------------------------------------
(***************************************************************************)
(* The inductive invariant.                                                *)
(***************************************************************************)
NamesOf(c) == {Name(NamespaceOf[c], k) : k \in Key}

Label == {"idle", "set", "persist", "get", "remove", "pin", "unpin", "scan", "next"}
Method == {"none", "put", "get", "remove", "pin", "unpin", "clear"}
CallRecord == [at : Label, op : Method, name : Names \union {None}, obj : Obj \union {None},
               pin : BOOLEAN, rest : SUBSET Key, due : SUBSET Names, raced : BOOLEAN]

\* A call is in the method it began with and keeps its arguments.
Fits(c, at, op, name, obj, pin) ==
    /\ at \in {"set", "persist"} => op = "put" /\ obj \in Obj
    /\ at = "persist" => pin
    /\ at \in {"get", "remove", "pin", "unpin"} => op = at
    /\ at \in {"scan", "next"} => op = "clear"
    /\ op \in {"put", "get", "remove", "pin", "unpin"} => name \in NamesOf(c)
    /\ op = "none" => at = "idle"

WellCalled(c, call) == /\ call \in CallRecord
                       /\ Fits(c, call.at, call.op, call.name, call.obj, call.pin)

CallsInv == proc \in [Client -> CallRecord] /\ \A c \in Client : WellCalled(c, proc[c])

StoreInv == kv \in [Names -> Obj \union {None}] /\ expiring \subseteq Names

\* A pledged name is held without an expiry and no call under way takes its pin back;
\* one that is about to be pledged is raced if there is such a call.
Pledging(c) == proc[c].op = "pin" \/ (proc[c].op = "put" /\ proc[c].pin)

PledgeInv ==
    /\ pledged \subseteq Names /\ PledgedStays
    /\ \A n \in pledged, c \in Client : n \notin Retracts(c, proc[c])
    /\ \A c \in Client, e \in Client :
         Pledging(c) /\ e # c /\ proc[c].name \in Retracts(e, proc[e]) => proc[c].raced

\* What clear has found and nobody has put again is gone or on its list.
ClearInv == \A c \in Client : At(c, "next") =>
              \A n \in proc[c].due :
                 kv[n] # None => \E k \in proc[c].rest : n = Name(NamespaceOf[c], k)

Inv == CallsInv /\ StoreInv /\ PledgeInv

-----------------------------------------------------------------------------
(***************************************************************************)
(* Calls.                                                                  *)
(***************************************************************************)
LEMMA NamesOfNames == \A c \in Client : NamesOf(c) \subseteq Names /\ NamespaceOf[c] \in Namespace
BY DEF NamesOf, Names, Namespace

\* What a call takes back depends on its method and arguments alone.
LEMMA RetractsSame ==
  ASSUME NEW c, NEW call, NEW other,
         other.op = call.op, other.name = call.name, other.pin = call.pin
  PROVE  Retracts(c, other) = Retracts(c, call)
BY DEF Retracts

LEMMA IdleCall ==
  /\ Idle.at = "idle" /\ Idle.op = "none" /\ Idle.due = {}
  /\ \A c \in Client : WellCalled(c, Idle) /\ Retracts(c, Idle) = {}
BY DEF WellCalled, Fits, Idle, CallRecord, Label, Method, Retracts

\* What a command of c may do to the calls.
Proceeds(c) ==
    /\ \A d \in Client \ {c} :
         /\ proc'[d].at = proc[d].at /\ proc'[d].op = proc[d].op /\ proc'[d].name = proc[d].name
         /\ proc'[d].pin = proc[d].pin /\ proc'[d].raced = proc[d].raced
         /\ proc'[d].rest = proc[d].rest /\ proc'[d].due \subseteq proc[d].due
    /\ \/ proc'[c] = Idle
       \/ /\ proc'[c].op = proc[c].op /\ proc'[c].name = proc[c].name
          /\ proc'[c].pin = proc[c].pin /\ proc'[c].raced = proc[c].raced

LEMMA Changes ==
  ASSUME CallsInv, NEW c \in Client, NEW call, WellCalled(c, call),
         proc' = [proc EXCEPT ![c] = call]
  PROVE  /\ CallsInv' /\ proc'[c] = call
         /\ \A d \in Client \ {c} : proc'[d] = proc[d]
BY DEF CallsInv, WellCalled

LEMMA Returns ==
  ASSUME CallsInv, NEW c \in Client, Return(c)
  PROVE  CallsInv' /\ Proceeds(c) /\ proc'[c] = Idle /\ \A d \in Client \ {c} : proc'[d] = proc[d]
BY Changes, IdleCall DEF Return, Proceeds

LEMMA SetCalls ==
  ASSUME CallsInv, NEW c \in Client, PutSet(c)
  PROVE  /\ CallsInv' /\ Proceeds(c)
         /\ \A d \in Client \ {c} : proc'[d].due = proc[d].due \ {proc[c].name}
         /\ proc'[c].at \in {"persist", "idle"}
<1> DEFINE n == proc[c].name
<1>1. /\ DOMAIN proc' = Client /\ proc' = [d \in Client |-> proc'[d]]
      /\ \A d \in Client \ {c} : proc'[d] = [proc[d] EXCEPT !.due = proc[d].due \ {n}]
      /\ proc'[c] = IF proc[c].pin THEN [proc[c] EXCEPT !.at = "persist"] ELSE Idle
  BY DEF PutSet
<1>2. ASSUME NEW d \in Client \ {c}
      PROVE  /\ WellCalled(d, proc'[d])
             /\ proc'[d].at = proc[d].at /\ proc'[d].op = proc[d].op /\ proc'[d].name = proc[d].name
             /\ proc'[d].pin = proc[d].pin /\ proc'[d].raced = proc[d].raced
             /\ proc'[d].rest = proc[d].rest /\ proc'[d].due = proc[d].due \ {n}
             /\ proc'[d] \in CallRecord
  <2>1. proc[d] \in CallRecord /\ Fits(d, proc[d].at, proc[d].op, proc[d].name, proc[d].obj, proc[d].pin)
    BY DEF CallsInv, WellCalled
  <2>2. proc[d].due \ {n} \in SUBSET Names
    BY <2>1 DEF CallRecord
  <2>3. /\ proc'[d] \in CallRecord
        /\ proc'[d].at = proc[d].at /\ proc'[d].op = proc[d].op /\ proc'[d].name = proc[d].name
        /\ proc'[d].pin = proc[d].pin /\ proc'[d].raced = proc[d].raced /\ proc'[d].obj = proc[d].obj
        /\ proc'[d].rest = proc[d].rest /\ proc'[d].due = proc[d].due \ {n}
    BY <1>1, <2>1, <2>2 DEF CallRecord
  <2> QED
    BY <2>1, <2>3 DEF WellCalled
<1>3. CASE ~proc[c].pin
  <2>1. proc'[c] = Idle
    BY <1>1, <1>3
  <2>2. CallsInv'
    BY <1>1, <1>2, <2>1, IdleCall DEF CallsInv, WellCalled
  <2> QED
    BY <1>2, <2>1, <2>2, IdleCall DEF Proceeds
<1>4. CASE proc[c].pin
  <2> DEFINE call == [proc[c] EXCEPT !.at = "persist"]
  <2>1. proc[c] \in CallRecord /\ Fits(c, proc[c].at, proc[c].op, proc[c].name, proc[c].obj, proc[c].pin)
    BY DEF CallsInv, WellCalled
  <2>2. /\ call \in CallRecord /\ call.at = "persist" /\ call.op = proc[c].op
        /\ call.name = proc[c].name /\ call.obj = proc[c].obj
        /\ call.pin = proc[c].pin /\ call.raced = proc[c].raced
    BY <2>1 DEF CallRecord, Label
  <2>3. proc'[c] = call
    BY <1>1, <1>4
  <2> HIDE DEF call
  <2>4. WellCalled(c, call)
    BY <1>4, <2>1, <2>2 DEF WellCalled, Fits, PutSet, At
  <2>5. CallsInv'
    BY <1>1, <1>2, <2>3, <2>4 DEF CallsInv, WellCalled
  <2> QED
    BY <1>2, <2>2, <2>3, <2>5 DEF Proceeds
<1> QED
  BY <1>3, <1>4

\* The call a client is in, wherever it is.
LEMMA Arguments ==
  ASSUME CallsInv, NEW c \in Client
  PROVE  /\ Fits(c, proc[c].at, proc[c].op, proc[c].name, proc[c].obj, proc[c].pin)
         /\ proc[c] \in CallRecord
         /\ proc[c].op \in {"put", "get", "remove", "pin", "unpin"} => proc[c].name \in Names
         /\ proc[c].rest \subseteq Key /\ proc[c].due \subseteq Names
<1>1. Fits(c, proc[c].at, proc[c].op, proc[c].name, proc[c].obj, proc[c].pin) /\ proc[c] \in CallRecord
  BY DEF CallsInv, WellCalled
<1> QED
  BY <1>1, NamesOfNames DEF Fits, CallRecord

\* Scanned are the keys of the client's namespace that hold an object.
LEMMA Scanned ==
  ASSUME NEW c \in Client
  PROVE  LET listed == {Parse(NamespaceOf[c], n) : n \in {m \in Names : kv[m] # None}} \ {None}
         IN  /\ listed \subseteq Key
             /\ \A k \in Key : kv[Name(NamespaceOf[c], k)] # None => k \in listed
<1>1. NamespaceOf[c] \in Namespace /\ NamespaceOf[c] \in Seq(Part)
  BY PartsAssumption DEF Namespace
<1>2. \A k \in Key : Name(NamespaceOf[c], k) \in Names /\ Parse(NamespaceOf[c], Name(NamespaceOf[c], k)) = k
  BY <1>1, ParseName DEF Names
<1>3. \A n \in Names : Parse(NamespaceOf[c], n) # None => Parse(NamespaceOf[c], n) \in Key
  BY <1>1, Parsed
<1> QED
  BY <1>2, <1>3, NoneIsNoKey

LEMMA ScanCalls ==
  ASSUME CallsInv, NEW c \in Client, Scan(c)
  PROVE  /\ CallsInv' /\ Proceeds(c)
         /\ proc'[c].due = {n \in NamesOf(c) : kv[n] # None}
         /\ \A k \in Key : kv[Name(NamespaceOf[c], k)] # None => k \in proc'[c].rest
         /\ \A d \in Client \ {c} : proc'[d] = proc[d]
<1> DEFINE listed == {Parse(NamespaceOf[c], n) : n \in {m \in Names : kv[m] # None}} \ {None}
           found == {n \in NamesOf(c) : kv[n] # None}
           call == [proc[c] EXCEPT !.at = "next", !.rest = listed, !.due = found]
<1>1. proc' = [proc EXCEPT ![c] = call]
  BY DEF Scan, NamesOf
<1>2. listed \in SUBSET Key /\ found \in SUBSET Names /\ "next" \in Label
  BY Scanned, NamesOfNames DEF Label
<1>3. \A k \in Key : kv[Name(NamespaceOf[c], k)] # None => k \in listed
  BY Scanned
<1> HIDE DEF listed, found
<1>4. /\ call \in CallRecord /\ call.at = "next" /\ call.op = proc[c].op
      /\ call.name = proc[c].name /\ call.obj = proc[c].obj /\ call.pin = proc[c].pin
      /\ call.raced = proc[c].raced /\ call.rest = listed /\ call.due = found
  BY <1>2, Arguments DEF CallRecord
<1> HIDE DEF call
<1>5. WellCalled(c, call)
  BY <1>4, Arguments DEF WellCalled, Fits, Scan, At
<1>6. CallsInv' /\ proc'[c] = call /\ \A d \in Client \ {c} : proc'[d] = proc[d]
  BY <1>1, <1>5, Changes
<1> QED
  BY <1>3, <1>4, <1>6 DEF Proceeds, found

LEMMA ClearCalls ==
  ASSUME CallsInv, NEW c \in Client, ClearNext(c), proc[c].rest # {}
  PROVE  /\ CallsInv' /\ Proceeds(c)
         /\ \A d \in Client \ {c} : proc'[d] = proc[d]
         /\ proc[c].op = "clear"
         /\ \E k \in Key : /\ k \in proc[c].rest
                           /\ Delete(Name(NamespaceOf[c], k))
                           /\ proc'[c].rest = proc[c].rest \ {k}
                           /\ proc'[c].at = "next" /\ proc'[c].due = proc[c].due
<1>1. PICK k \in proc[c].rest :
        /\ IF Name(NamespaceOf[c], k) \in Names
           THEN Delete(Name(NamespaceOf[c], k)) ELSE UNCHANGED <<kv, expiring>>
        /\ proc' = [proc EXCEPT ![c].rest = @ \ {k}]
  BY DEF ClearNext
<1>2. k \in Key /\ proc[c].rest \subseteq Key /\ At(c, "next") /\ proc[c] \in CallRecord
  BY Arguments DEF ClearNext
<1>3. Name(NamespaceOf[c], k) \in Names
  BY <1>2, NamesOfNames DEF NamesOf
<1> DEFINE left == proc[c].rest \ {k}
           call == [proc[c] EXCEPT !.rest = left]
<1>4. proc' = [proc EXCEPT ![c] = call] /\ left \in SUBSET Key
  BY <1>1, <1>2
<1> HIDE DEF left
<1>5. /\ call \in CallRecord /\ call.at = proc[c].at /\ call.op = proc[c].op
      /\ call.name = proc[c].name /\ call.obj = proc[c].obj /\ call.pin = proc[c].pin
      /\ call.raced = proc[c].raced /\ call.rest = left /\ call.due = proc[c].due
  BY <1>2, <1>4 DEF CallRecord
<1> HIDE DEF call
<1>6. WellCalled(c, call)
  BY <1>5, Arguments DEF WellCalled
<1>7. CallsInv' /\ proc'[c] = call /\ \A d \in Client \ {c} : proc'[d] = proc[d]
  BY <1>4, <1>6, Changes
<1>8. proc[c].op = "clear"
  BY <1>2, Arguments DEF Fits, At
<1> QED
  BY <1>1, <1>2, <1>3, <1>5, <1>7, <1>8 DEF Proceeds, left, At

\* The commands of a client.
Step(c) == \/ BreakOff(c) \/ PutSet(c) \/ PutPersist(c) \/ Get(c) \/ Remove(c)
           \/ PinKey(c) \/ UnpinKey(c) \/ Scan(c) \/ ClearNext(c)

LEMMA StepCalls ==
  ASSUME CallsInv, NEW c \in Client, Step(c)
  PROVE  CallsInv' /\ Proceeds(c)
<1>1. CASE Return(c)
  BY <1>1, Returns
<1>2. CASE PutSet(c)
  BY <1>2, SetCalls
<1>3. CASE Scan(c)
  BY <1>3, ScanCalls
<1>4. CASE ClearNext(c) /\ proc[c].rest # {}
  BY <1>4, ClearCalls
<1> QED
  BY <1>1, <1>2, <1>3, <1>4 DEF Step, BreakOff, PutPersist, Get, Remove, PinKey, UnpinKey, ClearNext

\* A call that begins is noted as raced when one under way takes pins of its name back,
\* and notes itself in the others likewise.
LEMMA Begins ==
  ASSUME CallsInv, NEW c \in Client, NEW call, Begin(c, call), WellCalled(c, call)
  PROVE  /\ CallsInv'
         /\ proc'[c].at = call.at /\ proc'[c].op = call.op /\ proc'[c].name = call.name
         /\ proc'[c].pin = call.pin
         /\ proc'[c].raced = \E e \in Client \ {c} : call.name \in Retracts(e, proc[e])
         /\ \A d \in Client \ {c} :
              /\ proc'[d].at = proc[d].at /\ proc'[d].op = proc[d].op
              /\ proc'[d].name = proc[d].name /\ proc'[d].pin = proc[d].pin
              /\ proc'[d].rest = proc[d].rest /\ proc'[d].due = proc[d].due
              /\ proc'[d].raced = (proc[d].raced \/ proc[d].name \in Retracts(c, call))
<1> DEFINE r == \E e \in Client \ {c} : call.name \in Retracts(e, proc[e])
           s(d) == proc[d].raced \/ proc[d].name \in Retracts(c, call)
<1>1. /\ proc'[c] = [call EXCEPT !.raced = r]
      /\ \A d \in Client \ {c} : proc'[d] = [proc[d] EXCEPT !.raced = s(d)]
      /\ DOMAIN proc' = Client
      /\ proc' = [d \in Client |-> proc'[d]]
  BY DEF Begin
<1>2. r \in BOOLEAN /\ \A d \in Client : s(d) \in BOOLEAN
  OBVIOUS
<1> HIDE DEF r, s
<1>3. /\ proc'[c] \in CallRecord
      /\ proc'[c].at = call.at /\ proc'[c].op = call.op /\ proc'[c].name = call.name
      /\ proc'[c].obj = call.obj /\ proc'[c].pin = call.pin /\ proc'[c].raced = r
  BY <1>1, <1>2 DEF WellCalled, CallRecord
<1>4. ASSUME NEW d \in Client \ {c}
      PROVE  /\ proc'[d] \in CallRecord
             /\ proc'[d].at = proc[d].at /\ proc'[d].op = proc[d].op
             /\ proc'[d].name = proc[d].name /\ proc'[d].obj = proc[d].obj
             /\ proc'[d].pin = proc[d].pin /\ proc'[d].raced = s(d)
             /\ proc'[d].rest = proc[d].rest /\ proc'[d].due = proc[d].due
  <2>1. proc[d] \in CallRecord /\ proc'[d] = [proc[d] EXCEPT !.raced = s(d)] /\ s(d) \in BOOLEAN
    BY <1>1, <1>2 DEF CallsInv
  <2> QED
    BY <2>1 DEF CallRecord
<1>5. CallsInv'
  <2>1. \A d \in Client : WellCalled(d, proc'[d])
    BY <1>3, <1>4 DEF WellCalled, CallsInv
  <2> QED
    BY <1>1, <2>1 DEF WellCalled, CallsInv
<1> QED
  BY <1>3, <1>4, <1>5 DEF r, s

LEMMA CallBegins ==
  ASSUME CallsInv, NEW c \in Client, Call(c)
  PROVE  \E call : Begin(c, call) /\ WellCalled(c, call) /\ call.at # "next"
<1> DEFINE put(k, o, p) == [Idle EXCEPT !.at = "set", !.op = "put", !.name = Name(NamespaceOf[c], k),
                                        !.obj = o, !.pin = p]
           use(k, op) == [Idle EXCEPT !.at = op, !.op = op, !.name = Name(NamespaceOf[c], k)]
           clr == [Idle EXCEPT !.at = "scan", !.op = "clear"]
<1>1. ASSUME NEW k \in Key, NEW o \in Obj, NEW p \in PinChoices
      PROVE  WellCalled(c, put(k, o, p)) /\ put(k, o, p).at # "next"
  <2>1. Name(NamespaceOf[c], k) \in NamesOf(c) /\ Name(NamespaceOf[c], k) \in Names /\ p \in BOOLEAN
    BY RedisChoicesAssumption, NamesOfNames DEF NamesOf
  <2>2. /\ put(k, o, p) \in CallRecord
        /\ put(k, o, p).at = "set" /\ put(k, o, p).op = "put"
        /\ put(k, o, p).name = Name(NamespaceOf[c], k) /\ put(k, o, p).obj = o
    BY <2>1 DEF Idle, CallRecord, Label, Method
  <2> HIDE DEF put
  <2> QED
    BY <2>1, <2>2 DEF WellCalled, Fits
<1>2. ASSUME NEW k \in Key, NEW op \in OpsOf[c] \ {"put", "clear"}
      PROVE  WellCalled(c, use(k, op)) /\ use(k, op).at # "next"
  <2>1. op \in {"get", "remove", "pin", "unpin"}
    BY RedisOpsAssumption
  <2>2. op \in Label /\ op \in Method
    BY <2>1 DEF Label, Method
  <2>3. Name(NamespaceOf[c], k) \in NamesOf(c) /\ Name(NamespaceOf[c], k) \in Names
    BY NamesOfNames DEF NamesOf
  <2>4. /\ use(k, op) \in CallRecord
        /\ use(k, op).at = op /\ use(k, op).op = op /\ use(k, op).name = Name(NamespaceOf[c], k)
    BY <2>2, <2>3 DEF Idle, CallRecord
  <2> HIDE DEF use
  <2> QED
    BY <2>1, <2>3, <2>4 DEF WellCalled, Fits
<1>3. WellCalled(c, clr) /\ clr.at = "scan"
  BY DEF WellCalled, Fits, Idle, CallRecord, Label, Method
<1>4. \/ \E k \in Key, o \in Obj, p \in PinChoices : Begin(c, put(k, o, p))
      \/ \E k \in Key, op \in OpsOf[c] \ {"put", "clear"} : Begin(c, use(k, op))
      \/ Begin(c, clr)
  BY DEF Call
<1> HIDE DEF put, use, clr
<1> QED
  BY <1>1, <1>2, <1>3, <1>4

-----------------------------------------------------------------------------
(***************************************************************************)
(* Pledges.                                                                *)
(***************************************************************************)

\* A command takes back no more than the call it belongs to, and a call that pledges
\* stays what it was until it returns.
LEMMA ProceedsLess ==
  ASSUME NEW c \in Client, Proceeds(c), NEW d \in Client
  PROVE  /\ Retracts(d, proc'[d]) \subseteq Retracts(d, proc[d])
         /\ Pledging(d)' => /\ Pledging(d) /\ proc'[d].name = proc[d].name
                            /\ proc'[d].raced = proc[d].raced
<1>1. CASE proc'[d] = Idle
  BY <1>1, IdleCall DEF Pledging
<1>2. CASE /\ proc'[d].op = proc[d].op /\ proc'[d].name = proc[d].name
           /\ proc'[d].pin = proc[d].pin /\ proc'[d].raced = proc[d].raced
  BY <1>2, RetractsSame DEF Pledging
<1> QED
  BY <1>1, <1>2 DEF Proceeds

LEMMA PledgeKept ==
  ASSUME PledgeInv, NEW c \in Client, Proceeds(c), pledged' \subseteq Names, PledgedStays',
         \A n \in pledged' \ pledged, d \in Client : n \notin Retracts(d, proc'[d])
  PROVE  PledgeInv'
<1>1. \A n \in pledged', d \in Client : n \notin Retracts(d, proc'[d])
  BY ProceedsLess DEF PledgeInv
<1>2. ASSUME NEW d \in Client, NEW e \in Client, Pledging(d)', e # d,
             proc'[d].name \in Retracts(e, proc'[e])
      PROVE  proc'[d].raced
  BY <1>2, ProceedsLess DEF PledgeInv
<1> QED
  BY <1>1, <1>2 DEF PledgeInv, Pledging

\* The keys of a namespace that a call deletes or unpins are among those it takes back.
LEMMA StepKeepsInv ==
  ASSUME Inv, NEW c \in Client, Step(c)
  PROVE  Inv'
<1> DEFINE name == proc[c].name
<1>1. CallsInv /\ CallsInv' /\ Proceeds(c)
  BY StepCalls DEF Inv
<1>2. /\ Fits(c, proc[c].at, proc[c].op, proc[c].name, proc[c].obj, proc[c].pin)
      /\ proc[c].op \in {"put", "get", "remove", "pin", "unpin"} => name \in Names
  BY <1>1, Arguments
<1>3. /\ kv \in [Names -> Obj \union {None}] /\ expiring \subseteq Names /\ pledged \subseteq Names
      /\ \A n \in pledged : kv[n] # None /\ n \notin expiring /\ n \notin Retracts(c, proc[c])
  BY DEF Inv, StoreInv, PledgeInv, PledgedStays
<1>4. ASSUME kv' \in [Names -> Obj \union {None}], expiring' \subseteq Names, UNCHANGED pledged,
             \A n \in pledged : kv'[n] # None /\ n \notin expiring'
      PROVE  Inv'
  <2>1. pledged' \subseteq Names /\ PledgedStays'
    BY <1>3, <1>4 DEF PledgedStays
  <2>2. PledgeInv'
    BY <1>1, <1>4, <2>1, PledgeKept DEF Inv
  <2> QED
    BY <1>1, <1>4, <2>2 DEF Inv, StoreInv
<1>5. ASSUME NEW n \in Names, Delete(n), UNCHANGED pledged, n \in Retracts(c, proc[c]) PROVE Inv'
  BY <1>3, <1>4, <1>5 DEF Delete
<1>6. ASSUME Pledging(c), name \in Names, proc'[c] = Idle, Pledge(c), UNCHANGED kv,
             expiring' = expiring \ {name}
      PROVE  Inv'
  <2>1. pledged' \subseteq Names /\ PledgedStays'
    BY <1>3, <1>6 DEF Pledge, PledgedStays
  <2>2. ASSUME NEW n \in pledged' \ pledged, NEW d \in Client
        PROVE  n \notin Retracts(d, proc'[d])
    <3>1. n = name /\ ~proc[c].raced
      BY <2>2 , <1>6 DEF Pledge
    <3>2. CASE d = c
      BY <1>6, <3>2, IdleCall
    <3>3. CASE d # c
      BY <1>1, <1>6, <3>1, <3>3, ProceedsLess DEF Inv, PledgeInv
    <3> QED
      BY <3>2, <3>3
  <2>3. PledgeInv'
    BY <1>1, <2>1, <2>2, PledgeKept DEF Inv
  <2> QED
    BY <1>1, <1>3, <1>6, <2>3 DEF Inv, StoreInv
<1>7. CASE BreakOff(c) \/ Get(c) \/ Scan(c) \/ (ClearNext(c) /\ proc[c].rest = {})
  BY <1>3, <1>4, <1>7 DEF BreakOff, Get, Scan, ClearNext
<1>8. CASE PutSet(c)
  <2>1. /\ name \in Names /\ proc[c].obj \in Obj /\ proc[c].op = "put"
        /\ kv' = [kv EXCEPT ![name] = proc[c].obj] /\ UNCHANGED pledged
        /\ expiring' = IF c \in HasTTL /\ ~proc[c].pin THEN expiring \union {name}
                       ELSE expiring \ {name}
    BY <1>2, <1>8 DEF PutSet, At, Fits
  <2>2. ~proc[c].pin => name \in Retracts(c, proc[c])
    BY <2>1 DEF Retracts
  <2> QED
    BY <1>3, <1>4, <2>1, <2>2, RedisChoicesAssumption
<1>9. CASE PutPersist(c)
  BY <1>1, <1>2, <1>6, <1>9, Returns DEF PutPersist, At, Fits, Pledging
<1>10. CASE PinKey(c)
  BY <1>1, <1>2, <1>6, <1>10, Returns DEF PinKey, At, Fits, Pledging
<1>11. CASE Remove(c)
  <2>1. proc[c].op = "remove" /\ name \in Names
    BY <1>2, <1>11 DEF Remove, At, Fits
  <2> QED
    BY <1>5, <1>11, <2>1 DEF Remove, Retracts
<1>12. CASE UnpinKey(c)
  <2>1. proc[c].op = "unpin" /\ name \in Names
    BY <1>2, <1>12 DEF UnpinKey, At, Fits
  <2>2. name \in Retracts(c, proc[c])
    BY <2>1 DEF Retracts
  <2> QED
    BY <1>3, <1>4, <1>12, <2>1, <2>2 DEF UnpinKey
<1>13. CASE ClearNext(c) /\ proc[c].rest # {}
  <2>1. PICK k \in Key : Delete(Name(NamespaceOf[c], k))
    BY <1>1, <1>13, ClearCalls
  <2>2. Name(NamespaceOf[c], k) \in Retracts(c, proc[c])
    BY <1>1, <1>13, ClearCalls DEF Retracts
  <2> QED
    BY <1>5, <1>13, <2>1, <2>2, NamesOfNames DEF ClearNext, NamesOf
<1> QED
  BY <1>7, <1>8, <1>9, <1>10, <1>11, <1>12, <1>13 DEF Step

LEMMA CallKeepsInv ==
  ASSUME Inv, NEW c \in Client, Call(c)
  PROVE  Inv'
<1>1. CallsInv
  BY DEF Inv
<1>2. PICK call : Begin(c, call) /\ WellCalled(c, call) /\ call.at # "next"
  BY <1>1, CallBegins
<1>3. /\ CallsInv'
      /\ proc'[c].op = call.op /\ proc'[c].name = call.name /\ proc'[c].pin = call.pin
      /\ proc'[c].raced = \E e \in Client \ {c} : call.name \in Retracts(e, proc[e])
      /\ \A d \in Client \ {c} :
           /\ proc'[d].op = proc[d].op /\ proc'[d].name = proc[d].name /\ proc'[d].pin = proc[d].pin
           /\ proc'[d].raced = (proc[d].raced \/ proc[d].name \in Retracts(c, call))
  BY <1>1, <1>2, Begins
<1>4. Retracts(c, proc'[c]) = Retracts(c, call)
  BY <1>3, RetractsSame
<1>5. \A d \in Client \ {c} : Retracts(d, proc'[d]) = Retracts(d, proc[d])
  BY <1>3, RetractsSame
<1>6. pledged' = pledged \ Retracts(c, call) /\ UNCHANGED <<kv, expiring>>
  BY <1>2 DEF Begin, Call
<1>7. \A n \in pledged', d \in Client : n \notin Retracts(d, proc'[d])
  BY <1>4, <1>5, <1>6 DEF Inv, PledgeInv
<1>8. ASSUME NEW d \in Client, NEW e \in Client, Pledging(d)', e # d,
             proc'[d].name \in Retracts(e, proc'[e])
      PROVE  proc'[d].raced
  <2>1. CASE d = c
    BY <1>3, <1>5, <1>8, <2>1
  <2>2. CASE d # c /\ e = c
    BY <1>3, <1>4, <1>8, <2>2
  <2>3. CASE d # c /\ e # c
    BY <1>3, <1>5, <1>8, <2>3 DEF Inv, PledgeInv, Pledging
  <2> QED
    BY <2>1, <2>2, <2>3
<1>9. PledgedStays' /\ pledged' \subseteq Names
  BY <1>6 DEF Inv, PledgeInv, PledgedStays
<1> QED
  BY <1>3, <1>6, <1>7, <1>8, <1>9 DEF Inv, StoreInv, PledgeInv, Pledging

LEMMA ExpireKeepsInv == Inv /\ Expire => Inv'
<1> SUFFICES ASSUME Inv, Expire PROVE Inv'
  OBVIOUS
<1>1. PICK n \in expiring : Delete(n) /\ UNCHANGED <<proc, pledged>>
  BY DEF Expire
<1>2. CallsInv' /\ StoreInv'
  BY <1>1 DEF Inv, CallsInv, StoreInv, Delete
<1>3. PledgedStays'
  BY <1>1 DEF Inv, StoreInv, PledgeInv, PledgedStays, Delete
<1> QED
  BY <1>1, <1>2, <1>3 DEF Inv, PledgeInv, Pledging

LEMMA InitInv == Init => Inv
<1> SUFFICES ASSUME Init PROVE Inv
  OBVIOUS
<1>1. CallsInv
  BY IdleCall DEF Init, CallsInv, WellCalled
<1>2. StoreInv
  BY DEF Init, StoreInv
<1>3. PledgeInv
  BY IdleCall DEF Init, PledgeInv, PledgedStays
<1> QED
  BY <1>1, <1>2, <1>3 DEF Inv

LEMMA NextKeepsInv == Inv /\ [Next]_vars => Inv'
<1>1. Inv /\ UNCHANGED vars => Inv'
  BY DEF vars, Inv, CallsInv, StoreInv, PledgeInv, PledgedStays, Pledging
<1> QED
  BY <1>1, CallKeepsInv, ExpireKeepsInv, StepKeepsInv DEF Next, Step

THEOREM Invariance == Spec => []Inv
BY InitInv, NextKeepsInv, PTL DEF Spec

\* "Pinned keys are made persistent (no expiry)" (remote.py:36-37): what a client pinned,
\* in a call that has returned and that no call taking pins back overlapped, is there
\* without an expiry until a client of the fleet takes the pin back.
THEOREM PledgesHold == Spec => []PledgedStays
<1>1. Inv => PledgedStays
  BY DEF Inv, PledgeInv
<1> QED
  BY <1>1, Invariance, PTL

-----------------------------------------------------------------------------
(***************************************************************************)
(* clear.                                                                  *)
(***************************************************************************)
\* What a clear still has to see to.
Left(c) == \A n \in proc[c].due : kv[n] # None => \E k \in proc[c].rest : n = Name(NamespaceOf[c], k)

\* The client of the step itself.
LEMMA StepKeepsOwnClear ==
  ASSUME Inv, ClearInv, NEW c \in Client, Step(c), At(c, "next")'
  PROVE  Left(c)'
<1>1. CallsInv
  BY DEF Inv
<1>2. ~Return(c)
  BY <1>1, Returns, IdleCall DEF At
<1>3. ~PutSet(c)
  BY <1>1, SetCalls DEF At
<1>4. CASE Scan(c)
  <2>1. /\ proc'[c].due = {n \in NamesOf(c) : kv[n] # None}
        /\ \A k \in Key : kv[Name(NamespaceOf[c], k)] # None => k \in proc'[c].rest
    BY <1>1, <1>4, ScanCalls
  <2> QED
    BY <1>4, <2>1 DEF Left, NamesOf, Scan
<1>5. CASE ClearNext(c) /\ proc[c].rest # {}
  <2>1. PICK k \in Key : /\ k \in proc[c].rest
                         /\ Delete(Name(NamespaceOf[c], k))
                         /\ proc'[c].rest = proc[c].rest \ {k}
                         /\ proc'[c].at = "next" /\ proc'[c].due = proc[c].due
    BY <1>1, <1>5, ClearCalls
  <2>2. Name(NamespaceOf[c], k) \in Names /\ DOMAIN kv = Names /\ proc[c].due \subseteq Names
    BY <1>1, NamesOfNames, Arguments DEF NamesOf, Inv, StoreInv
  <2>3. ASSUME NEW n \in proc[c].due, kv'[n] # None
        PROVE  \E j \in proc[c].rest \ {k} : n = Name(NamespaceOf[c], j)
    <3>1. n # Name(NamespaceOf[c], k) /\ kv[n] # None
      BY <2>1, <2>2, <2>3 DEF Delete
    <3>2. Left(c)
      BY <1>5 DEF ClearInv, Left, ClearNext
    <3> QED
      BY <3>1, <3>2 DEF Left
  <2> QED
    BY <2>1, <2>3 DEF Left
<1> QED
  BY <1>2, <1>3, <1>4, <1>5 DEF Step, BreakOff, PutPersist, Get, Remove, PinKey, UnpinKey, ClearNext

LEMMA StepKeepsClear ==
  ASSUME Inv, ClearInv, NEW c \in Client, Step(c)
  PROVE  ClearInv'
<1>1. CallsInv /\ Proceeds(c)
  BY StepCalls DEF Inv
<1>2. ASSUME NEW d \in Client \ {c}, At(d, "next")' PROVE Left(d)'
  <2>1. Left(d) /\ proc'[d].rest = proc[d].rest /\ proc'[d].due \subseteq proc[d].due
        /\ proc[d].due \subseteq Names
    BY <1>1, <1>2, Arguments DEF Proceeds, ClearInv, Left, At
  <2>2. DOMAIN kv = Names
    BY DEF Inv, StoreInv
  <2>3. CASE PutSet(c)
    <3>1. proc'[d].due = proc[d].due \ {proc[c].name}
      BY <1>1, <2>3, SetCalls
    <3> QED
      BY <2>1, <2>2, <2>3, <3>1 DEF Left, PutSet
  <2>4. CASE ~PutSet(c)
    <3>1. \A n \in Names : kv'[n] = kv[n] \/ kv'[n] = None
      BY <2>2, <2>4 DEF Step, BreakOff, PutPersist, Get, Remove, PinKey, UnpinKey, Scan, ClearNext, Delete
    <3> QED
      BY <2>1, <3>1 DEF Left
  <2> QED
    BY <2>3, <2>4
<1> QED
  BY <1>2, StepKeepsOwnClear DEF ClearInv, Left

\* When clear returns, every key of its namespace that it found is gone unless somebody
\* has put it again (remote.py:55-65, 94-100).
THEOREM ClearCompletes == Spec => []ClearIsComplete
<1>1. Init => ClearInv
  BY IdleCall DEF Init, ClearInv, At
<1>2. ASSUME Inv, ClearInv, NEW c \in Client, Call(c) PROVE ClearInv'
  <2>1. PICK call : Begin(c, call) /\ WellCalled(c, call) /\ call.at # "next"
    BY <1>2, CallBegins DEF Inv
  <2>2. /\ proc'[c].at # "next"
        /\ \A d \in Client \ {c} :
             proc'[d].at = proc[d].at /\ proc'[d].rest = proc[d].rest /\ proc'[d].due = proc[d].due
    BY <1>2, <2>1, Begins DEF Inv
  <2>3. UNCHANGED kv
    BY <1>2 DEF Call
  <2> QED
    BY <1>2, <2>2, <2>3 DEF ClearInv, At
<1>3. ASSUME Inv, ClearInv, Expire PROVE ClearInv'
  <2>1. PICK n \in Names : kv' = [kv EXCEPT ![n] = None] /\ UNCHANGED proc
    BY <1>3 DEF Expire, Delete, Inv, StoreInv
  <2>2. \A m \in Names : kv'[m] = kv[m] \/ kv'[m] = None
    BY <2>1 DEF Inv, StoreInv
  <2>3. \A d \in Client : proc[d].due \subseteq Names
    BY <1>3, Arguments DEF Inv
  <2> QED
    BY <1>3, <2>1, <2>2, <2>3 DEF ClearInv, At
<1>4. ClearInv /\ UNCHANGED vars => ClearInv'
  BY DEF vars, ClearInv, At
<1>5. Inv /\ ClearInv /\ [Next]_vars => ClearInv'
  BY <1>2, <1>3, <1>4, StepKeepsClear DEF Next, Step
<1>6. ClearInv => ClearIsComplete
  BY DEF ClearInv, ClearIsComplete
<1> QED
  BY <1>1, <1>5, <1>6, Invariance, PTL DEF Spec

-----------------------------------------------------------------------------
(***************************************************************************)
(* Every namespace is a store that keeps the contract of StorageBackend.   *)
(***************************************************************************)
\* What one command does to a name it does to one key of one namespace.
LEMMA OneKey ==
  ASSUME NEW ns \in Namespace, NEW k \in Key, NEW nk \in Namespace \X Key,
         Name(nk[1], nk[2]) = Name(ns, k)
  PROVE  nk = <<ns, k>>
<1>1. nk[1] = ns /\ nk[2] = k
  BY OneName
<1> QED
  BY <1>1

LEMMA NameOfKey ==
  ASSUME NEW n \in Names
  PROVE  \E nk \in Namespace \X Key : n = Name(nk[1], nk[2])
<1>1. PICK ns \in Namespace, k \in Key : n = Name(ns, k)
  BY DEF Names
<1>2. <<ns, k>> \in Namespace \X Key /\ <<ns, k>>[1] = ns /\ <<ns, k>>[2] = k
  OBVIOUS
<1> QED
  BY <1>1, <1>2

LEMMA SameName ==
  ASSUME NEW nk \in Namespace \X Key, NEW mj \in Namespace \X Key,
         Name(mj[1], mj[2]) = Name(nk[1], nk[2])
  PROVE  mj = nk
<1>1. nk = <<nk[1], nk[2]>> /\ nk[1] \in Namespace /\ nk[2] \in Key
  OBVIOUS
<1> QED
  BY <1>1, OneKey

\* A value that is set.
LEMMA SetIsStored ==
  ASSUME StoreInv, NEW nk \in Namespace \X Key, NEW o \in Obj,
         kv' = [kv EXCEPT ![Name(nk[1], nk[2])] = o],
         expiring' \in {expiring \union {Name(nk[1], nk[2])}, expiring \ {Name(nk[1], nk[2])}}
  PROVE  Abstract!Effect(nk)
<1> DEFINE n == Name(nk[1], nk[2])
<1>1. n \in Names /\ DOMAIN kv = Names /\ o # None
  BY RedisChoicesAssumption DEF Names, StoreInv
<1>2. \A mj \in Namespace \X Key : Name(mj[1], mj[2]) \in Names
  BY DEF Names
<1>3. Held' = [Held EXCEPT ![nk] = o]
  BY <1>1, <1>2, SameName DEF Held
<1>4. Held = [mj \in Namespace \X Key |-> IF mj \in {} THEN None ELSE Held[mj]]
  BY DEF Held
<1>5. \E gone \in SUBSET (Abstract!Evictable \ {nk}) :
         Held' = [Abstract!Without(gone) EXCEPT ![nk] = o]
  <2>1. {} \in SUBSET (Abstract!Evictable \ {nk})
    OBVIOUS
  <2>2. Abstract!Without({}) = Held
    BY <1>4 DEF Abstract!Without, Held
  <2> QED
    BY <1>3, <2>1, <2>2
<1>6. CASE expiring' = expiring \union {n}
  <2>1. Kept' = Kept \ {nk}
    BY <1>1, <1>2, <1>6, SameName DEF Kept
  <2>2. Abstract!Stored(nk, o, FALSE)
    BY <1>5, <2>1 DEF Abstract!Stored, Kept, Held
  <2> QED
    BY <2>2 DEF Abstract!Effect
<1>7. CASE expiring' = expiring \ {n}
  <2>1. Kept' = Kept \union {nk}
    BY <1>1, <1>2, <1>7, SameName DEF Kept
  <2>2. Abstract!Stored(nk, o, TRUE)
    BY <1>5, <2>1 DEF Abstract!Stored, Kept, Held
  <2> QED
    BY <2>2 DEF Abstract!Effect
<1> QED
  BY <1>6, <1>7

\* A name that is deleted, or expires.
LEMMA DeleteIsRemoved ==
  ASSUME StoreInv, NEW nk \in Namespace \X Key, Delete(Name(nk[1], nk[2]))
  PROVE  Abstract!Effect(nk) /\ Kept' = Kept \ {nk}
<1> DEFINE n == Name(nk[1], nk[2])
<1>1. n \in Names /\ DOMAIN kv = Names
  BY DEF Names, StoreInv
<1>2. \A mj \in Namespace \X Key : Name(mj[1], mj[2]) \in Names
  BY DEF Names
<1>3. Held' = [mj \in Namespace \X Key |-> IF mj \in {nk} THEN None ELSE Held[mj]]
  BY <1>1, <1>2, SameName DEF Held, Delete
<1>4. Kept' = Kept \ {nk}
  BY <1>1, <1>2, SameName DEF Kept, Delete
<1>5. Abstract!Removed(nk)
  BY <1>3, <1>4 DEF Abstract!Removed, Abstract!Without, Held, Kept
<1> QED
  BY <1>4, <1>5 DEF Abstract!Effect

\* PERSIST, and EXPIRE of a key that is there.
LEMMA PersistIsPinned ==
  ASSUME StoreInv, NEW nk \in Namespace \X Key, UNCHANGED kv,
         expiring' = expiring \ {Name(nk[1], nk[2])}
  PROVE  Abstract!Effect(nk)
<1>1. Held' = Held
  BY DEF Held
<1>2. Kept' = IF Held[nk] = None THEN Kept ELSE Kept \union {nk}
  BY SameName DEF Kept, Held
<1>3. Abstract!Pinned(nk)
  BY <1>1, <1>2 DEF Abstract!Pinned, Held, Kept
<1> QED
  BY <1>3 DEF Abstract!Effect

LEMMA ExpiryIsUnpinned ==
  ASSUME StoreInv, NEW nk \in Namespace \X Key, UNCHANGED kv,
         expiring' = expiring \union {Name(nk[1], nk[2])}
  PROVE  Abstract!Effect(nk)
<1>1. Held' = Held
  BY DEF Held
<1>2. Kept' = Kept \ {nk}
  BY SameName DEF Kept
<1>3. Abstract!Unpinned(nk)
  BY <1>1, <1>2 DEF Abstract!Unpinned, Held, Kept
<1> QED
  BY <1>3 DEF Abstract!Effect

LEMMA EffectOrStutter ==
  ASSUME Inv, [Next]_vars
  PROVE  [\E k \in Namespace \X Key : Abstract!Effect(k)]_<<Held, Kept>>
<1>1. CASE UNCHANGED <<kv, expiring>>
  BY <1>1 DEF Held, Kept
<1>2. ASSUME NEW n \in Names,
             \/ Delete(n)
             \/ UNCHANGED kv /\ expiring' \in {expiring \ {n}, expiring \union {n}}
             \/ /\ \E o \in Obj : kv' = [kv EXCEPT ![n] = o]
                /\ expiring' \in {expiring \ {n}, expiring \union {n}}
      PROVE  \E nk \in Namespace \X Key : Abstract!Effect(nk)
  <2>1. PICK nk \in Namespace \X Key : n = Name(nk[1], nk[2])
    BY NameOfKey
  <2> QED
    BY <1>2, <2>1, SetIsStored, DeleteIsRemoved, PersistIsPinned, ExpiryIsUnpinned DEF Inv
<1>3. CASE Expire
  BY <1>2, <1>3 DEF Expire, Inv, StoreInv
<1>4. ASSUME NEW c \in Client, Step(c), ~UNCHANGED <<kv, expiring>>
      PROVE  \E nk \in Namespace \X Key : Abstract!Effect(nk)
  <2> DEFINE name == proc[c].name
  <2>1. /\ Fits(c, proc[c].at, proc[c].op, name, proc[c].obj, proc[c].pin)
        /\ proc[c].op \in {"put", "get", "remove", "pin", "unpin"} => name \in Names
    BY Arguments DEF Inv
  <2>2. CASE PutSet(c)
    <3>1. /\ name \in Names /\ kv' = [kv EXCEPT ![name] = proc[c].obj] /\ proc[c].obj \in Obj
          /\ expiring' \in {expiring \ {name}, expiring \union {name}}
      BY <2>1, <2>2 DEF PutSet, At, Fits
    <3> QED
      BY <1>2, <3>1
  <2>3. CASE PutPersist(c) \/ PinKey(c) \/ UnpinKey(c)
    <3>1. /\ name \in Names /\ UNCHANGED kv
          /\ expiring' \in {expiring \ {name}, expiring \union {name}}
      BY <1>4, <2>1, <2>3 DEF PutPersist, PinKey, UnpinKey, At, Fits
    <3> QED
      BY <1>2, <3>1
  <2>4. CASE Remove(c)
    <3>1. name \in Names /\ Delete(name)
      BY <2>1, <2>4 DEF Remove, At, Fits
    <3> QED
      BY <1>2, <3>1
  <2>5. CASE ClearNext(c)
    <3>1. PICK k \in Key : Delete(Name(NamespaceOf[c], k))
      BY <1>4, <2>5, ClearCalls DEF Inv, ClearNext
    <3> QED
      BY <1>2, <3>1, NamesOfNames DEF NamesOf
  <2> QED
    BY <1>4, <2>2, <2>3, <2>4, <2>5 DEF Step, BreakOff, Get, Scan
<1> QED
  BY <1>1, <1>3, <1>4 DEF Next, Step, Call, vars

\* Redis, whoever shares it, keeps the contract of base.py in every namespace: a call in
\* one namespace changes no key of another, and only what is not pinned expires.
THEOREM Implements == Spec => ImplementsContract
<1>1. Init => Held = [nk \in Namespace \X Key |-> None] /\ Kept = {}
  BY DEF Init, Held, Kept, Names
<1>2. Init => Abstract!Empty
  BY <1>1 DEF Abstract!Empty, Held, Kept
<1>3. Inv /\ [Next]_vars => [\E k \in Namespace \X Key : Abstract!Effect(k)]_<<Held, Kept>>
  BY EffectOrStutter
<1>4. Spec => Abstract!Empty
  BY <1>2, PTL DEF Spec
<1>5. Spec => [][\E k \in Namespace \X Key : Abstract!Effect(k)]_<<Held, Kept>>
  BY <1>3, Invariance, PTL DEF Spec
<1>6. Spec => Abstract!Contract
  BY <1>4, <1>5, PTL DEF Abstract!Contract
<1> QED
  BY <1>6 DEF ImplementsContract
=============================================================================
