------------------------- MODULE DiskBackendProofs -------------------------
(***************************************************************************)
(* Proofs about DiskBackend, for every number of threads, keys,            *)
(* directories and crashes.                                                *)
(***************************************************************************)
EXTENDS DiskBackend, SequenceTheorems, TLAPS

-----------------------------------------------------------------------------
(***************************************************************************)
(* Blobs.                                                                  *)
(***************************************************************************)

\* What put writes is read back as the object it wrote, and is a blob.
LEMMA Framed ==
  ASSUME NEW o \in Obj
  PROVE  /\ Framing!UnpackPayload(Framing!PackPayload(o)) = o
         /\ Framing!PackPayload(o) \in Framing!Blob
         /\ Framing!PackPayload(o) # None
         /\ Len(Framing!PackPayload(o)) = 3
         /\ Framing!PackPayload(o) = SubSeq(Framing!PackPayload(o), 1, 3)
         /\ Framing!PackPayload(o) \in Framing!PartialBlob
<1>1. Len(Framing!PackPayload(o)) = 3
  BY DEF Framing!PackPayload
<1>2. Framing!UnpackPayload(Framing!PackPayload(o)) = o
  BY DEF Framing!PackPayload, Framing!UnpackPayload
<1>3. Framing!PackPayload(o) \in Framing!Blob
  BY DEF Framing!Blob
<1>4. SubSeq(Framing!PackPayload(o), 1, 3) = Framing!PackPayload(o)
  <2>1. Framing!PackPayload(o) \in Seq({"magic", "header", o})
    BY DEF Framing!PackPayload
  <2> QED
    BY <2>1, <1>1, SubSeqFull
<1>5. Framing!PackPayload(o) \in Framing!PartialBlob
  BY <1>1, <1>3, <1>4 DEF Framing!PartialBlob
<1> QED
  BY <1>1, <1>2, <1>3, <1>4, <1>5, NoneIsNoBlob

\* What a put has written at any moment is the beginning of a blob.
LEMMA PartsOfBlobs ==
  ASSUME NEW o \in Obj, NEW n \in 0 .. 3
  PROVE  /\ SubSeq(Framing!PackPayload(o), 1, n) \in Framing!PartialBlob
         /\ Len(SubSeq(Framing!PackPayload(o), 1, n)) = n
<1>1. SubSeq(Framing!PackPayload(o), 1, n) \in Framing!PartialBlob
  <2>1. Framing!PackPayload(o) \in Framing!Blob /\ Len(Framing!PackPayload(o)) = 3
    BY Framed
  <2> QED
    BY <2>1 DEF Framing!PartialBlob
<1>2. Framing!PackPayload(o) \in Seq({"magic", "header", o})
  BY DEF Framing!PackPayload
<1>3. \A i \in 1 .. n : Framing!PackPayload(o)[i] \in {"magic", "header", o}
  BY <1>2, Framed, ElementOfSeq
<1>4. Len(SubSeq(Framing!PackPayload(o), 1, n)) = n
  BY <1>3, SubSeqProperties
<1> QED
  BY <1>1, <1>4

LEMMA NothingWritten ==
  ASSUME NEW o \in Obj
  PROVE  <<>> = SubSeq(Framing!PackPayload(o), 1, 0)
BY SubSeqEmpty

-----------------------------------------------------------------------------
(***************************************************************************)
(* The inductive invariant.                                                *)
(***************************************************************************)
Label == {"idle", "mkdir", "open", "write", "get", "read", "remove", "unlink", "rmdir",
          "keys", "next", "pin", "unpin"}
Method == {"none", "put", "get", "remove", "pin", "unpin", "clear"}
CallRecord == [at : Label, op : Method, key : Key \union {None}, obj : Obj \union {None},
               pin : BOOLEAN, rest : SUBSET Key, raced : BOOLEAN]

\* The label of a call fits its method and arguments.
Fits(at, op, key, obj) ==
    /\ at \in {"mkdir", "open", "write"} => op = "put" /\ obj \in Obj
    /\ at \in {"get", "read"} => op = "get"
    /\ at \in {"remove", "unlink", "rmdir"} => op \in {"remove", "clear"} /\ key \in Key
    /\ at \in {"keys", "next"} => op = "clear"
    /\ at \in {"pin", "unpin"} => op \in {"pin", "unpin"}
    /\ op \in {"put", "get", "remove", "pin", "unpin"} => key \in Key
    /\ op = "none" <=> at = "idle"
    /\ op = "none" => key = None

\* A call is in the method it began with and keeps its arguments.
WellCalled(call) == call \in CallRecord /\ Fits(call.at, call.op, call.key, call.obj)

CallsInv == proc \in [Thread -> CallRecord] /\ \A t \in Thread : WellCalled(proc[t])

\* The lock is held exactly by the thread between open and rename, or unlink and rmdir.
LockInv == \A t \in Thread : lock = t <=> proc[t].at \in {"write", "unlink", "rmdir"}

\* Under the lock the temporary file holds the beginning of what is being written.
Beginning(bytes, o) == \E n \in 0 .. 3 : bytes = SubSeq(Framing!PackPayload(o), 1, n)

WritesInv == \A t \in Thread : At(t, "write") => Beginning(tmps[proc[t].key], proc[t].obj)

\* A file is whole.
FilesInv == files \in [Key -> Framing!Blob \union {None}]

Inv == CallsInv /\ WritesInv /\ FilesInv /\ TypeOK

\* A thread is inside a call that may take away files or the directory of t's key.
Endangered(t) == \E u \in Thread \ {t} : Removes(proc[u], DirOf[proc[t].key])

\* Whoever is endangered, or misses what it relied on, has been raced.
RacedInv ==
    \A t \in Thread : proc[t].op \in {"put", "get"} =>
        /\ Endangered(t) => proc[t].raced
        /\ At(t, "open") /\ DirOf[proc[t].key] \notin dirs => proc[t].raced
        /\ At(t, "read") /\ files[proc[t].key] = None => proc[t].raced

\* A temporary file is being written and an empty directory is being used or removed,
\* unless a put in the directory has failed.
TidyInv ==
    /\ \A k \in Key : tmps[k] # None /\ DirOf[k] \notin spoiled =>
         \E t \in Thread : At(t, "write") /\ proc[t].key = k
    /\ \A d \in dirs \ spoiled :
         \/ \E k \in Key : DirOf[k] = d /\ files[k] # None
         \/ \E t \in Thread : /\ proc[t].at \in {"open", "write", "rmdir"}
                               /\ DirOf[proc[t].key] = d

-----------------------------------------------------------------------------
(***************************************************************************)
(* Calls.                                                                  *)
(***************************************************************************)

\* A thread whose call changes into a well-formed one leaves the others alone.
LEMMA CallsChange ==
  ASSUME CallsInv, NEW t \in Thread, NEW call, WellCalled(call),
         proc' = [proc EXCEPT ![t] = call]
  PROVE  /\ CallsInv'
         /\ proc'[t] = call
         /\ \A u \in Thread \ {t} : proc'[u] = proc[u]
BY DEF CallsInv, WellCalled

LEMMA IdleIsWellCalled == WellCalled(Idle)
BY DEF WellCalled, Fits, Idle, CallRecord, Label, Method

\* What a step of a call that has begun may do to the calls.
Proceeds(t) ==
    /\ \A u \in Thread \ {t} : proc'[u] = proc[u]
    /\ \/ proc'[t] = Idle
       \/ /\ proc'[t].op = proc[t].op
          /\ proc'[t].raced = proc[t].raced
          /\ proc'[t].obj = proc[t].obj
          /\ proc'[t].op = "clear" \/ proc'[t].key = proc[t].key

LEMMA Returns ==
  ASSUME CallsInv, NEW t \in Thread, Return(t)
  PROVE  CallsInv' /\ Proceeds(t) /\ proc'[t] = Idle
BY CallsChange, IdleIsWellCalled DEF Return, Proceeds

\* Goto changes nothing but the label.
LEMMA Moves ==
  ASSUME CallsInv, NEW t \in Thread, NEW label \in Label, Goto(t, label),
         Fits(label, proc[t].op, proc[t].key, proc[t].obj)
  PROVE  /\ CallsInv' /\ Proceeds(t)
         /\ proc'[t].at = label /\ proc'[t].key = proc[t].key /\ proc'[t].op = proc[t].op
<1> DEFINE call == [proc[t] EXCEPT !.at = label]
<1>1. proc[t] \in CallRecord
  BY DEF CallsInv
<1>2. /\ call \in CallRecord /\ call.at = label
      /\ call.op = proc[t].op /\ call.key = proc[t].key
      /\ call.obj = proc[t].obj /\ call.raced = proc[t].raced
  BY <1>1 DEF CallRecord
<1>3. proc' = [proc EXCEPT ![t] = call]
  BY DEF Goto
<1>4. WellCalled(call)
  BY <1>2 DEF WellCalled
<1> HIDE DEF call
<1> QED
  BY <1>2, <1>3, <1>4, CallsChange DEF Proceeds

\* The arguments of a call where its label says they are needed.
LEMMA Arguments ==
  ASSUME CallsInv, NEW t \in Thread
  PROVE  /\ Fits(proc[t].at, proc[t].op, proc[t].key, proc[t].obj)
         /\ proc[t] \in CallRecord
         /\ proc[t].key \in Key \union {None}
         /\ proc[t].obj \in Obj \union {None}
BY DEF CallsInv, WellCalled, CallRecord

LEMMA StepCalls ==
  ASSUME CallsInv, NEW t \in Thread, Step(t)
  PROVE  CallsInv' /\ Proceeds(t)
<1> USE Arguments
<1>1. CASE PutMkdir(t)
  BY <1>1, Moves DEF PutMkdir, At, Fits, Label
<1>2. CASE PutOpen(t)
  BY <1>2, Returns, Moves DEF PutOpen, At, Fits, Label
<1>3. CASE PutWrite(t)
  BY <1>3, Returns DEF PutWrite, Proceeds, CallsInv
<1>4. CASE PutReplace(t) \/ GetRead(t) \/ PinKey(t)
  BY <1>4, Returns DEF PutReplace, GetRead, PinKey
<1>5. CASE GetExists(t)
  BY <1>5, Returns, Moves DEF GetExists, At, Fits, Label
<1>6. CASE RemoveUnpin(t)
  <2>1. Fits("next", proc[t].op, proc[t].key, proc[t].obj) \/ proc[t].op # "clear"
    BY DEF Fits
  <2>2. Fits("unlink", proc[t].op, proc[t].key, proc[t].obj)
    BY <1>6 DEF Fits, RemoveUnpin, At
  <2> QED
    BY <1>6, <2>1, <2>2, Returns, Moves DEF RemoveUnpin, Removed, Label
<1>7. CASE RemoveRmdir(t)
  <2>1. Fits("next", proc[t].op, proc[t].key, proc[t].obj) \/ proc[t].op # "clear"
    BY DEF Fits
  <2> QED
    BY <1>7, <2>1, Returns, Moves DEF RemoveRmdir, Removed, Label
<1>8. CASE RemoveUnlink(t)
  BY <1>8, Moves DEF RemoveUnlink, At, Fits, Label
<1>9. CASE Keys(t)
  <2> DEFINE listed == {k \in Key : files[k] # None}
             call == [proc[t] EXCEPT !.at = "next", !.rest = listed]
  <2>1. proc' = [proc EXCEPT ![t] = call]
    BY <1>9 DEF Keys
  <2>2. listed \in SUBSET Key /\ "next" \in Label
    BY DEF Label
  <2> HIDE DEF listed
  <2>3. /\ call \in CallRecord /\ call.at = "next" /\ call.op = proc[t].op
        /\ call.key = proc[t].key /\ call.obj = proc[t].obj /\ call.raced = proc[t].raced
    BY <2>2 DEF CallRecord
  <2> HIDE DEF call
  <2>4. Fits(call.at, call.op, call.key, call.obj)
    BY <1>9, <2>3 DEF Fits, Keys, At
  <2> QED
    BY <2>1, <2>3, <2>4, CallsChange DEF Proceeds, WellCalled
<1>10. CASE ClearNext(t)
  <2>1. ASSUME NEW k \in proc[t].rest,
               proc' = [proc EXCEPT ![t].at = "remove", ![t].key = k, ![t].rest = @ \ {k}]
        PROVE  CallsInv' /\ Proceeds(t)
    <3> DEFINE call == [proc[t] EXCEPT !.at = "remove", !.key = k, !.rest = proc[t].rest \ {k}]
    <3>1. proc' = [proc EXCEPT ![t] = call]
      BY <2>1
    <3>2. proc[t].rest \in SUBSET Key /\ "remove" \in Label
      BY DEF CallRecord, Label
    <3>3. /\ call \in CallRecord /\ call.at = "remove" /\ call.op = proc[t].op
          /\ call.key = k /\ call.obj = proc[t].obj /\ call.raced = proc[t].raced
      BY <3>2 DEF CallRecord
    <3>4. proc[t].op = "clear" /\ k \in Key
      BY <1>10, <3>2 DEF ClearNext, At, Fits
    <3> HIDE DEF call
    <3>5. Fits(call.at, call.op, call.key, call.obj)
      BY <3>3, <3>4 DEF Fits
    <3> QED
      BY <3>1, <3>3, <3>4, <3>5, CallsChange DEF Proceeds, WellCalled
  <2> QED
    BY <1>10, <2>1, Returns DEF ClearNext
<1> QED
  BY <1>1, <1>2, <1>3, <1>4, <1>5, <1>6, <1>7, <1>8, <1>9, <1>10 DEF Step

\* A call that begins: it is noted as raced when one that removes is under way, and
\* notes that itself in the others.
LEMMA Begins ==
  ASSUME CallsInv, NEW t \in Thread, NEW call, Begin(t, call), WellCalled(call)
  PROVE  /\ CallsInv'
         /\ proc'[t].at = call.at /\ proc'[t].op = call.op /\ proc'[t].key = call.key
         /\ proc'[t].raced =
              (call.key # None /\ \E v \in Thread \ {t} : Removes(proc[v], DirOf[call.key]))
         /\ \A u \in Thread \ {t} :
              /\ proc'[u].at = proc[u].at /\ proc'[u].op = proc[u].op
              /\ proc'[u].key = proc[u].key /\ proc'[u].obj = proc[u].obj
              /\ proc'[u].raced = (proc[u].raced \/ (proc[u].key # None /\
                                                       Removes(call, DirOf[proc[u].key])))
<1> DEFINE r == call.key # None /\ \E v \in Thread \ {t} : Removes(proc[v], DirOf[call.key])
           s(u) == proc[u].raced \/ (proc[u].key # None /\ Removes(call, DirOf[proc[u].key]))
<1>1. /\ proc'[t] = [call EXCEPT !.raced = r]
      /\ \A u \in Thread \ {t} : proc'[u] = [proc[u] EXCEPT !.raced = s(u)]
      /\ DOMAIN proc' = Thread
      /\ proc' = [u \in Thread |-> proc'[u]]
  BY DEF Begin
<1>2. r \in BOOLEAN /\ \A u \in Thread : s(u) \in BOOLEAN
  <2>1. \A u \in Thread : proc[u].raced \in BOOLEAN
    BY DEF CallsInv, CallRecord
  <2> QED
    BY <2>1
<1> HIDE DEF r, s
<1>3. /\ proc'[t] \in CallRecord
      /\ proc'[t].at = call.at /\ proc'[t].op = call.op /\ proc'[t].key = call.key
      /\ proc'[t].obj = call.obj /\ proc'[t].raced = r
  BY <1>1, <1>2 DEF WellCalled, CallRecord
<1>4. ASSUME NEW u \in Thread \ {t}
      PROVE  /\ proc'[u] \in CallRecord
             /\ proc'[u].at = proc[u].at /\ proc'[u].op = proc[u].op
             /\ proc'[u].key = proc[u].key /\ proc'[u].obj = proc[u].obj
             /\ proc'[u].raced = s(u)
  <2>1. proc[u] \in CallRecord /\ proc'[u] = [proc[u] EXCEPT !.raced = s(u)]
    BY <1>1 DEF CallsInv
  <2>2. s(u) \in BOOLEAN
    BY <1>2
  <2> QED
    BY <2>1, <2>2 DEF CallRecord
<1>5. CallsInv'
  <2>1. \A u \in Thread : WellCalled(proc'[u])
    BY <1>3, <1>4 DEF WellCalled, CallsInv
  <2> QED
    BY <1>1, <2>1 DEF WellCalled, CallsInv
<1> QED
  BY <1>3, <1>4, <1>5 DEF r, s

LEMMA CallBegins ==
  ASSUME CallsInv, NEW t \in Thread, Call(t)
  PROVE  \E call : /\ Begin(t, call) /\ WellCalled(call)
                   /\ call.at \in {"mkdir", "get", "remove", "pin", "unpin", "keys"}
<1> DEFINE put(k, o, p) == [Idle EXCEPT !.at = "mkdir", !.op = "put", !.key = k, !.obj = o, !.pin = p]
           use(k, op) == [Idle EXCEPT !.at = op, !.op = op, !.key = k]
           clr == [Idle EXCEPT !.at = "keys", !.op = "clear"]
<1>1. ASSUME NEW k \in Key, NEW o \in Obj, NEW p \in PinChoices
      PROVE  WellCalled(put(k, o, p)) /\ put(k, o, p).at = "mkdir"
  <2>1. /\ put(k, o, p) \in CallRecord
        /\ put(k, o, p).at = "mkdir" /\ put(k, o, p).op = "put"
        /\ put(k, o, p).key = k /\ put(k, o, p).obj = o
    BY DiskChoicesAssumption DEF Idle, CallRecord, Label, Method
  <2> HIDE DEF put
  <2> QED
    BY <2>1 DEF WellCalled, Fits
<1>2. ASSUME NEW k \in Key, NEW op \in {"get", "remove", "pin", "unpin"}
      PROVE  WellCalled(use(k, op)) /\ use(k, op).at = op
  <2>1. op \in Label /\ op \in Method
    BY DEF Label, Method
  <2>2. /\ use(k, op) \in CallRecord
        /\ use(k, op).at = op /\ use(k, op).op = op
        /\ use(k, op).key = k /\ use(k, op).obj = None
    BY <2>1 DEF Idle, CallRecord
  <2> HIDE DEF use
  <2> QED
    BY <2>2 DEF WellCalled, Fits
<1>3. WellCalled(clr) /\ clr.at = "keys"
  BY DEF WellCalled, Fits, Idle, CallRecord, Label, Method
<1>4. \/ \E k \in Key, o \in Obj, p \in PinChoices : Begin(t, put(k, o, p))
      \/ \E k \in Key, op \in {"get", "remove", "pin", "unpin"} : Begin(t, use(k, op))
      \/ Begin(t, clr)
  BY DEF Call
<1> HIDE DEF put, use, clr
<1> QED
  BY <1>1, <1>2, <1>3, <1>4

-----------------------------------------------------------------------------
(***************************************************************************)
(* The inductive invariant is one.                                         *)
(***************************************************************************)
LEMMA InitInv == Init => Inv
<1> SUFFICES ASSUME Init PROVE Inv
  OBVIOUS
<1> USE DEF Init
<1>1. CallsInv
  BY IdleIsWellCalled DEF CallsInv, WellCalled
<1>2. WritesInv
  BY DEF WritesInv, At, Idle
<1>3. FilesInv
  BY DEF FilesInv
<1>4. TypeOK
  BY CrashesAssumption, DiskNoneAssumption DEF TypeOK, Idle
<1> QED
  BY <1>1, <1>2, <1>3, <1>4 DEF Inv

\* Nobody else is inside the lock when a thread takes it or is in it.
Inside(u) == proc[u].at \in {"write", "unlink", "rmdir"}

LEMMA Alone ==
  ASSUME LockInv, NEW t \in Thread, lock = None \/ Inside(t)
  PROVE  \A u \in Thread \ {t} : ~Inside(u)
BY DiskNoneAssumption DEF LockInv, Inside

\* A step that leaves the threads inside the lock as they were, except perhaps t.
LEMMA LockKept ==
  ASSUME LockInv, NEW t \in Thread,
         \A u \in Thread \ {t} : proc'[u].at = proc[u].at,
         \/ lock' = t /\ Inside(t)' /\ (lock = None \/ lock = t)
         \/ lock' = None /\ ~Inside(t)' /\ (lock = None \/ lock = t)
         \/ lock' = lock /\ (Inside(t)' <=> Inside(t))
  PROVE  LockInv'
BY DiskNoneAssumption DEF LockInv, Inside

LEMMA TypeParts ==
  ASSUME TypeOK
  PROVE  LockInv
BY DEF TypeOK, LockInv

\* The bytes of blobs and their beginnings.
LEMMA Bytes ==
  /\ Framing!Blob \subseteq Framing!PartialBlob
  /\ \A o \in Obj : \A b : Beginning(b, o) => b \in Framing!PartialBlob /\ b # None
<1>1. ASSUME NEW b \in Framing!Blob PROVE b \in Framing!PartialBlob
  BY Framed DEF Framing!Blob
<1>2. ASSUME NEW o \in Obj, NEW b, Beginning(b, o)
      PROVE  b \in Framing!PartialBlob
  BY <1>2, PartsOfBlobs DEF Beginning
<1> QED
  BY <1>1, <1>2, NoneIsNoBlob

\* While a thread writes its temporary file is a file, and so its directory is there.
LEMMA Writing ==
  ASSUME Inv, NEW t \in Thread, At(t, "write")
  PROVE  /\ proc[t].key \in Key /\ proc[t].obj \in Obj
         /\ Beginning(tmps[proc[t].key], proc[t].obj)
         /\ tmps[proc[t].key] # None
         /\ DirOf[proc[t].key] \in dirs
<1>1. proc[t].key \in Key /\ proc[t].obj \in Obj
  BY Arguments DEF Inv, At, Fits
<1>2. Beginning(tmps[proc[t].key], proc[t].obj)
  BY DEF Inv, WritesInv
<1>3. tmps[proc[t].key] # None
  BY <1>1, <1>2, Bytes
<1> QED
  BY <1>1, <1>2, <1>3 DEF Inv, TypeOK

\* One more part is written.
LEMMA WritesOn ==
  ASSUME NEW o \in Obj, NEW b, Beginning(b, o), b # Framing!PackPayload(o)
  PROVE  Beginning(SubSeq(Framing!PackPayload(o), 1, Len(b) + 1), o)
<1>1. PICK n \in 0 .. 3 : b = SubSeq(Framing!PackPayload(o), 1, n)
  BY DEF Beginning
<1>2. Len(b) = n
  BY <1>1, PartsOfBlobs
<1>3. n # 3
  BY <1>1, Framed
<1>4. n + 1 \in 0 .. 3
  BY <1>3
<1> QED
  BY <1>2, <1>4 DEF Beginning

\* What the steps of put, remove and clear do to the files keeps the invariant.  The
\* calls themselves are StepCalls; here are the lock, the files and the directories.
LEMMA StepKeepsInv ==
  ASSUME Inv, NEW t \in Thread, Step(t)
  PROVE  Inv'
<1>1. CallsInv /\ CallsInv' /\ Proceeds(t) /\ LockInv
  BY StepCalls, TypeParts DEF Inv
<1>2. /\ \A u \in Thread \ {t} : proc'[u] = proc[u]
      /\ Fits(proc[t].at, proc[t].op, proc[t].key, proc[t].obj)
  BY <1>1, Arguments DEF Proceeds
<1>3. Idle.at = "idle"
  BY DEF Idle
<1>4. ASSUME LockInv', WritesInv', FilesInv', UNCHANGED crashes,
             dirs' \subseteq Dir, pinned' \subseteq Key, spoiled' \subseteq Dir,
             tmps' \in [Key -> Framing!PartialBlob \union {None}],
             \A k \in Key : files'[k] # None \/ tmps'[k] # None => DirOf[k] \in dirs'
      PROVE  Inv'
  <2>1. files' \in [Key -> Framing!PartialBlob \union {None}]
    BY <1>4, Bytes DEF FilesInv
  <2> QED
    BY <1>1, <1>4, <2>1 DEF Inv, TypeOK, LockInv
\* Steps that leave the files alone, and the lock.
<1>5. ASSUME UNCHANGED <<files, tmps, crashes, spoiled>>, LockInv', ~At(t, "write")',
             dirs' \subseteq Dir, pinned' \subseteq Key,
             \A k \in Key : files[k] # None \/ tmps[k] # None => DirOf[k] \in dirs'
      PROVE  Inv'
  <2>1. WritesInv'
    BY <1>2, <1>5 DEF Inv, WritesInv, At
  <2> QED
    BY <1>4, <1>5, <2>1 DEF Inv, TypeOK, FilesInv
<1>6. ASSUME lock' = lock, ~Inside(t), ~Inside(t)' PROVE LockInv'
  BY <1>1, <1>2, <1>6, LockKept
<1>7. CASE PutMkdir(t)
  <2>1. proc'[t].at = "open" /\ proc[t].key \in Key
    BY <1>1, <1>2, <1>7, Moves DEF PutMkdir, At, Fits, Label
  <2>2. LockInv' /\ ~At(t, "write")'
    BY <1>6, <1>7, <2>1 DEF PutMkdir, At, Inside
  <2> QED
    BY <1>5, <1>7, <2>1, <2>2, DirOfAssumption DEF PutMkdir, Inv, TypeOK
<1>8. CASE PutOpen(t)
  <2> DEFINE k == proc[t].key
  <2>1. k \in Key /\ proc[t].obj \in Obj
    BY <1>2, <1>8 DEF PutOpen, At, Fits
  <2>2. CASE DirOf[k] \notin dirs
    BY <1>1, <1>3, <1>5, <1>6, <1>8, <2>2, Returns DEF PutOpen, At, Inside, Inv, TypeOK
  <2>3. CASE DirOf[k] \in dirs
    <3>1. /\ lock = None /\ lock' = t /\ tmps' = [tmps EXCEPT ![k] = <<>>]
          /\ UNCHANGED <<dirs, files, pinned, crashes, spoiled>>
      BY <1>8, <2>3 DEF PutOpen
    <3>2. proc'[t].at = "write" /\ proc'[t].key = k /\ proc'[t].obj = proc[t].obj
      BY <1>1, <1>2, <1>8, <2>3, Moves DEF PutOpen, At, Fits, Label, Proceeds, Idle
    <3>3. LockInv'
      BY <1>1, <1>2, <3>1, <3>2, LockKept DEF Inside
    <3>4. Beginning(<<>>, proc[t].obj)
      BY <2>1, NothingWritten DEF Beginning
    <3>5. WritesInv'
      BY <1>1, <1>2, <2>1, <3>1, <3>2, <3>4, Alone DEF WritesInv, At, Inside, Inv, TypeOK
    <3> QED
      BY <1>4, <2>1, <2>3, <3>1, <3>3, <3>4, <3>5, Bytes DEF Inv, TypeOK, FilesInv
  <2> QED
    BY <2>2, <2>3
<1>9. CASE PutWrite(t)
  <2> DEFINE k == proc[t].key
             o == proc[t].obj
             bytes == SubSeq(Framing!PackPayload(o), 1, Len(tmps[k]) + 1)
  <2>1. At(t, "write") /\ tmps[k] # Framing!PackPayload(o)
    BY <1>9 DEF PutWrite, Whole
  <2>2. k \in Key /\ o \in Obj /\ Beginning(tmps[k], o)
    BY <2>1, Writing
  <2>3. CASE tmps' = [tmps EXCEPT ![k] = SubSeq(Framing!PackPayload(o), 1, Len(@) + 1)]
             /\ UNCHANGED <<lock, proc, spoiled>>
    <3>1. tmps' = [tmps EXCEPT ![k] = bytes] /\ UNCHANGED <<dirs, files, pinned, crashes>>
      BY <1>9, <2>3 DEF PutWrite
    <3>2. Beginning(bytes, o)
      BY <2>1, <2>2, WritesOn
    <3> HIDE DEF bytes
    <3>3. LockInv'
      BY <1>1, <2>3 DEF LockInv
    <3>4. WritesInv'
      BY <1>1, <2>1, <2>2, <2>3, <3>1, <3>2, Alone DEF WritesInv, At, Inside, Inv, TypeOK
    <3>5. DirOf[k] \in dirs
      BY <2>1, Writing
    <3> QED
      BY <1>4, <2>2, <2>3, <3>1, <3>2, <3>3, <3>4, <3>5, Bytes DEF Inv, TypeOK, FilesInv
  <2>4. CASE Return(t) /\ lock' = None /\ spoiled' = spoiled \union {DirOf[k]} /\ UNCHANGED tmps
    <3>1. ~Inside(t)' /\ ~At(t, "write")' /\ UNCHANGED <<dirs, files, pinned, crashes>>
      BY <1>1, <1>3, <1>9, <2>4, Returns DEF Inside, At, PutWrite
    <3>2. LockInv'
      BY <1>1, <1>2, <2>1, <2>4, <3>1, LockKept DEF LockInv, At
    <3>3. WritesInv'
      BY <1>2, <2>4, <3>1 DEF Inv, WritesInv, At
    <3> QED
      BY <1>4, <2>2, <2>4, <3>1, <3>2, <3>3, DirOfAssumption DEF Inv, TypeOK, FilesInv
  <2> QED
    BY <1>9, <2>3, <2>4 DEF PutWrite
<1>10. CASE PutReplace(t)
  <2> DEFINE k == proc[t].key
             o == proc[t].obj
  <2>1. At(t, "write") /\ tmps[k] = Framing!PackPayload(o)
    BY <1>10 DEF PutReplace, Whole
  <2>2. k \in Key /\ o \in Obj /\ DirOf[k] \in dirs
    BY <2>1, Writing
  <2>3. /\ files' = [files EXCEPT ![k] = Framing!PackPayload(o)]
        /\ tmps' = [tmps EXCEPT ![k] = None]
        /\ lock' = None /\ pinned' \in {pinned, pinned \union {k}}
        /\ UNCHANGED <<dirs, crashes, spoiled>>
    BY <1>10, <2>1 DEF PutReplace
  <2>4. ~Inside(t)' /\ ~At(t, "write")'
    BY <1>1, <1>3, <1>10, Returns DEF Inside, At, PutReplace
  <2>5. LockInv'
    BY <1>1, <1>2, <2>1, <2>3, <2>4, LockKept DEF LockInv, At
  <2>6. WritesInv'
    BY <1>1, <1>2, <2>1, <2>4, Alone DEF WritesInv, At, Inside
  <2>7. FilesInv'
    BY <2>2, <2>3, Framed DEF Inv, FilesInv
  <2> QED
    BY <1>4, <2>2, <2>3, <2>5, <2>6, <2>7 DEF Inv, TypeOK
<1>11. CASE GetExists(t)
  <2>1. ~Inside(t)' /\ ~At(t, "write")'
    <3>1. Return(t) => proc'[t].at = "idle"
      BY <1>1, <1>3, Returns
    <3>2. Goto(t, "read") => proc'[t].at = "read"
      BY <1>1, <1>2, <1>11, Moves DEF GetExists, At, Fits, Label
    <3> QED
      BY <1>11, <3>1, <3>2 DEF Inside, At, GetExists
  <2> QED
    BY <1>5, <1>6, <1>11, <2>1 DEF GetExists, At, Inside, diskVars, Inv, TypeOK
<1>12. CASE GetRead(t) \/ PinKey(t)
  <2>1. ~Inside(t) /\ ~Inside(t)' /\ ~At(t, "write")'
    BY <1>1, <1>3, <1>12, Returns DEF GetRead, PinKey, Inside, At
  <2>2. pinned' \subseteq Key
    BY <1>2, <1>12 DEF GetRead, PinKey, At, Fits, Inv, TypeOK
  <2> QED
    BY <1>5, <1>6, <1>12, <2>1, <2>2 DEF GetRead, PinKey, diskVars, Inv, TypeOK
<1>13. ASSUME Removed(t), At(t, "remove") \/ At(t, "rmdir")
       PROVE  ~Inside(t)' /\ ~At(t, "write")'
  <2>1. CASE proc[t].op = "clear"
    <3>1. Fits("next", proc[t].op, proc[t].key, proc[t].obj)
      BY <1>2, <2>1 DEF Fits
    <3> QED
      BY <1>1, <1>13, <2>1, <3>1, Moves DEF Removed, Label, Inside, At
  <2>2. CASE proc[t].op # "clear"
    BY <1>1, <1>3, <1>13, <2>2, Returns DEF Removed, Inside, At
  <2> QED
    BY <2>1, <2>2
<1>14. CASE RemoveUnpin(t)
  <2>1. /\ At(t, "remove") /\ lock = None /\ pinned' \subseteq Key
        /\ UNCHANGED <<dirs, files, tmps, crashes, spoiled>>
    BY <1>14 DEF RemoveUnpin, diskVars, Inv, TypeOK
  <2>2. CASE Removed(t) /\ UNCHANGED lock
    BY <1>5, <1>6, <1>13, <2>1, <2>2 DEF Inv, TypeOK, At, Inside
  <2>3. CASE Goto(t, "unlink") /\ lock' = t
    <3>1. proc'[t].at = "unlink"
      BY <1>1, <1>2, <2>1, <2>3, Moves DEF At, Fits, Label
    <3>2. LockInv'
      BY <1>1, <1>2, <2>1, <2>3, <3>1, LockKept DEF Inside
    <3> QED
      BY <1>5, <2>1, <3>1, <3>2 DEF Inv, TypeOK, At
  <2> QED
    BY <1>14, <2>2, <2>3 DEF RemoveUnpin
<1>15. CASE RemoveUnlink(t)
  <2> DEFINE k == proc[t].key
  <2>1. /\ At(t, "unlink") /\ files' = [files EXCEPT ![k] = None]
        /\ UNCHANGED <<dirs, tmps, lock, pinned, crashes, spoiled>>
    BY <1>15 DEF RemoveUnlink
  <2>2. proc'[t].at = "rmdir"
    BY <1>1, <1>2, <1>15, Moves DEF RemoveUnlink, At, Fits, Label
  <2>3. LockInv'
    BY <1>1, <1>2, <2>1, <2>2, LockKept DEF Inside, At
  <2>4. WritesInv'
    BY <1>2, <2>1, <2>2 DEF Inv, WritesInv, At
  <2>5. FilesInv'
    BY <2>1 DEF Inv, FilesInv
  <2> QED
    BY <1>4, <2>1, <2>3, <2>4, <2>5 DEF Inv, TypeOK
<1>16. CASE RemoveRmdir(t)
  <2> DEFINE d == DirOf[proc[t].key]
  <2>1. /\ At(t, "rmdir") /\ dirs' = (IF InDir(d) = {} THEN dirs \ {d} ELSE dirs)
        /\ lock' = None /\ Removed(t)
        /\ UNCHANGED <<files, tmps, pinned, crashes, spoiled>>
    BY <1>16 DEF RemoveRmdir
  <2>2. ~Inside(t)' /\ ~At(t, "write")'
    BY <1>13, <2>1
  <2>3. LockInv'
    BY <1>1, <1>2, <2>1, <2>2, LockKept DEF LockInv, At
  <2>4. \A k \in Key : files[k] # None \/ tmps[k] # None => DirOf[k] \in dirs'
    BY <2>1 DEF InDir, Inv, TypeOK
  <2> QED
    BY <1>5, <2>1, <2>2, <2>3, <2>4 DEF Inv, TypeOK
<1>17. CASE Keys(t) \/ ClearNext(t)
  <2>1. ~Inside(t) /\ ~Inside(t)' /\ ~At(t, "write")'
    <3>1. proc[t] \in CallRecord
      BY <1>1 DEF CallsInv
    <3>2. proc'[t].at \in {"idle", "next", "remove"}
      BY <1>17, <1>3, <3>1 DEF Keys, ClearNext, Return, CallsInv, Inv, CallRecord
    <3> QED
      BY <1>17, <3>2 DEF Keys, ClearNext, Inside, At
  <2> QED
    BY <1>5, <1>6, <1>17, <2>1 DEF Keys, ClearNext, diskVars, Inv, TypeOK
<1> QED
  BY <1>7, <1>8, <1>9, <1>10, <1>11, <1>12, <1>14, <1>15, <1>16, <1>17 DEF Step

LEMMA CallKeepsInv ==
  ASSUME Inv, NEW t \in Thread, Call(t)
  PROVE  Inv'
<1>1. CallsInv /\ LockInv
  BY TypeParts DEF Inv
<1>2. PICK call : /\ Begin(t, call) /\ WellCalled(call)
                  /\ call.at \in {"mkdir", "get", "remove", "pin", "unpin", "keys"}
  BY <1>1, CallBegins
<1>3. /\ CallsInv' /\ proc'[t].at = call.at
      /\ \A u \in Thread \ {t} : /\ proc'[u].at = proc[u].at
                                 /\ proc'[u].key = proc[u].key /\ proc'[u].obj = proc[u].obj
  BY <1>1, <1>2, Begins
<1>4. At(t, "idle") /\ UNCHANGED <<dirs, files, tmps, lock, pinned, crashes, spoiled>>
  BY DEF Call, diskVars
<1>5. ~Inside(t) /\ ~Inside(t)' /\ ~At(t, "write")'
  BY <1>2, <1>3, <1>4 DEF Inside, At
<1>6. LockInv'
  BY <1>1, <1>3, <1>4, <1>5, LockKept
<1>7. WritesInv'
  BY <1>3, <1>4, <1>5 DEF Inv, WritesInv, At
<1> QED
  BY <1>3, <1>4, <1>6, <1>7 DEF Inv, TypeOK, LockInv, FilesInv

LEMMA CrashKeepsInv == Inv /\ Crash => Inv'
<1> SUFFICES ASSUME Inv, Crash PROVE Inv'
  OBVIOUS
<1>1. /\ proc' = [t \in Thread |-> Idle] /\ lock' = None /\ pinned' = {}
      /\ UNCHANGED <<dirs, files, tmps>> /\ crashes' = crashes + 1 /\ crashes < MaxCrashes
  BY DEF Crash, diskVars
<1>2. CallsInv'
  BY <1>1, IdleIsWellCalled DEF CallsInv, WellCalled
<1>3. WritesInv'
  BY <1>1 DEF WritesInv, At, Idle
<1>4. LockInv'
  BY <1>1, DiskNoneAssumption DEF LockInv, Idle
<1>5. spoiled' \subseteq Dir
  <2>1. \A t \in Thread : proc[t].key # None => DirOf[proc[t].key] \in Dir
    BY Arguments, DirOfAssumption DEF Inv
  <2> QED
    BY <2>1 DEF Crash, Inv, TypeOK
<1>6. crashes' \in 0 .. MaxCrashes
  BY <1>1, CrashesAssumption DEF Inv, TypeOK
<1> QED
  BY <1>1, <1>2, <1>3, <1>4, <1>5, <1>6 DEF Inv, TypeOK, LockInv, FilesInv

LEMMA NextKeepsInv == Inv /\ [Next]_vars => Inv'
<1>1. Inv /\ UNCHANGED vars => Inv'
  BY DEF vars, Inv, TypeOK, FilesInv, WritesInv, CallsInv, At
<1> QED
  BY <1>1, CallKeepsInv, CrashKeepsInv, StepKeepsInv DEF Next

THEOREM Invariance == Spec => []Inv
BY InitInv, NextKeepsInv, PTL DEF Spec

\* Every variable has its shape, the lock is held exactly by the thread between open and
\* rename or between unlink and rmdir, and a file has a directory (store/disk.py).
THEOREM TypeCorrect == Spec => []TypeOK
<1>1. Inv => TypeOK
  BY DEF Inv
<1> QED
  BY <1>1, Invariance, PTL

-----------------------------------------------------------------------------
(***************************************************************************)
(* The files are a map from keys to whole objects: only the rename of a    *)
(* put and the unlink of a remove change what they hold, by one key each.  *)
(***************************************************************************)
LEMMA ContentChanges ==
  ASSUME Inv, NEW t \in Thread, PutReplace(t) \/ RemoveUnlink(t)
  PROVE  \E k \in Key : Abstract!Effect(k)
<1> DEFINE k == proc[t].key
<1>1. k \in Key /\ (At(t, "write") => proc[t].obj \in Obj)
  BY Arguments DEF PutReplace, RemoveUnlink, At, Fits, Inv
<1>2. DOMAIN files = Key
  BY DEF Inv, FilesInv
<1>3. CASE PutReplace(t)
  <2> DEFINE o == proc[t].obj
  <2>1. files' = [files EXCEPT ![k] = Framing!PackPayload(o)] /\ o \in Obj
    BY <1>1, <1>3 DEF PutReplace, Whole
  <2>2. Content' = [Content EXCEPT ![k] = o]
    BY <1>1, <1>2, <2>1, Framed DEF Content
  <2>3. Content = [j \in Key |-> IF j \in {} THEN None ELSE Content[j]]
    BY DEF Content
  <2>4. {} \in SUBSET (Abstract!Evictable \ {k})
    OBVIOUS
  <2>5. Abstract!Stored(k, o, FALSE)
    BY <2>2, <2>3, <2>4 DEF Abstract!Stored, Abstract!Without
  <2> QED
    BY <1>1, <2>1, <2>5 DEF Abstract!Effect
<1>4. CASE RemoveUnlink(t)
  <2>1. files' = [files EXCEPT ![k] = None]
    BY <1>4 DEF RemoveUnlink
  <2>2. Content' = [j \in Key |-> IF j \in {k} THEN None ELSE Content[j]]
    BY <1>1, <1>2, <2>1 DEF Content
  <2>3. Abstract!Removed(k)
    BY <2>2 DEF Abstract!Removed, Abstract!Without
  <2> QED
    BY <1>1, <2>3 DEF Abstract!Effect
<1> QED
  BY <1>3, <1>4

LEMMA EffectOrStutter ==
  ASSUME Inv, [Next]_vars
  PROVE  [\E k \in Key : Abstract!Effect(k)]_<<Content, {}>>
<1>1. UNCHANGED files => UNCHANGED Content
  BY DEF Content
<1>2. CASE UNCHANGED files
  BY <1>1, <1>2
<1>3. CASE \E t \in Thread : PutReplace(t) \/ RemoveUnlink(t)
  BY <1>3, ContentChanges
<1>4. UNCHANGED files \/ \E t \in Thread : PutReplace(t) \/ RemoveUnlink(t)
  BY DEF Next, Crash, Call, Step, PutMkdir, PutOpen, PutWrite, GetExists, GetRead,
         RemoveUnpin, RemoveRmdir, Keys, ClearNext, PinKey, diskVars, vars
<1> QED
  BY <1>2, <1>3, <1>4

\* Whatever calls overlap, fail half way or are cut off by a crash, the files implement
\* the contract of base.py: what is read under a key is what one put wrote.
THEOREM Implements == Spec => ImplementsContract
<1>1. Init => Abstract!Empty
  BY DEF Init, Abstract!Empty, Content
<1>2. Inv /\ [Next]_vars => [\E k \in Key : Abstract!Effect(k)]_<<Content, {}>>
  BY EffectOrStutter
<1> QED
  BY <1>1, <1>2, Invariance, PTL DEF Spec, ImplementsContract, Abstract!Contract

-----------------------------------------------------------------------------
(***************************************************************************)
(* FileNotFoundError only where a remove overlaps.                         *)
(***************************************************************************)

\* A step of a call that goes on puts nobody in danger who was not before, and nobody
\* is forgotten to have been raced.
LEMMA DangerKept ==
  ASSUME RacedInv, NEW t \in Thread, Proceeds(t), NEW u \in Thread,
         proc'[u].op \in {"put", "get"}
  PROVE  /\ proc[u].op \in {"put", "get"} /\ proc'[u].key = proc[u].key
         /\ proc'[u].raced = proc[u].raced
         /\ Endangered(u)' => Endangered(u)
<1>1. Idle.op = "none"
  BY DEF Idle
<1>2. proc[u].op = proc'[u].op /\ proc'[u].key = proc[u].key /\ proc'[u].raced = proc[u].raced
  BY <1>1 DEF Proceeds
<1>3. ASSUME NEW v \in Thread, NEW d, Removes(proc'[v], d)
      PROVE  Removes(proc[v], d)
  BY <1>1, <1>3 DEF Removes, Proceeds
<1>4. Endangered(u)' => Endangered(u)
  BY <1>2, <1>3 DEF Endangered
<1> QED
  BY <1>2, <1>4

LEMMA StepKeepsRaced ==
  ASSUME Inv, RacedInv, NEW t \in Thread, Step(t)
  PROVE  RacedInv'
<1>1. CallsInv /\ CallsInv' /\ Proceeds(t)
  BY StepCalls DEF Inv
<1> SUFFICES ASSUME NEW u \in Thread, proc'[u].op \in {"put", "get"}
             PROVE  /\ Endangered(u)' => proc'[u].raced
                    /\ proc'[u].at = "open" /\ DirOf[proc'[u].key] \notin dirs' => proc'[u].raced
                    /\ proc'[u].at = "read" /\ files'[proc'[u].key] = None => proc'[u].raced
  BY DEF RacedInv, At
<1> DEFINE k == proc[u].key
<1>2. /\ proc[u].op \in {"put", "get"} /\ proc'[u].key = k /\ proc'[u].raced = proc[u].raced
      /\ Endangered(u)' => Endangered(u)
      /\ Endangered(u) => proc[u].raced
  BY <1>1, DangerKept DEF RacedInv
<1>3. k \in Key /\ Fits(proc[t].at, proc[t].op, proc[t].key, proc[t].obj)
  BY <1>1, <1>2, Arguments DEF Fits
\* Whoever removes the directory or the file is another thread, in a call that removes.
<1>4. ASSUME proc'[u].at = "open", DirOf[k] \notin dirs' PROVE proc[u].raced
  <2>1. CASE PutMkdir(t)
    <3>1. u # t
      BY <1>4, <2>1 DEF PutMkdir
    <3> QED
      BY <1>1, <1>2, <1>4, <2>1, <3>1 DEF PutMkdir, Proceeds, RacedInv, At
  <2>2. CASE RemoveRmdir(t) /\ DirOf[k] \in dirs
    <3>1. /\ DirOf[proc[t].key] = DirOf[k] /\ proc[t].op \in {"remove", "clear"}
      BY <1>3, <1>4, <2>2 DEF RemoveRmdir, At, Fits
    <3>2. u # t
      BY <1>2, <3>1
    <3> QED
      BY <1>2, <3>1, <3>2 DEF Endangered, Removes
  <2>3. CASE DirOf[k] \notin dirs /\ ~PutMkdir(t)
    <3>1. proc[u].at = "open"
      <4>1. CASE u # t
        BY <1>1, <1>4, <4>1 DEF Proceeds
      <4>2. CASE u = t
        <5>1. proc'[t].at = "open" /\ proc[t].op \in {"put", "get"}
          BY <1>2, <1>4, <4>2
        <5>2. ~Return(t)
          BY <1>1, <5>1, Returns DEF Idle
        <5>3. PutOpen(t) \/ PutWrite(t) \/ GetExists(t)
          BY <1>3, <5>1, <5>2, <2>3 DEF Step, PutReplace, GetRead, PinKey, Keys, ClearNext,
             RemoveUnpin, RemoveUnlink, RemoveRmdir, At, Fits
        <5>4. CASE PutOpen(t)
          BY <4>2, <5>4 DEF PutOpen, At
        <5>5. CASE PutWrite(t)
          BY <4>2, <5>1, <5>2, <5>5 DEF PutWrite
        <5>6. CASE GetExists(t)
          <6>1. Goto(t, "read") /\ At(t, "get")
            BY <5>2, <5>6 DEF GetExists
          <6>2. proc'[t].at = "read"
            BY <1>1, <1>3, <6>1, Moves DEF At, Fits, Label
          <6> QED
            BY <5>1, <6>2
        <5> QED
          BY <5>3, <5>4, <5>5, <5>6
      <4> QED
        BY <4>1, <4>2
    <3> QED
      BY <1>2, <2>3, <3>1 DEF RacedInv, At
  <2>4. DirOf[k] \in dirs => RemoveRmdir(t)
    BY <1>4 DEF Step, PutMkdir, PutOpen, PutWrite, PutReplace, GetExists, GetRead, RemoveUnpin,
       RemoveUnlink, Keys, ClearNext, PinKey, diskVars
  <2> QED
    BY <2>1, <2>2, <2>3, <2>4
<1>5. ASSUME proc'[u].at = "read", files'[k] = None PROVE proc[u].raced
  <2>1. DOMAIN files = Key
    BY DEF Inv, FilesInv
  <2>2. CASE RemoveUnlink(t) /\ files[k] # None
    <3>1. proc[t].key = k /\ proc[t].op \in {"remove", "clear"}
      BY <1>3, <1>5, <2>1, <2>2 DEF RemoveUnlink, At, Fits
    <3>2. u # t
      BY <1>2, <3>1
    <3> QED
      BY <1>2, <3>1, <3>2 DEF Endangered, Removes
  <2>3. CASE files[k] = None
    <3>1. proc[u].at = "read"
      <4>1. CASE u # t
        BY <1>1, <1>5, <4>1 DEF Proceeds
      <4>2. CASE u = t
        <5>1. ~Return(t)
          BY <1>1, <1>5, <4>2, Returns DEF Idle
        <5>2. PutMkdir(t) \/ PutOpen(t) \/ PutWrite(t)
          BY <1>2, <1>3, <2>3, <4>2, <5>1 DEF Step, PutReplace, GetExists, GetRead, PinKey, Keys,
             ClearNext, RemoveUnpin, RemoveUnlink, RemoveRmdir, At, Fits
        <5>3. Fits("open", proc[t].op, proc[t].key, proc[t].obj)
              /\ Fits("write", proc[t].op, proc[t].key, proc[t].obj)
          BY <1>3, <5>2 DEF PutMkdir, PutOpen, PutWrite, At, Fits
        <5>4. CASE Goto(t, "open")
          BY <1>1, <1>5, <4>2, <5>3, <5>4, Moves DEF Label
        <5>5. CASE Goto(t, "write")
          BY <1>1, <1>5, <4>2, <5>3, <5>5, Moves DEF Label
        <5>6. CASE proc' = proc /\ At(t, "write")
          BY <1>5, <4>2, <5>6 DEF At
        <5> QED
          BY <5>1, <5>2, <5>4, <5>5, <5>6 DEF PutMkdir, PutOpen, PutWrite
      <4> QED
        BY <4>1, <4>2
    <3> QED
      BY <1>2, <2>3, <3>1 DEF RacedInv, At
  <2>4. files[k] # None => RemoveUnlink(t)
    <3>1. ASSUME PutReplace(t) PROVE files'[k] = files[k] \/ files'[k] # None
      <4>1. files' = [files EXCEPT ![proc[t].key] = Framing!PackPayload(proc[t].obj)]
            /\ proc[t].obj \in Obj
        BY <1>3, <3>1 DEF PutReplace, Whole, At, Fits
      <4> QED
        BY <2>1, <1>3, <4>1, Framed
    <3> QED
      BY <1>5, <3>1 DEF Step, PutMkdir, PutOpen, PutWrite, GetExists, GetRead, RemoveUnpin,
         RemoveRmdir, Keys, ClearNext, PinKey, diskVars
  <2> QED
    BY <2>2, <2>3, <2>4
<1> QED
  BY <1>2, <1>4, <1>5

LEMMA CallKeepsRaced ==
  ASSUME Inv, RacedInv, NEW t \in Thread, Call(t)
  PROVE  RacedInv'
<1>1. CallsInv
  BY DEF Inv
<1>2. PICK call : /\ Begin(t, call) /\ WellCalled(call)
                  /\ call.at \in {"mkdir", "get", "remove", "pin", "unpin", "keys"}
  BY <1>1, CallBegins
<1>3. /\ CallsInv'
      /\ proc'[t].at = call.at /\ proc'[t].op = call.op /\ proc'[t].key = call.key
      /\ proc'[t].raced =
           (call.key # None /\ \E v \in Thread \ {t} : Removes(proc[v], DirOf[call.key]))
      /\ \A u \in Thread \ {t} :
           /\ proc'[u].at = proc[u].at /\ proc'[u].op = proc[u].op /\ proc'[u].key = proc[u].key
           /\ proc'[u].raced = (proc[u].raced \/ (proc[u].key # None /\
                                                    Removes(call, DirOf[proc[u].key])))
  BY <1>1, <1>2, Begins
<1>4. UNCHANGED <<dirs, files>>
  BY DEF Call, diskVars
<1>5. \A u \in Thread : proc'[u].op \in {"put", "get"} => proc'[u].key # None
  BY <1>3, DiskNoneAssumption DEF CallsInv, WellCalled, Fits
<1>6. \A v \in Thread \ {t}, d \in Dir : Removes(proc'[v], d) = Removes(proc[v], d)
  BY <1>3 DEF Removes
<1>7. \A d \in Dir : Removes(proc'[t], d) = Removes(call, d)
  BY <1>3 DEF Removes
<1> SUFFICES ASSUME NEW u \in Thread, proc'[u].op \in {"put", "get"}
             PROVE  /\ Endangered(u)' => proc'[u].raced
                    /\ proc'[u].at = "open" /\ DirOf[proc'[u].key] \notin dirs' => proc'[u].raced
                    /\ proc'[u].at = "read" /\ files'[proc'[u].key] = None => proc'[u].raced
  BY DEF RacedInv, At
<1>8. DirOf[proc'[u].key] \in Dir
  BY <1>3, DirOfAssumption DEF CallsInv, WellCalled, Fits
<1>9. CASE u = t
  BY <1>2, <1>3, <1>5, <1>6, <1>8, <1>9 DEF Endangered
<1>10. CASE u # t
  <2>1. /\ proc'[u].key = proc[u].key /\ proc[u].op \in {"put", "get"} /\ proc[u].key # None
        /\ proc'[u].at = proc[u].at
        /\ proc[u].raced => proc'[u].raced
        /\ Removes(call, DirOf[proc[u].key]) => proc'[u].raced
    BY <1>3, <1>5, <1>10
  <2>2. ASSUME Endangered(u)' PROVE proc'[u].raced
    BY <1>6, <1>7, <1>8, <2>1, <2>2 DEF Endangered, RacedInv
  <2> QED
    BY <1>4, <2>1, <2>2 DEF RacedInv, At
<1> QED
  BY <1>9, <1>10

\* put and get raise FileNotFoundError (disk.py:38, 48) only when a remove or a clear in
\* the same cache has been under way meanwhile.
THEOREM RacedOnly == Spec => []NotFoundOnlyIfRaced
<1>1. Init => RacedInv
  BY DEF Init, RacedInv, Idle
<1>2. Crash => RacedInv'
  BY DEF Crash, RacedInv, Idle
<1>3. RacedInv /\ UNCHANGED vars => RacedInv'
  BY DEF vars, RacedInv, Endangered, Removes, At
<1>4. Inv /\ RacedInv /\ [Next]_vars => RacedInv'
  BY <1>2, <1>3, StepKeepsRaced, CallKeepsRaced DEF Next
<1>5. Inv /\ RacedInv => NotFoundOnlyIfRaced
  <2> SUFFICES ASSUME Inv, RacedInv, NEW t \in Thread, RaisesNotFound(t)
               PROVE  proc[t].raced
    BY DEF NotFoundOnlyIfRaced
  <2>1. proc[t].op \in {"put", "get"}
    BY Arguments DEF Inv, RaisesNotFound, At, Fits
  <2> QED
    BY <2>1 DEF RacedInv, RaisesNotFound
<1> QED
  BY <1>1, <1>4, <1>5, Invariance, PTL DEF Spec

-----------------------------------------------------------------------------
(***************************************************************************)
(* Nothing is left behind.                                                 *)
(***************************************************************************)
Uses(u, d) == proc[u].at \in {"open", "write", "rmdir"} /\ DirOf[proc[u].key] = d

\* A step changes TidyInv only in what it does to its own key and directory.
LEMMA StepKeepsTidy ==
  ASSUME Inv, TidyInv, NEW t \in Thread, Step(t)
  PROVE  TidyInv'
<1> DEFINE key == proc[t].key
           dir == DirOf[key]
<1>1. CallsInv /\ CallsInv' /\ Proceeds(t) /\ LockInv
  BY StepCalls, TypeParts DEF Inv
<1>2. /\ \A u \in Thread \ {t} : proc'[u] = proc[u]
      /\ Fits(proc[t].at, proc[t].op, proc[t].key, proc[t].obj)
  BY <1>1, Arguments DEF Proceeds
<1>3. DOMAIN files = Key /\ DOMAIN tmps = Key
  BY DEF Inv, TypeOK
\* Temporary files: only PutOpen makes one, for a thread that writes it.
<1>4. ASSUME NEW k \in Key, tmps'[k] # None, DirOf[k] \notin spoiled'
      PROVE  \E u \in Thread : At(u, "write")' /\ proc'[u].key = k
  <2>1. spoiled \subseteq spoiled'
    BY DEF Step, PutMkdir, PutOpen, PutWrite, PutReplace, GetExists, GetRead, RemoveUnpin,
       RemoveUnlink, RemoveRmdir, Keys, ClearNext, PinKey, diskVars
  <2>2. CASE PutOpen(t) /\ dir \in dirs /\ k = key
    <3>1. proc'[t].at = "write" /\ proc'[t].key = key
      BY <1>1, <1>2, <2>2, Moves DEF PutOpen, At, Fits, Label
    <3> QED
      BY <2>2, <3>1 DEF At
  <2>3. CASE PutWrite(t) /\ k = key
    <3>1. UNCHANGED proc /\ At(t, "write")
      BY <1>4, <2>3 DEF PutWrite
    <3> QED
      BY <2>3, <3>1 DEF At
  <2>4. CASE tmps[k] # None /\ ~(PutOpen(t) /\ dir \in dirs /\ k = key) /\ ~(PutWrite(t) /\ k = key)
    <3>1. PICK u \in Thread : At(u, "write") /\ proc[u].key = k
      BY <1>4, <2>1, <2>4 DEF TidyInv
    <3>2. CASE u # t
      BY <1>2, <3>1, <3>2 DEF At
    <3>3. CASE u = t
      <4>1. PutReplace(t)
        BY <2>4, <3>1, <3>3 DEF Step, PutMkdir, PutOpen, PutWrite, PutReplace, GetExists, GetRead,
           RemoveUnpin, RemoveUnlink, RemoveRmdir, Keys, ClearNext, PinKey, At
      <4> QED
        BY <1>3, <1>4, <3>1, <3>3, <4>1 DEF PutReplace
    <3> QED
      BY <3>2, <3>3
  <2>5. tmps[k] # None \/ (PutOpen(t) /\ dir \in dirs /\ k = key) \/ (PutWrite(t) /\ k = key)
    BY <1>3, <1>4 DEF Step, PutMkdir, PutOpen, PutWrite, PutReplace, GetExists, GetRead, RemoveUnpin,
       RemoveUnlink, RemoveRmdir, Keys, ClearNext, PinKey, diskVars
  <2> QED
    BY <2>2, <2>3, <2>4, <2>5
\* Directories: one that is used stays used until it holds a file or is removed.
<1>5. ASSUME NEW d \in dirs' \ spoiled'
      PROVE  \/ \E k \in Key : DirOf[k] = d /\ files'[k] # None
             \/ \E u \in Thread : Uses(u, d)'
  <2> DEFINE Holds == \E k \in Key : DirOf[k] = d /\ files[k] # None
  <2>1. d \in dirs => Holds \/ \E u \in Thread : Uses(u, d)
    <3>1. spoiled \subseteq spoiled'
      BY DEF Step, PutMkdir, PutOpen, PutWrite, PutReplace, GetExists, GetRead, RemoveUnpin,
         RemoveUnlink, RemoveRmdir, Keys, ClearNext, PinKey, diskVars
    <3> QED
      BY <1>5, <3>1 DEF TidyInv, Uses
  <2>2. ASSUME NEW u \in Thread, Uses(u, d), u # t PROVE Uses(u, d)'
    BY <1>2, <2>2 DEF Uses
  <2>3. CASE PutMkdir(t) /\ d = dir
    <3>1. proc'[t].at = "open" /\ proc'[t].key = key
      BY <1>1, <1>2, <2>3, Moves DEF PutMkdir, At, Fits, Label
    <3> QED
      BY <2>3, <3>1 DEF Uses
  <2>4. CASE RemoveUnlink(t) /\ d = dir
    <3>1. proc'[t].at = "rmdir" /\ proc'[t].key = key
      BY <1>1, <1>2, <2>4, Moves DEF RemoveUnlink, At, Fits, Label
    <3> QED
      BY <2>4, <3>1 DEF Uses
  <2>5. CASE RemoveRmdir(t) /\ d = dir
    <3>1. InDir(d) # {} /\ dirs' = dirs /\ UNCHANGED <<files, tmps, spoiled>>
      BY <1>5, <2>5 DEF RemoveRmdir
    <3>2. PICK k \in Key : DirOf[k] = d /\ (files[k] # None \/ tmps[k] # None)
      BY <3>1 DEF InDir
    <3>3. CASE tmps[k] # None
      <4>1. PICK u \in Thread : At(u, "write") /\ proc[u].key = k
        BY <1>5, <3>1, <3>2, <3>3 DEF TidyInv
      <4>2. u # t
        BY <2>5, <4>1 DEF RemoveRmdir, At
      <4> QED
        BY <2>2, <3>2, <4>1, <4>2 DEF Uses, At
    <3> QED
      BY <3>1, <3>2, <3>3
  <2>6. CASE PutOpen(t) /\ d = dir
    <3>1. dir \in dirs
      BY <1>5, <2>6 DEF PutOpen
    <3>2. proc'[t].at = "write" /\ proc'[t].key = key
      BY <1>1, <1>2, <2>6, <3>1, Moves DEF PutOpen, At, Fits, Label
    <3> QED
      BY <2>6, <3>2 DEF Uses
  <2>7. CASE PutWrite(t) /\ d = dir
    <3>1. UNCHANGED proc /\ At(t, "write")
      BY <1>5, <2>7 DEF PutWrite
    <3> QED
      BY <2>7, <3>1 DEF Uses, At
  <2>8. CASE PutReplace(t)
    <3>1. /\ key \in Key /\ proc[t].obj \in Obj
          /\ files' = [files EXCEPT ![key] = Framing!PackPayload(proc[t].obj)]
          /\ Framing!PackPayload(proc[t].obj) # None
      BY <1>2, <2>8, Framed DEF PutReplace, Whole, At, Fits
    <3>2. CASE d = dir
      BY <1>3, <3>1, <3>2
    <3>3. CASE d # dir
      <4>1. d \in dirs
        BY <1>5, <2>8 DEF PutReplace
      <4>2. CASE Holds
        BY <1>3, <3>1, <4>2
      <4>3. ~Uses(t, d)
        BY <3>3 DEF Uses
      <4> QED
        BY <2>1, <2>2, <4>1, <4>2, <4>3
    <3> QED
      BY <3>2, <3>3
  <2>9. CASE /\ ~(PutMkdir(t) /\ d = dir) /\ ~(RemoveUnlink(t) /\ d = dir)
             /\ ~(RemoveRmdir(t) /\ d = dir) /\ ~(PutOpen(t) /\ d = dir)
             /\ ~(PutWrite(t) /\ d = dir) /\ ~PutReplace(t)
    <3>1. d \in dirs /\ ~Uses(t, d)
      BY <1>5, <2>9 DEF Uses, Step, PutMkdir, PutOpen, PutWrite, GetExists, GetRead, RemoveUnpin,
         RemoveUnlink, RemoveRmdir, Keys, ClearNext, PinKey, diskVars, At
    <3>2. Holds => \E k \in Key : DirOf[k] = d /\ files'[k] # None
      BY <1>3, <2>9 DEF Step, PutMkdir, PutOpen, PutWrite, GetExists, GetRead, RemoveUnpin,
         RemoveUnlink, RemoveRmdir, Keys, ClearNext, PinKey, diskVars
    <3> QED
      BY <2>1, <2>2, <3>1, <3>2
  <2> QED
    BY <2>3, <2>4, <2>5, <2>6, <2>7, <2>8, <2>9
<1> QED
  BY <1>4, <1>5 DEF TidyInv, Uses, At

LEMMA CallKeepsTidy ==
  ASSUME Inv, TidyInv, NEW t \in Thread, Call(t)
  PROVE  TidyInv'
<1>1. CallsInv
  BY DEF Inv
<1>2. PICK call : Begin(t, call) /\ WellCalled(call)
  BY <1>1, CallBegins
<1>3. \A u \in Thread \ {t} : proc'[u].at = proc[u].at /\ proc'[u].key = proc[u].key
  BY <1>1, <1>2, Begins
<1>4. At(t, "idle") /\ UNCHANGED <<dirs, files, tmps, spoiled>>
  BY DEF Call, diskVars
<1> QED
  BY <1>3, <1>4 DEF TidyInv, At

LEMMA CrashKeepsTidy ==
  ASSUME Inv, TidyInv, Crash
  PROVE  TidyInv'
<1>1. UNCHANGED <<dirs, files, tmps>>
      /\ spoiled' = spoiled \union {DirOf[proc[t].key] : t \in {u \in Thread : proc[u].key # None}}
  BY DEF Crash, diskVars
<1>2. ASSUME NEW u \in Thread, proc[u].at \in {"open", "write", "rmdir"}
      PROVE  DirOf[proc[u].key] \in spoiled'
  <2>1. proc[u].key # None
    BY <1>2, Arguments, DiskNoneAssumption DEF Inv, Fits
  <2> QED
    BY <1>1, <2>1
<1> QED
  BY <1>1, <1>2 DEF TidyInv, At

\* Between calls on a cache its directory exists only with a file in it and there is no
\* temporary file, unless a put in it has failed or the process has crashed in one
\* (disk.py:61).
THEOREM Tidy == Spec => []NothingLeftBehind
<1>1. Init => TidyInv
  BY DEF Init, TidyInv
<1>2. TidyInv /\ UNCHANGED vars => TidyInv'
  BY DEF vars, TidyInv, At
<1>3. Inv /\ TidyInv /\ [Next]_vars => TidyInv'
  BY <1>2, StepKeepsTidy, CallKeepsTidy, CrashKeepsTidy DEF Next
<1>4. Inv /\ TidyInv => NothingLeftBehind
  <2> SUFFICES ASSUME Inv, TidyInv, NEW d \in Dir \ spoiled, Quiet(d)
               PROVE  /\ d \in dirs => \E k \in Key : DirOf[k] = d /\ files[k] # None
                      /\ \A k \in Key : DirOf[k] = d => tmps[k] = None
    BY DEF NothingLeftBehind
  <2>1. \A t \in Thread : proc[t].at \in {"open", "write", "rmdir"} => DirOf[proc[t].key] # d
    BY Arguments, DiskNoneAssumption DEF Inv, Quiet, Fits
  <2> QED
    BY <2>1 DEF TidyInv, At
<1> QED
  BY <1>1, <1>3, <1>4, Invariance, PTL DEF Spec
=============================================================================
