----------------------------- MODULE DiskBackend -----------------------------
(***************************************************************************)
(* The cold tier on a local file system, store/disk.py: a directory per    *)
(* cache, a file per chunk, written under a temporary name and renamed.    *)
(* The lock covers open, write and rename of put, and unlink and rmdir of  *)
(* remove; put makes the directory before it takes the lock, and get, pin  *)
(* and unpin never take it.  One step is one call to the file system.      *)
(*                                                                         *)
(* A file under its own name is never written, only replaced or unlinked,  *)
(* so what a reader has opened cannot change: opening and reading are one  *)
(* step.  After a crash of the process the files are as they were.         *)
(***************************************************************************)
EXTENDS Integers, Sequences, FiniteSets

CONSTANTS Thread, Key, Obj, None,
          Dir,          \* the cache directories
          DirOf,        \* path.parent of a key: the directory of its cache id
          CutShort, Failure,
          PinChoices,   \* the values of the argument pin
          WriteFails,   \* whether a write may fail (disk full)
          MaxCrashes    \* bound: how often the process crashes and starts again

ASSUME DiskNoneAssumption == None \notin Obj \union Key \union Thread
ASSUME DirOfAssumption == DirOf \in [Key -> Dir]
ASSUME DiskChoicesAssumption == PinChoices \subseteq BOOLEAN /\ WriteFails \in BOOLEAN
ASSUME CrashesAssumption == MaxCrashes \in Nat

VARIABLES dirs,      \* the cache directories that exist
          files,     \* the bytes of the .kvp file of each key, or None
          tmps,      \* the bytes of the .tmp file of each key, or None
          lock,      \* the thread that holds self._lock, or None
          pinned,    \* self._pinned
          proc,      \* the call each thread is in
          crashes,
          spoiled    \* history: the directories with a put that crashed or failed

diskVars == <<dirs, files, tmps>>
vars == <<dirs, files, tmps, lock, pinned, proc, crashes, spoiled>>

Framing == INSTANCE KVPayload

ASSUME NoneIsNoBlob == None \notin Framing!PartialBlob

Idle == [at |-> "idle", op |-> "none", key |-> None, obj |-> None, pin |-> FALSE,
         rest |-> {}, raced |-> FALSE]

Init == /\ dirs = {}
        /\ files = [k \in Key |-> None]
        /\ tmps = [k \in Key |-> None]
        /\ lock = None /\ pinned = {}
        /\ proc = [t \in Thread |-> Idle]
        /\ crashes = 0 /\ spoiled = {}

At(t, label) == proc[t].at = label
Goto(t, label) == proc' = [proc EXCEPT ![t].at = label]
Return(t) == proc' = [proc EXCEPT ![t] = Idle]

\* A call that may take files and the directory d away.
Removes(call, d) == call.op = "clear" \/ (call.op = "remove" /\ DirOf[call.key] = d)

\* A method is called; raced notes whether a call that removes from the same directory
\* has been under way at the same time.
Begin(t, call) ==
    proc' = [u \in Thread |->
               IF u = t
               THEN [call EXCEPT !.raced = call.key # None /\
                                   \E v \in Thread \ {t} : Removes(proc[v], DirOf[call.key])]
               ELSE [proc[u] EXCEPT !.raced = @ \/ (proc[u].key # None /\
                                                      Removes(call, DirOf[proc[u].key]))]]

Call(t) ==
    /\ At(t, "idle")
    /\ \/ \E k \in Key, o \in Obj, p \in PinChoices :
            Begin(t, [Idle EXCEPT !.at = "mkdir", !.op = "put", !.key = k, !.obj = o, !.pin = p])
       \/ \E k \in Key, op \in {"get", "remove", "pin", "unpin"} :
            Begin(t, [Idle EXCEPT !.at = op, !.op = op, !.key = k])
       \/ Begin(t, [Idle EXCEPT !.at = "keys", !.op = "clear"])
    /\ UNCHANGED <<diskVars, lock, pinned, crashes, spoiled>>

-----------------------------------------------------------------------------
(***************************************************************************)
(* put.                                                                    *)
(***************************************************************************)
PutMkdir(t) ==
    /\ At(t, "mkdir")
    /\ dirs' = dirs \union {DirOf[proc[t].key]}
    /\ Goto(t, "open")
    /\ UNCHANGED <<files, tmps, lock, pinned, crashes, spoiled>>

\* Mutant: an open that fails does not give the lock back.
PutOpen_KeepsLock(t) ==
    LET k == proc[t].key
    IN  /\ At(t, "open") /\ lock = None
        /\ lock' = t
        /\ \/ /\ DirOf[k] \in dirs
              /\ tmps' = [tmps EXCEPT ![k] = <<>>]
              /\ Goto(t, "write")
           \/ /\ DirOf[k] \notin dirs
              /\ Return(t)
              /\ UNCHANGED tmps
        /\ UNCHANGED <<dirs, files, pinned, crashes, spoiled>>

\* The lock is taken and the temporary file made anew, if the directory is still there.
PutOpen(t) ==
    LET k == proc[t].key
    IN  /\ At(t, "open") /\ lock = None
        /\ \/ /\ DirOf[k] \in dirs
              /\ lock' = t
              /\ tmps' = [tmps EXCEPT ![k] = <<>>]
              /\ Goto(t, "write")
           \/ /\ DirOf[k] \notin dirs
              /\ Return(t)      \* FileNotFoundError
              /\ UNCHANGED <<lock, tmps>>
        /\ UNCHANGED <<dirs, files, pinned, crashes, spoiled>>

Whole(t) == tmps[proc[t].key] = Framing!PackPayload(proc[t].obj)

\* Mutant: a write that fails is begun again, under the lock.
PutWrite_Retried(t) ==
    LET k == proc[t].key
    IN  /\ At(t, "write") /\ ~Whole(t)
        /\ \/ tmps' = [tmps EXCEPT ![k] = SubSeq(Framing!PackPayload(proc[t].obj), 1, Len(@) + 1)]
           \/ WriteFails /\ tmps' = [tmps EXCEPT ![k] = <<>>]
        /\ UNCHANGED <<dirs, files, lock, pinned, proc, crashes, spoiled>>

PutWrite(t) ==
    LET k == proc[t].key
    IN  /\ At(t, "write") /\ ~Whole(t)
        /\ \/ /\ tmps' = [tmps EXCEPT ![k] = SubSeq(Framing!PackPayload(proc[t].obj), 1, Len(@) + 1)]
              /\ UNCHANGED <<lock, proc, spoiled>>
           \/ /\ WriteFails
              /\ lock' = None
              /\ Return(t)      \* OSError
              /\ spoiled' = spoiled \union {DirOf[k]}
              /\ UNCHANGED tmps
        /\ UNCHANGED <<dirs, files, pinned, crashes>>

\* Mutant: renamed before what was written has been flushed.
PutReplace_Unflushed(t) ==
    LET k == proc[t].key
    IN  /\ At(t, "write")
        /\ files' = [files EXCEPT ![k] = tmps[k]]
        /\ tmps' = [tmps EXCEPT ![k] = None]
        /\ pinned' = IF proc[t].pin THEN pinned \union {k} ELSE pinned
        /\ lock' = None
        /\ Return(t)
        /\ UNCHANGED <<dirs, crashes, spoiled>>

PutReplace(t) ==
    LET k == proc[t].key
    IN  /\ At(t, "write") /\ Whole(t)
        /\ files' = [files EXCEPT ![k] = tmps[k]]
        /\ tmps' = [tmps EXCEPT ![k] = None]
        /\ pinned' = IF proc[t].pin THEN pinned \union {k} ELSE pinned
        /\ lock' = None
        /\ Return(t)
        /\ UNCHANGED <<dirs, crashes, spoiled>>

(***************************************************************************)
(* get: the file is looked for, then opened.                               *)
(***************************************************************************)
\* Mutant: opened without looking.
GetExists_Unchecked(t) ==
    /\ At(t, "get")
    /\ Goto(t, "read")
    /\ UNCHANGED <<diskVars, lock, pinned, crashes, spoiled>>

GetExists(t) ==
    /\ At(t, "get")
    /\ IF files[proc[t].key] = None THEN Return(t) ELSE Goto(t, "read")
    /\ UNCHANGED <<diskVars, lock, pinned, crashes, spoiled>>

\* What the caller gets: the unpacked bytes, if the file is still there.
GetRead(t) ==
    /\ At(t, "read")
    /\ Return(t)
    /\ UNCHANGED <<diskVars, lock, pinned, crashes, spoiled>>

(***************************************************************************)
(* remove.  clear removes one by one the keys it has listed.               *)
(***************************************************************************)
Removed(t) == IF proc[t].op = "clear" THEN Goto(t, "next") ELSE Return(t)

RemoveUnpin(t) ==
    /\ At(t, "remove") /\ lock = None
    /\ pinned' = pinned \ {proc[t].key}
    /\ IF files[proc[t].key] = None
       THEN Removed(t) /\ UNCHANGED lock
       ELSE Goto(t, "unlink") /\ lock' = t
    /\ UNCHANGED <<diskVars, crashes, spoiled>>

RemoveUnlink(t) ==
    /\ At(t, "unlink")
    /\ files' = [files EXCEPT ![proc[t].key] = None]
    /\ Goto(t, "rmdir")
    /\ UNCHANGED <<dirs, tmps, lock, pinned, crashes, spoiled>>

InDir(d) == {k \in Key : DirOf[k] = d /\ (files[k] # None \/ tmps[k] # None)}

\* Mutant: the directory is left alone.
RemoveRmdir_Never(t) ==
    /\ At(t, "rmdir")
    /\ lock' = None
    /\ Removed(t)
    /\ UNCHANGED <<diskVars, pinned, crashes, spoiled>>

\* rmdir fails, and the failure is ignored, if anything is left in the directory, a
\* temporary file included.
RemoveRmdir(t) ==
    LET d == DirOf[proc[t].key]
    IN  /\ At(t, "rmdir")
        /\ dirs' = IF InDir(d) = {} THEN dirs \ {d} ELSE dirs
        /\ lock' = None
        /\ Removed(t)
        /\ UNCHANGED <<files, tmps, pinned, crashes, spoiled>>

Keys(t) ==
    /\ At(t, "keys")
    /\ proc' = [proc EXCEPT ![t].at = "next", ![t].rest = {k \in Key : files[k] # None}]
    /\ UNCHANGED <<diskVars, lock, pinned, crashes, spoiled>>

ClearNext(t) ==
    /\ At(t, "next")
    /\ \/ proc[t].rest = {} /\ Return(t)
       \/ \E k \in proc[t].rest :
            proc' = [proc EXCEPT ![t].at = "remove", ![t].key = k, ![t].rest = @ \ {k}]
    /\ UNCHANGED <<diskVars, lock, pinned, crashes, spoiled>>

PinKey(t) ==
    /\ At(t, "pin") \/ At(t, "unpin")
    /\ pinned' = IF At(t, "pin") THEN pinned \union {proc[t].key} ELSE pinned \ {proc[t].key}
    /\ Return(t)
    /\ UNCHANGED <<diskVars, lock, crashes, spoiled>>

\* The process crashes and is started again: the calls under way, the lock and the pins
\* are gone, the file system stays.
Crash ==
    /\ crashes < MaxCrashes
    /\ crashes' = crashes + 1
    /\ spoiled' = spoiled \union {DirOf[proc[t].key] : t \in {u \in Thread : proc[u].key # None}}
    /\ proc' = [t \in Thread |-> Idle]
    /\ lock' = None /\ pinned' = {}
    /\ UNCHANGED diskVars

Step(t) == \/ PutMkdir(t) \/ PutOpen(t) \/ PutWrite(t) \/ PutReplace(t)
           \/ GetExists(t) \/ GetRead(t)
           \/ RemoveUnpin(t) \/ RemoveUnlink(t) \/ RemoveRmdir(t)
           \/ Keys(t) \/ ClearNext(t) \/ PinKey(t)

Next == Crash \/ \E t \in Thread : Call(t) \/ Step(t)

\* A thread inside a call is scheduled again; no fairness between threads that wait for
\* the lock.
Spec == Init /\ [][Next]_vars /\ \A t \in Thread : WF_vars(Step(t))

-----------------------------------------------------------------------------
(***************************************************************************)
(* Properties.                                                             *)
(***************************************************************************)

\* Every variable has its shape, the lock is held exactly by the thread between open and
\* rename or between unlink and rmdir, and a file has a directory.
TypeOK ==
    /\ dirs \subseteq Dir /\ pinned \subseteq Key /\ spoiled \subseteq Dir
    /\ files \in [Key -> Framing!PartialBlob \union {None}]
    /\ tmps \in [Key -> Framing!PartialBlob \union {None}]
    /\ \A t \in Thread : lock = t <=> proc[t].at \in {"write", "unlink", "rmdir"}
    /\ \A k \in Key : files[k] # None \/ tmps[k] # None => DirOf[k] \in dirs
    /\ crashes \in 0 .. MaxCrashes

\* The files are a map from keys to whole objects, as base.py promises, however calls
\* overlap, fail half way or are cut off by a crash: what is read under a key is what one
\* put wrote, never a part of it ("lets explicit caches persist across process restarts",
\* disk.py:3-5).  Nothing is evicted, so pins protect nothing and none are shown.
Content == [k \in Key |-> IF files[k] = None THEN None ELSE Framing!UnpackPayload(files[k])]

Abstract == INSTANCE StorageBackend
              WITH content <- Content, pinned <- {}, last <- None, Bounded <- FALSE, Lossy <- FALSE

ImplementsContract == Abstract!Contract

\* put and get raise FileNotFoundError (disk.py:38, 48) only when another thread was
\* removing from the same cache meanwhile: mkdir and the test for the file, both outside
\* the lock, are enough for callers that do not overlap with a remove.
RaisesNotFound(t) == \/ At(t, "open") /\ lock = None /\ DirOf[proc[t].key] \notin dirs
                     \/ At(t, "read") /\ files[proc[t].key] = None

NotFoundOnlyIfRaced == \A t \in Thread : RaisesNotFound(t) => proc[t].raced

\* Nothing is left behind: between calls on a cache its directory exists only with a
\* file in it and there is no temporary file, unless a put has failed or the process has
\* crashed in it (disk.py:61 "remove cache dir if now empty").
Quiet(d) == \A t \in Thread : proc[t].key = None \/ DirOf[proc[t].key] # d

NothingLeftBehind ==
    \A d \in Dir \ spoiled : Quiet(d) =>
        /\ d \in dirs => \E k \in Key : DirOf[k] = d /\ files[k] # None
        /\ \A k \in Key : DirOf[k] = d => tmps[k] = None

\* The lock is given back by every call that takes it, whatever fails inside.
LockReleased == \A t \in Thread : lock = t ~> lock # t
=============================================================================
