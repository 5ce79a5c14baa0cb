--------------------------- MODULE TieredBackend ---------------------------
(***************************************************************************)
(* The two-tier store, store/tiered.py: a CPUBackend as hot tier whose     *)
(* evictions are demoted into a cold tier.  Each tier locks its own calls  *)
(* and nothing locks the two together, so a thread can be overtaken        *)
(* between its call to one tier and its call to the other.  Demotion       *)
(* happens inside the hot tier's put, under its lock.                      *)
(*                                                                         *)
(* The cold tier is a StorageBackend without capacity (DiskBackend ignores *)
(* the one it is given) that keeps its objects, not its pins, over a       *)
(* restart, and whose writes may fail.                                     *)
(***************************************************************************)
EXTENDS Integers, FiniteSets

CONSTANTS Thread, Key, Obj, None,
          Nbytes, Capacity,   \* of the hot tier
          Ops,                \* the methods that are called
          PinChoices,         \* the values of the argument pin
          ColdFails,          \* whether a write to the cold tier may fail (disk full)
          MaxRestarts         \* bound: how often the process restarts

Operation == {"put", "get", "remove", "pin", "unpin"}

ASSUME NoneAssumption == None \notin Obj
ASSUME SizesAssumption == Nbytes \in [Obj -> Nat] /\ (Capacity \in Nat \/ Capacity = None)
ASSUME OpsAssumption == Ops \subseteq Operation
ASSUME ChoicesAssumption == PinChoices \subseteq BOOLEAN /\ ColdFails \in BOOLEAN
ASSUME RestartsAssumption == MaxRestarts \in Nat

VARIABLES hot, order, hotPins, used,   \* self.hot
          cold, coldPins,              \* self.cold
          proc,                        \* the call each thread is in
          restarts,
          latest,     \* history: the object last put under each key, None once removed
          refused,    \* history: the keys whose last put was refused
          promised    \* history: the keys put with pin=True and not removed since

hotTier == <<hot, order, hotPins, used>>
coldTier == <<cold, coldPins>>
history == <<latest, refused, promised>>
vars == <<hot, order, hotPins, used, cold, coldPins, proc, restarts, latest, refused, promised>>

Hot == INSTANCE CPUBackend
         WITH data <- hot, older <- order, pinned <- hotPins, last <- None
Cold == INSTANCE StorageBackend
          WITH content <- cold, pinned <- coldPins, last <- None, Bounded <- FALSE, Lossy <- FALSE

Idle == [at |-> "idle", op |-> "none", key |-> None, obj |-> None, pin |-> FALSE]

Init == /\ Hot!Empty
        /\ cold = [k \in Key |-> None] /\ coldPins = {}
        /\ proc = [t \in Thread |-> Idle]
        /\ restarts = 0
        /\ latest = [k \in Key |-> None] /\ refused = {} /\ promised = {}

At(t, label) == proc[t].at = label
Goto(t, label) == proc' = [proc EXCEPT ![t].at = label]
Return(t) == proc' = [proc EXCEPT ![t] = Idle]

\* A method is called; its first step is on the hot tier.
Call(t) ==
    /\ At(t, "idle")
    /\ \E op \in Ops, k \in Key :
         \E o \in IF op = "put" THEN Obj ELSE {None},
            pin \in IF op = "put" THEN PinChoices ELSE {FALSE} :
            proc' = [proc EXCEPT ![t] = [at |-> "hot", op |-> op, key |-> k, obj |-> o, pin |-> pin]]
    /\ UNCHANGED <<hotTier, coldTier, restarts, history>>

(***************************************************************************)
(* hot.put with on_evict = _demote: each victim is put, unpinned, into the *)
(* cold tier.  When that fails the victim has left the hot tier already;   *)
(* the older ones are demoted, and the put goes no further.                *)
(***************************************************************************)
\* Mutant: what is evicted is dropped.
Demoted_Dropped(gone) == cold' = cold

Demoted(gone) == cold' = [j \in Key |-> IF j \in gone THEN hot[j] ELSE cold[j]]

HotStored(k, o, p) == Hot!Stored(k, o, p) /\ Demoted(Hot!Victims(k, Nbytes[o]))
HotRefused(k, o) == Hot!Refused(k, o) /\ Demoted(Hot!Victims(k, Nbytes[o]))

HotFailed(k, o) ==
    /\ ColdFails
    /\ \E v \in Hot!Victims(k, Nbytes[o]) :
         LET before == {u \in Hot!Victims(k, Nbytes[o]) : <<u, v>> \in order}
         IN  Hot!Drop(Hot!Replaced(k) \union before \union {v}) /\ Demoted(before)
    /\ UNCHANGED hotPins

(***************************************************************************)
(* put: hot, then, if it is to be pinned, cold.                            *)
(***************************************************************************)
PutHot(t) ==
    LET k == proc[t].key
    IN  /\ At(t, "hot") /\ proc[t].op = "put"
        /\ \/ /\ HotStored(k, proc[t].obj, proc[t].pin)
              /\ IF proc[t].pin THEN Goto(t, "cold") ELSE Return(t)
              /\ latest' = [latest EXCEPT ![k] = proc[t].obj]
              /\ refused' = refused \ {k}
           \/ /\ HotRefused(k, proc[t].obj) \/ HotFailed(k, proc[t].obj)
              /\ Return(t)
              /\ refused' = refused \union {k}
              /\ UNCHANGED latest
        /\ UNCHANGED <<coldPins, restarts, promised>>

\* Mutant: a pinned object goes into the cold tier only when it is evicted.
PutCold_Skipped(t) ==
    /\ At(t, "cold") /\ proc[t].op = "put"
    /\ Return(t)
    /\ promised' = promised \union {proc[t].key}
    /\ UNCHANGED <<hotTier, coldTier, restarts, latest, refused>>

PutCold(t) ==
    /\ At(t, "cold") /\ proc[t].op = "put"
    /\ \/ /\ Cold!Stored(proc[t].key, proc[t].obj, TRUE)
          /\ promised' = promised \union {proc[t].key}
       \/ /\ ColdFails
          /\ UNCHANGED <<coldTier, promised>>
    /\ Return(t)
    /\ UNCHANGED <<hotTier, restarts, latest, refused>>

(***************************************************************************)
(* get: hot, then cold; what is found there is put back into the hot tier, *)
(* whatever has happened in the meantime.                                  *)
(***************************************************************************)
GetHot(t) ==
    /\ At(t, "hot") /\ proc[t].op = "get"
    /\ Hot!Touched(proc[t].key)
    /\ IF hot[proc[t].key] # None THEN Return(t) ELSE Goto(t, "cold")
    /\ UNCHANGED <<coldTier, restarts, history>>

\* Mutant: a miss of both tiers is promoted too.
GetCold_Unchecked(t) ==
    /\ At(t, "cold") /\ proc[t].op = "get"
    /\ proc' = [proc EXCEPT ![t].at = "promote", ![t].obj = cold[proc[t].key]]
    /\ UNCHANGED <<hotTier, coldTier, restarts, history>>

GetCold(t) ==
    /\ At(t, "cold") /\ proc[t].op = "get"
    /\ IF cold[proc[t].key] = None
       THEN Return(t)
       ELSE proc' = [proc EXCEPT ![t].at = "promote", ![t].obj = cold[proc[t].key]]
    /\ UNCHANGED <<hotTier, coldTier, restarts, history>>

\* When the hot tier raises, the read fails although it found the object.
Promote(t) ==
    LET k == proc[t].key
    IN  /\ At(t, "promote")
        /\ \/ HotStored(k, proc[t].obj, FALSE) /\ Return(t)
           \/ HotRefused(k, proc[t].obj) /\ Return(t)
           \/ HotFailed(k, proc[t].obj) /\ Return(t)
        /\ UNCHANGED <<coldPins, restarts, history>>

(***************************************************************************)
(* remove, pin and unpin: hot, then cold.                                  *)
(***************************************************************************)
RemoveHot(t) ==
    /\ At(t, "hot") /\ proc[t].op = "remove"
    /\ Hot!Removed(proc[t].key)
    /\ Goto(t, "cold")
    /\ UNCHANGED <<coldTier, restarts, history>>

\* Mutant: the cold copy is left alone.
RemoveCold_Kept(t) ==
    LET k == proc[t].key
    IN  /\ At(t, "cold") /\ proc[t].op = "remove"
        /\ Return(t)
        /\ latest' = [latest EXCEPT ![k] = None]
        /\ refused' = refused \ {k}
        /\ promised' = promised \ {k}
        /\ UNCHANGED <<hotTier, coldTier, restarts>>

RemoveCold(t) ==
    LET k == proc[t].key
    IN  /\ At(t, "cold") /\ proc[t].op = "remove"
        /\ Cold!Removed(k)
        /\ Return(t)
        /\ latest' = [latest EXCEPT ![k] = None]
        /\ refused' = refused \ {k}
        /\ promised' = promised \ {k}
        /\ UNCHANGED <<hotTier, restarts>>

PinHot(t) ==
    /\ At(t, "hot") /\ proc[t].op \in {"pin", "unpin"}
    /\ IF proc[t].op = "pin" THEN Hot!Pinned(proc[t].key) ELSE Hot!Unpinned(proc[t].key)
    /\ Goto(t, "cold")
    /\ UNCHANGED <<coldTier, restarts, history>>

PinCold(t) ==
    /\ At(t, "cold") /\ proc[t].op \in {"pin", "unpin"}
    /\ IF proc[t].op = "pin" THEN Cold!Pinned(proc[t].key) ELSE Cold!Unpinned(proc[t].key)
    /\ Return(t)
    /\ UNCHANGED <<hotTier, restarts, history>>

\* The process restarts: the hot tier and both sets of pins are in memory only.
Restart ==
    /\ restarts < MaxRestarts
    /\ restarts' = restarts + 1
    /\ hot' = [k \in Key |-> None] /\ order' = {} /\ used' = 0
    /\ hotPins' = {} /\ coldPins' = {}
    /\ proc' = [t \in Thread |-> Idle]
    /\ UNCHANGED <<cold, history>>

Step(t) == \/ PutHot(t) \/ PutCold(t)
           \/ GetHot(t) \/ GetCold(t) \/ Promote(t)
           \/ RemoveHot(t) \/ RemoveCold(t) \/ PinHot(t) \/ PinCold(t)

Next == Restart \/ \E t \in Thread : Call(t) \/ Step(t)

Spec == Init /\ [][Next]_vars

-----------------------------------------------------------------------------
(***************************************************************************)
(* Properties.                                                             *)
(***************************************************************************)
TypeOK ==
    /\ Hot!TypeOK
    /\ cold \in [Key -> Obj \union {None}] /\ coldPins \subseteq Key
    /\ proc \in [Thread -> [at : {"idle", "hot", "cold", "promote"},
                            op : Operation \union {"none"}, key : Key \union {None},
                            obj : Obj \union {None}, pin : BOOLEAN]]
    /\ \A t \in Thread : At(t, "promote") => proc[t].obj # None
    /\ latest \in [Key -> Obj \union {None}] /\ refused \subseteq Key /\ promised \subseteq Key

Held == {k \in Key : hot[k] # None \/ cold[k] # None}
Visible(k) == IF hot[k] # None THEN hot[k] ELSE cold[k]
Quiet(k) == \A t \in Thread : proc[t].key # k

\* An object the hot tier evicts "is demoted to cold rather than dropped" (tiered.py:4):
\* the store loses a key only in a call on that key or in a restart, never because room
\* was made for another one.
NeverDropped ==
    [][\A k \in Held \ Held' :
          restarts' # restarts \/ \E t \in Thread : proc[t].key = k /\ proc'[t] # proc[t]]_vars

\* "Pinned objects are also persisted to the cold tier so a hot-tier restart does not
\* lose a guaranteed cache" (tiered.py:35-36): once a put with pin=True has returned,
\* the cold tier holds the key until somebody removes it, whatever is demoted, promoted,
\* refused or restarted in between.
PinnedPutPersisted == \A k \in promised : cold[k] # None

\* Between calls a key shows the object last put under it, through every demotion and
\* promotion, whichever tier it is in.
LatestVisible == \A k \in Key \ refused : Quiet(k) => Visible(k) = latest[k]
=============================================================================
