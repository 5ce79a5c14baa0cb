------------------------ MODULE TieredBackendProofs ------------------------
(***************************************************************************)
(* What a restart cannot take away, for any number of threads and keys,    *)
(* any sizes and capacity, and writes to the cold tier that may fail.      *)
(***************************************************************************)
EXTENDS TieredBackend, TLAPS

\* A call carries the key it was given and, if it is a put, the object.
CallsInv ==
    /\ DOMAIN proc = Thread
    /\ \A t \in Thread : /\ ~At(t, "idle") => proc[t].key \in Key
                         /\ proc[t].op = "put" => proc[t].obj \in Obj

\* CallsInv makes PinnedPutPersisted inductive: what PutCold writes is an object.
PersistInv == CallsInv /\ promised \subseteq Key /\ PinnedPutPersisted

\* The hot tier evicts what it holds, so a demotion takes no object out of the cold tier.
LEMMA DemotionKeeps ==
  ASSUME NEW gone, gone \subseteq Hot!Resident, Demoted(gone), promised \subseteq Key,
         PinnedPutPersisted, promised' = promised
  PROVE  PinnedPutPersisted'
BY DEF Demoted, Hot!Resident, PinnedPutPersisted

LEMMA VictimsResident ==
  ASSUME NEW k, NEW n PROVE Hot!Victims(k, n) \subseteq Hot!Resident
BY DEF Hot!Victims, Hot!Evictable

LEMMA HotWriteKeeps ==
  ASSUME NEW k, NEW o, NEW p,
         HotStored(k, o, p) \/ HotRefused(k, o) \/ HotFailed(k, o),
         promised \subseteq Key, PinnedPutPersisted, promised' = promised
  PROVE  PinnedPutPersisted'
<1>1. CASE HotStored(k, o, p) \/ HotRefused(k, o)
  BY <1>1, VictimsResident, DemotionKeeps DEF HotStored, HotRefused
<1>2. CASE HotFailed(k, o)
  <2>1. PICK v \in Hot!Victims(k, Nbytes[o]) :
               Demoted({u \in Hot!Victims(k, Nbytes[o]) : <<u, v>> \in order})
    BY <1>2 DEF HotFailed
  <2>2. {u \in Hot!Victims(k, Nbytes[o]) : <<u, v>> \in order} \subseteq Hot!Resident
    BY VictimsResident
  <2> QED
    BY <2>1, <2>2, DemotionKeeps
<1> QED
  BY <1>1, <1>2

\* No step changes the key or the object of a call but the one that begins it.
LEMMA CallsInvStep ==
  ASSUME CallsInv, [Next]_vars PROVE CallsInv'
<1>1. CASE UNCHANGED vars
  BY <1>1 DEF vars, CallsInv, At
<1>2. CASE Restart
  BY <1>2 DEF Restart, CallsInv, At, Idle
<1>3. ASSUME NEW t \in Thread, Call(t) PROVE CallsInv'
  <2>1. PICK op \in Ops, k \in Key :
          \E o \in IF op = "put" THEN Obj ELSE {None},
             pin \in IF op = "put" THEN PinChoices ELSE {FALSE} :
             proc' = [proc EXCEPT ![t] = [at |-> "hot", op |-> op, key |-> k, obj |-> o, pin |-> pin]]
    BY <1>3 DEF Call
  <2> QED
    BY <2>1 DEF CallsInv, At
<1>4. ASSUME NEW t \in Thread, Step(t) PROVE CallsInv'
  <2>1. CASE Return(t)
    BY <2>1 DEF Return, CallsInv, At, Idle
  <2>2. CASE ~At(t, "idle") /\ \E label \in {"cold", "promote"} : Goto(t, label)
    BY <2>2 DEF Goto, CallsInv, At
  <2>3. CASE GetCold(t)
    <3>1. CASE Return(t)
      BY <2>1, <3>1
    <3>2. CASE proc' = [proc EXCEPT ![t].at = "promote", ![t].obj = cold[proc[t].key]]
      <4>1. proc[t].op = "get" /\ proc[t].key \in Key
        BY <2>3 DEF GetCold, CallsInv, At
      <4>2. DOMAIN proc' = Thread /\ proc'[t].op = "get" /\ proc'[t].key = proc[t].key
        BY <3>2, <4>1 DEF CallsInv
      <4>3. \A u \in Thread \ {t} : proc'[u] = proc[u]
        BY <3>2 DEF CallsInv
      <4> QED
        BY <4>1, <4>2, <4>3 DEF CallsInv, At
    <3> QED
      BY <2>3, <3>1, <3>2 DEF GetCold
  <2>4. \/ Return(t)
        \/ ~At(t, "idle") /\ \E label \in {"cold", "promote"} : Goto(t, label)
        \/ GetCold(t)
    BY <1>4 DEF Step, At, PutHot, PutCold, GetHot, Promote, RemoveHot, RemoveCold, PinHot, PinCold
  <2> QED
    BY <2>1, <2>2, <2>3, <2>4
<1> QED
  BY <1>1, <1>2, <1>3, <1>4 DEF Next

\* PinnedPutPersisted, step by step.
LEMMA PersistStep ==
  ASSUME PersistInv, [Next]_vars PROVE promised' \subseteq Key /\ PinnedPutPersisted'
<1> USE DEF PersistInv
<1>1. CASE UNCHANGED vars
  BY <1>1 DEF vars, PinnedPutPersisted
<1>2. CASE Restart
  BY <1>2 DEF Restart, history, PinnedPutPersisted
<1>3. ASSUME NEW t \in Thread, Call(t)
      PROVE  promised' \subseteq Key /\ PinnedPutPersisted'
  BY <1>3 DEF Call, coldTier, history, PinnedPutPersisted
<1>4. ASSUME NEW t \in Thread, PutHot(t) \/ Promote(t)
      PROVE  promised' \subseteq Key /\ PinnedPutPersisted'
  <2>1. /\ promised' = promised
        /\ \E p : \/ HotStored(proc[t].key, proc[t].obj, p)
                  \/ HotRefused(proc[t].key, proc[t].obj)
                  \/ HotFailed(proc[t].key, proc[t].obj)
    BY <1>4 DEF PutHot, Promote, history
  <2> QED
    BY <2>1, HotWriteKeeps
<1>5. ASSUME NEW t \in Thread, PutCold(t)
      PROVE  promised' \subseteq Key /\ PinnedPutPersisted'
  <2>1. proc[t].key \in Key /\ proc[t].obj \in Obj
    BY <1>5 DEF PutCold, At, CallsInv
  <2>2. CASE /\ Cold!Stored(proc[t].key, proc[t].obj, TRUE)
             /\ promised' = promised \union {proc[t].key}
    <3>1. cold' = [[j \in Key |-> cold[j]] EXCEPT ![proc[t].key] = proc[t].obj]
      BY <2>2 DEF Cold!Stored, Cold!Evictable, Cold!Without
    <3> QED
      BY <2>1, <2>2, <3>1, NoneAssumption DEF PinnedPutPersisted
  <2>3. CASE UNCHANGED <<coldTier, promised>>
    BY <2>3 DEF coldTier, PinnedPutPersisted
  <2> QED
    BY <1>5, <2>2, <2>3 DEF PutCold
<1>6. ASSUME NEW t \in Thread, GetHot(t) \/ GetCold(t) \/ RemoveHot(t) \/ PinHot(t)
      PROVE  promised' \subseteq Key /\ PinnedPutPersisted'
  BY <1>6 DEF GetHot, GetCold, RemoveHot, PinHot, coldTier, history, PinnedPutPersisted
<1>7. ASSUME NEW t \in Thread, RemoveCold(t)
      PROVE  promised' \subseteq Key /\ PinnedPutPersisted'
  <2>1. cold' = [j \in Key |-> IF j \in {proc[t].key} THEN None ELSE cold[j]]
    BY <1>7 DEF RemoveCold, Cold!Removed, Cold!Without
  <2>2. promised' = promised \ {proc[t].key}
    BY <1>7 DEF RemoveCold
  <2> QED
    BY <2>1, <2>2 DEF PinnedPutPersisted
<1>8. ASSUME NEW t \in Thread, PinCold(t)
      PROVE  promised' \subseteq Key /\ PinnedPutPersisted'
  <2>1. cold' = cold /\ promised' = promised
    BY <1>8 DEF PinCold, Cold!Pinned, Cold!Unpinned, history
  <2> QED
    BY <2>1 DEF PinnedPutPersisted
<1> QED
  BY <1>1, <1>2, <1>3, <1>4, <1>5, <1>6, <1>7, <1>8 DEF Next, Step

\* "Pinned objects are also persisted to the cold tier" (tiered.py:35-36): what a put
\* with pin=True that returned has put there stays there until it is removed.
THEOREM PinnedPutsPersist == Spec => []PinnedPutPersisted
<1>1. Init => PersistInv
  BY DEF Init, PersistInv, CallsInv, PinnedPutPersisted, At, Idle
<1>2. PersistInv /\ [Next]_vars => PersistInv'
  <2> SUFFICES ASSUME PersistInv, [Next]_vars PROVE PersistInv'
    OBVIOUS
  <2>1. CallsInv'
    BY CallsInvStep DEF PersistInv
  <2> QED
    BY <2>1, PersistStep DEF PersistInv
<1>3. PersistInv => PinnedPutPersisted
  BY DEF PersistInv
<1> QED
  BY <1>1, <1>2, <1>3, PTL DEF Spec
-----------------------------------------------------------------------------
(***************************************************************************)
(* The hot tier inside the store: what CPUBackendProofs shows of a store   *)
(* on its own holds of it between the steps of any number of threads.      *)
(***************************************************************************)
HotProofs == INSTANCE CPUBackendProofs
               WITH data <- hot, older <- order, pinned <- hotPins, last <- None

\* Hot and HotProofs speak of the same operations.
LEMMA SameHot ==
  ASSUME NEW k, NEW o, NEW p, NEW gone
  PROVE  /\ Hot!Empty <=> HotProofs!Empty
         /\ Hot!Stored(k, o, p) <=> HotProofs!Stored(k, o, p)
         /\ Hot!Refused(k, o) <=> HotProofs!Refused(k, o)
         /\ Hot!Victims(k, Nbytes[o]) = HotProofs!Victims(k, Nbytes[o])
         /\ Hot!Replaced(k) = HotProofs!Replaced(k)
         /\ Hot!Resident = HotProofs!Resident
         /\ Hot!Drop(gone) <=> HotProofs!Drop(gone)
         /\ Hot!Touched(k) <=> HotProofs!Touched(k)
         /\ Hot!TypeOK <=> HotProofs!TypeOK
<1>1. \A S : Hot!Cardinality(S) = HotProofs!Cardinality(S)
  BY DEF Hot!Cardinality, HotProofs!Cardinality
<1>2. \A S : Hot!Bytes(S) = HotProofs!Bytes(S)
  BY <1>1 DEF Hot!Bytes, Hot!Slots, HotProofs!Bytes, HotProofs!Slots
<1>3. Hot!Resident = HotProofs!Resident /\ Hot!Replaced(k) = HotProofs!Replaced(k)
  BY DEF Hot!Resident, HotProofs!Resident, Hot!Replaced, HotProofs!Replaced
<1>4. \A n, S : Hot!Fits(n, S) <=> HotProofs!Fits(n, S)
  BY <1>2 DEF Hot!Fits, HotProofs!Fits
<1>5. Hot!Victims(k, Nbytes[o]) = HotProofs!Victims(k, Nbytes[o])
  BY <1>3, <1>4 DEF Hot!Victims, Hot!Evictable, Hot!TooBig,
                    HotProofs!Victims, HotProofs!Evictable, HotProofs!TooBig
<1>6. \A S : Hot!Drop(S) <=> HotProofs!Drop(S)
  BY <1>2 DEF Hot!Drop, HotProofs!Drop
<1>7. \A S : Hot!Newest(k, S) = HotProofs!Newest(k, S)
  BY DEF Hot!Newest, HotProofs!Newest
<1>8. Hot!Refused(k, o) <=> HotProofs!Refused(k, o)
  BY <1>3, <1>4, <1>5, <1>6 DEF Hot!Refused, HotProofs!Refused
<1>9. Hot!Stored(k, o, p) <=> HotProofs!Stored(k, o, p)
  BY <1>2, <1>3, <1>4, <1>5, <1>7 DEF Hot!Stored, HotProofs!Stored
<1>10. Hot!Touched(k) <=> HotProofs!Touched(k)
  BY <1>3, <1>7 DEF Hot!Touched, HotProofs!Touched
<1>11. Hot!Empty <=> HotProofs!Empty
  BY DEF Hot!Empty, HotProofs!Empty
<1>12. Hot!TypeOK <=> HotProofs!TypeOK
  BY <1>3 DEF Hot!TypeOK, HotProofs!TypeOK
<1> QED
  BY <1>3, <1>5, <1>6, <1>8, <1>9, <1>10, <1>11, <1>12

\* A write to the hot tier, in a put or a promotion.
LEMMA HotWritten ==
  ASSUME HotProofs!TierInv, NEW k \in Key, NEW o \in Obj, NEW p \in BOOLEAN,
         HotStored(k, o, p) \/ HotRefused(k, o) \/ HotFailed(k, o)
  PROVE  HotProofs!TierInv'
<1> DEFINE gone == Hot!Replaced(k) \union Hot!Victims(k, Nbytes[o])
<1>1. gone \subseteq Hot!Resident
  BY VictimsResident DEF Hot!Replaced
<1>2. ASSUME NEW some \in SUBSET gone, Hot!Drop(some), hotPins' = hotPins
      PROVE  HotProofs!TierInv'
  BY <1>1, <1>2, SameHot, HotProofs!TierDrop, NoneAssumption, SizesAssumption
<1>3. CASE HotStored(k, o, p)
  <2>1. HotProofs!Stored(k, o, p)
    BY <1>3, SameHot DEF HotStored
  <2> QED
    BY <2>1, HotProofs!TierStored, NoneAssumption, SizesAssumption
<1>4. CASE HotRefused(k, o)
  BY <1>2, <1>4 DEF HotRefused, Hot!Refused
<1>5. CASE HotFailed(k, o)
  <2>1. PICK v \in Hot!Victims(k, Nbytes[o]) :
           Hot!Drop(Hot!Replaced(k) \union {u \in Hot!Victims(k, Nbytes[o]) : <<u, v>> \in order}
                                    \union {v})
    BY <1>5 DEF HotFailed
  <2>2. hotPins' = hotPins
    BY <1>5 DEF HotFailed
  <2> QED
    BY <1>2, <2>1, <2>2
<1> QED
  BY <1>3, <1>4, <1>5

\* Objects are removed, read, pinned and unpinned.
LEMMA HotOthers ==
  ASSUME HotProofs!TierInv, NEW k \in Key,
         Hot!Touched(k) \/ Hot!Removed(k) \/ Hot!Pinned(k) \/ Hot!Unpinned(k)
  PROVE  HotProofs!TierInv'
<1>1. hotPins \subseteq Key
  BY DEF HotProofs!TierInv, HotProofs!ContentInv
<1>2. CASE Hot!Touched(k)
  BY <1>2, SameHot, HotProofs!TierTouched, NoneAssumption, SizesAssumption
<1>3. CASE k \in Hot!Resident /\ Hot!Drop({k}) /\ hotPins' = hotPins \ {k}
  BY <1>3, SameHot, HotProofs!TierDrop, NoneAssumption, SizesAssumption
<1>4. CASE UNCHANGED <<hot, order, used>> /\ hotPins' \subseteq Key
  BY <1>4, HotProofs!TierKept, NoneAssumption, SizesAssumption
<1> QED
  BY <1>1, <1>2, <1>3, <1>4 DEF Hot!Removed, Hot!Pinned, Hot!Unpinned
-----------------------------------------------------------------------------
(***************************************************************************)
(* The type invariant, which carries the bookkeeping of the hot tier.      *)
(***************************************************************************)
Calling == [at : {"idle", "hot", "cold", "promote"}, op : Operation \union {"none"},
            key : Key \union {None}, obj : Obj \union {None}, pin : BOOLEAN]

ProcInv == /\ proc \in [Thread -> Calling]
           /\ \A t \in Thread : At(t, "promote") => proc[t].obj # None
           /\ CallsInv

OthersInv == /\ cold \in [Key -> Obj \union {None}] /\ coldPins \subseteq Key
             /\ latest \in [Key -> Obj \union {None}]
             /\ refused \subseteq Key /\ promised \subseteq Key

TypeInv == HotProofs!TierInv /\ ProcInv /\ OthersInv

\* Every step moves its thread only, to a state of a call.
LEMMA ProcStep ==
  ASSUME ProcInv, OthersInv, [Next]_vars PROVE ProcInv'
<1>1. CallsInv'
  BY CallsInvStep DEF ProcInv
<1>2. CASE UNCHANGED vars \/ Restart
  <2>1. Idle \in Calling
    BY DEF Idle, Calling
  <2>2. proc' \in [Thread -> Calling]
    BY <1>2, <2>1 DEF vars, Restart, ProcInv
  <2>3. \A t \in Thread : At(t, "promote")' => proc'[t].obj # None
    BY <1>2 DEF vars, Restart, ProcInv, At, Idle
  <2> QED
    BY <1>1, <2>2, <2>3 DEF ProcInv, At
<1>3. ASSUME NEW t \in Thread, NEW call \in Calling, proc' = [proc EXCEPT ![t] = call],
             call.at = "promote" => call.obj # None
      PROVE  ProcInv'
  BY <1>1, <1>3 DEF ProcInv, At
<1>4. ASSUME NEW t \in Thread, Call(t) PROVE ProcInv'
  <2>1. PICK op \in Ops, k \in Key :
          \E o \in IF op = "put" THEN Obj ELSE {None},
             pin \in IF op = "put" THEN PinChoices ELSE {FALSE} :
             proc' = [proc EXCEPT ![t] = [at |-> "hot", op |-> op, key |-> k, obj |-> o, pin |-> pin]]
    BY <1>4 DEF Call
  <2>2. PICK o \in Obj \union {None}, pin \in BOOLEAN :
             proc' = [proc EXCEPT ![t] = [at |-> "hot", op |-> op, key |-> k, obj |-> o, pin |-> pin]]
    BY <2>1, ChoicesAssumption
  <2>3. [at |-> "hot", op |-> op, key |-> k, obj |-> o, pin |-> pin] \in Calling
    BY OpsAssumption DEF Calling
  <2> QED
    BY <1>3, <2>2, <2>3
<1>5. ASSUME NEW t \in Thread, Step(t) PROVE ProcInv'
  <2>1. proc[t] \in Calling
    BY DEF ProcInv
  <2>2. CASE Return(t)
    <3>1. Idle \in Calling /\ Idle.at # "promote"
      BY DEF Idle, Calling
    <3> QED
      BY <1>3, <2>2, <3>1 DEF Return
  <2>3. CASE Goto(t, "cold")
    <3>1. proc' = [proc EXCEPT ![t] = [proc[t] EXCEPT !.at = "cold"]]
      BY <2>3 DEF Goto
    <3>2. [proc[t] EXCEPT !.at = "cold"] \in Calling /\ [proc[t] EXCEPT !.at = "cold"].at = "cold"
      BY <2>1 DEF Calling
    <3> QED
      BY <1>3, <3>1, <3>2
  <2>4. CASE GetCold(t) /\ ~Return(t)
    <3> DEFINE call == [proc[t] EXCEPT !.at = "promote", !.obj = cold[proc[t].key]]
    <3>1. proc[t].key \in Key
      BY <2>4 DEF GetCold, ProcInv, CallsInv, At
    <3>2. cold[proc[t].key] # None /\ cold[proc[t].key] \in Obj \union {None}
      BY <2>4, <3>1 DEF GetCold, OthersInv
    <3>3. proc' = [proc EXCEPT ![t] = call]
      BY <2>4 DEF GetCold
    <3>4. call \in Calling /\ call.obj # None
      BY <2>1, <3>2 DEF Calling
    <3> HIDE DEF call
    <3> QED
      BY <1>3, <3>3, <3>4
  <2> QED
    BY <1>5, <2>2, <2>3, <2>4 DEF Step, PutHot, PutCold, GetHot, GetCold, Promote,
                                  RemoveHot, RemoveCold, PinHot, PinCold
<1> QED
  BY <1>2, <1>3, <1>4, <1>5 DEF Next

\* What a demotion leaves in the cold tier is of its type.
LEMMA DemotedType ==
  ASSUME HotProofs!TierInv, OthersInv, NEW k, NEW o, NEW p,
         HotStored(k, o, p) \/ HotRefused(k, o) \/ HotFailed(k, o)
  PROVE  cold' \in [Key -> Obj \union {None}]
<1>1. hot \in [Key -> Obj \union {None}]
  BY DEF HotProofs!TierInv, HotProofs!ContentInv
<1>2. ASSUME NEW gone, Demoted(gone) PROVE cold' \in [Key -> Obj \union {None}]
  BY <1>1, <1>2 DEF Demoted, OthersInv
<1> QED
  BY <1>2 DEF HotStored, HotRefused, HotFailed

\* After a restart the hot tier starts again.
LEMMA HotEmpty ==
  HotProofs!Empty => HotProofs!TierInv
BY HotProofs!TierEmpty, NoneAssumption, SizesAssumption

\* Every step keeps the hot tier in order, and the rest in its shape.
LEMMA TypeStep ==
  ASSUME TypeInv, [Next]_vars PROVE TypeInv'
<1> USE DEF TypeInv
<1>1. ProcInv'
  BY ProcStep
<1>2. ASSUME UNCHANGED hotTier PROVE HotProofs!TierInv'
  <2>1. UNCHANGED <<hot, order, used>> /\ hotPins' \subseteq Key
    BY <1>2 DEF hotTier, HotProofs!TierInv, HotProofs!ContentInv
  <2> QED
    BY <2>1, HotProofs!TierKept, NoneAssumption, SizesAssumption
<1>3. ASSUME UNCHANGED coldTier, UNCHANGED history PROVE OthersInv'
  BY <1>3 DEF coldTier, history, OthersInv
<1>4. ASSUME NEW t \in Thread, ~At(t, "idle") PROVE proc[t].key \in Key /\ proc[t].pin \in BOOLEAN
  BY <1>4 DEF ProcInv, CallsInv, Calling
<1>5. CASE UNCHANGED vars
  BY <1>1, <1>2, <1>3, <1>5 DEF vars, hotTier, coldTier, history
<1>6. CASE Restart
  <2>1. HotProofs!Empty'
    BY <1>6 DEF Restart, HotProofs!Empty
  <2>3. HotProofs!Empty' => HotProofs!TierInv'
    BY HotEmpty, PTL
  <2>4. OthersInv'
    BY <1>6 DEF Restart, history, OthersInv
  <2> QED
    BY <1>1, <2>1, <2>3, <2>4
<1>7. ASSUME NEW t \in Thread, Call(t) PROVE TypeInv'
  BY <1>1, <1>2, <1>3, <1>7 DEF Call
<1>8. ASSUME NEW t \in Thread, PutHot(t) PROVE TypeInv'
  <2>1. /\ proc[t].key \in Key /\ proc[t].pin \in BOOLEAN /\ proc[t].obj \in Obj
        /\ \/ HotStored(proc[t].key, proc[t].obj, proc[t].pin)
           \/ HotRefused(proc[t].key, proc[t].obj)
           \/ HotFailed(proc[t].key, proc[t].obj)
    BY <1>4, <1>8 DEF PutHot, At, ProcInv, CallsInv
  <2>2. HotProofs!TierInv'
    BY <2>1, HotWritten
  <2>3. cold' \in [Key -> Obj \union {None}]
    BY <2>1, DemotedType
  <2>4. /\ coldPins' = coldPins /\ promised' = promised
        /\ latest' \in {latest, [latest EXCEPT ![proc[t].key] = proc[t].obj]}
        /\ refused' \in {refused \union {proc[t].key}, refused \ {proc[t].key}}
    BY <1>8 DEF PutHot
  <2>5. OthersInv'
    BY <2>1, <2>3, <2>4 DEF OthersInv
  <2> QED
    BY <1>1, <2>2, <2>5
<1>9. ASSUME NEW t \in Thread, Promote(t) PROVE TypeInv'
  <2>1. /\ proc[t].key \in Key /\ proc[t].obj \in Obj
        /\ \/ HotStored(proc[t].key, proc[t].obj, FALSE)
           \/ HotRefused(proc[t].key, proc[t].obj)
           \/ HotFailed(proc[t].key, proc[t].obj)
    BY <1>4, <1>9 DEF Promote, At, ProcInv, Calling
  <2>2. HotProofs!TierInv'
    BY <2>1, HotWritten
  <2>3. cold' \in [Key -> Obj \union {None}]
    BY <2>1, DemotedType
  <2>4. OthersInv'
    BY <1>9, <2>3 DEF Promote, history, OthersInv
  <2> QED
    BY <1>1, <2>2, <2>4
<1>10. ASSUME NEW t \in Thread, GetHot(t) \/ RemoveHot(t) \/ PinHot(t) PROVE TypeInv'
  <2>1. /\ proc[t].key \in Key
        /\ \/ Hot!Touched(proc[t].key) \/ Hot!Removed(proc[t].key)
           \/ Hot!Pinned(proc[t].key) \/ Hot!Unpinned(proc[t].key)
    BY <1>4, <1>10 DEF GetHot, RemoveHot, PinHot, At
  <2>2. HotProofs!TierInv'
    BY <2>1, HotOthers
  <2> QED
    BY <1>1, <1>3, <1>10, <2>2 DEF GetHot, RemoveHot, PinHot
<1>11. ASSUME NEW t \in Thread, GetCold(t) PROVE TypeInv'
  BY <1>1, <1>2, <1>3, <1>11 DEF GetCold
<1>12. ASSUME NEW t \in Thread, PutCold(t) PROVE TypeInv'
  <2>1. proc[t].key \in Key /\ proc[t].obj \in Obj
    BY <1>4, <1>12 DEF PutCold, At, ProcInv, CallsInv
  <2>2. ASSUME Cold!Stored(proc[t].key, proc[t].obj, TRUE),
               promised' = promised \union {proc[t].key}
        PROVE  OthersInv'
    BY <1>12, <2>1, <2>2 DEF PutCold, OthersInv, Cold!Stored, Cold!Evictable, Cold!Without
  <2>3. OthersInv'
    BY <1>12, <2>2 DEF PutCold, OthersInv, coldTier
  <2> QED
    BY <1>1, <1>2, <1>12, <2>3 DEF PutCold
<1>13. ASSUME NEW t \in Thread, RemoveCold(t) PROVE TypeInv'
  <2>1. /\ cold' = [j \in Key |-> IF j \in {proc[t].key} THEN None ELSE cold[j]]
        /\ coldPins' \subseteq coldPins
    BY <1>13 DEF RemoveCold, Cold!Removed, Cold!Without
  <2>2. OthersInv'
    BY <1>13, <2>1 DEF RemoveCold, OthersInv
  <2> QED
    BY <1>1, <1>2, <1>13, <2>2 DEF RemoveCold
<1>14. ASSUME NEW t \in Thread, PinCold(t) PROVE TypeInv'
  <2>1. cold' = cold /\ coldPins' \subseteq coldPins \union {proc[t].key}
    BY <1>14 DEF PinCold, Cold!Pinned, Cold!Unpinned
  <2>2. proc[t].key \in Key
    BY <1>4, <1>14 DEF PinCold, At
  <2>3. OthersInv'
    BY <1>14, <2>1, <2>2 DEF PinCold, OthersInv, history
  <2> QED
    BY <1>1, <1>2, <1>14, <2>3 DEF PinCold
<1> QED
  BY <1>5, <1>6, <1>7, <1>8, <1>9, <1>10, <1>11, <1>12, <1>13, <1>14 DEF Next, Step

\* TypeInv holds at the start.
LEMMA InitType == Init => TypeInv
<1> SUFFICES ASSUME Init PROVE TypeInv
  OBVIOUS
<1>1. HotProofs!TierInv
  BY SameHot, HotProofs!TierEmpty, NoneAssumption, SizesAssumption DEF Init
<1>2. ProcInv
  BY DEF Init, ProcInv, CallsInv, Calling, At, Idle
<1>3. OthersInv
  BY DEF Init, OthersInv
<1> QED
  BY <1>1, <1>2, <1>3 DEF TypeInv

\* Every variable keeps its shape; of the hot tier this includes that its keys stay in a
\* strict order of use although threads promote, demote, pin and remove in between.
THEOREM TypeCorrect == Spec => []TypeOK
<1>1. Init => TypeInv
  BY InitType
<1>2. TypeInv /\ [Next]_vars => TypeInv'
  BY TypeStep
<1>3. TypeInv => TypeOK
  <2> SUFFICES ASSUME TypeInv PROVE TypeOK
    OBVIOUS
  <2>1. Hot!TypeOK
    BY SameHot, HotProofs!TierType, NoneAssumption, SizesAssumption DEF TypeInv
  <2> QED
    BY <2>1 DEF TypeInv, TypeOK, ProcInv, OthersInv, Calling
<1> QED
  BY <1>1, <1>2, <1>3, PTL DEF Spec

\* The byte budget and the running count of the hot tier survive every interleaving,
\* every demotion that fails and every restart.
HotWithinBudget == HotProofs!Accounting /\ HotProofs!WithinCapacity

THEOREM HotTierWithinBudget == Spec => []HotWithinBudget
<1>1. Init => TypeInv
  BY InitType
<1>2. TypeInv /\ [Next]_vars => TypeInv'
  BY TypeStep
<1>3. TypeInv => HotWithinBudget
  BY DEF TypeInv, HotProofs!TierInv, HotProofs!ContentInv, HotWithinBudget
<1> QED
  BY <1>1, <1>2, <1>3, PTL DEF Spec

-----------------------------------------------------------------------------
(***************************************************************************)
(* Nothing is dropped while the cold tier takes what is demoted.           *)
(***************************************************************************)

\* A write to the hot tier takes no other key out of the store.
LEMMA WriteDropsNothing ==
  ASSUME ~ColdFails, NEW j \in Key, NEW o, o # None, NEW p,
         HotStored(j, o, p) \/ HotRefused(j, o) \/ HotFailed(j, o),
         NEW k \in Held, k # j
  PROVE  k \in Held'
<1> DEFINE victims == Hot!Victims(j, Nbytes[o])
           gone == Hot!Replaced(j) \union victims
<1>1. k \in gone => k \in victims
  BY DEF Hot!Replaced
<1>2. cold' = [i \in Key |-> IF i \in victims THEN hot[i] ELSE cold[i]]
  BY DEF HotStored, HotRefused, HotFailed, Demoted
<1>3. victims \subseteq Hot!Resident
  BY VictimsResident
<1>4. \/ hot' = [i \in Key |-> IF i = j THEN o ELSE IF i \in gone THEN None ELSE hot[i]]
      \/ hot' = [i \in Key |-> IF i \in gone THEN None ELSE hot[i]]
  BY DEF HotStored, HotRefused, HotFailed, Hot!Stored, Hot!Refused, Hot!Drop
<1>5. k \in Key /\ (hot[k] # None \/ cold[k] # None)
  BY DEF Held
<1> HIDE DEF gone, victims
<1>6. CASE k \in victims
  BY <1>2, <1>3, <1>5, <1>6 DEF Held, Hot!Resident
<1>7. CASE k \notin victims
  BY <1>1, <1>2, <1>4, <1>5, <1>7 DEF Held
<1> QED
  BY <1>6, <1>7

\* A step that takes a key out of the store is one of a call on that key, or a restart.
LEMMA StepDropsNothing ==
  ASSUME ~ColdFails, TypeInv, Next, NEW k \in Held \ Held'
  PROVE  restarts' # restarts \/ \E t \in Thread : proc[t].key = k /\ proc'[t] # proc[t]
<1>1. CASE Restart
  BY <1>1, RestartsAssumption DEF Restart
<1>2. ASSUME UNCHANGED <<hot, cold>> PROVE FALSE
  BY <1>2 DEF Held
<1>3. ASSUME NEW t \in Thread, Call(t) PROVE FALSE
  BY <1>2, <1>3 DEF Call, hotTier, coldTier
<1>4. ASSUME NEW t \in Thread, Step(t) PROVE proc[t].key = k /\ proc'[t] # proc[t]
  <2>1. proc[t].key \in Key /\ (At(t, "promote") \/ proc[t].op = "put" => proc[t].obj # None)
    BY <1>4, NoneAssumption DEF TypeInv, ProcInv, CallsInv, Step, At, PutHot, PutCold, GetHot, GetCold,
                                Promote, RemoveHot, RemoveCold, PinHot, PinCold
  <2>2. proc'[t] # proc[t]
    <3>1. proc \in [Thread -> Calling]
      BY DEF TypeInv, ProcInv
    <3>2. CASE Return(t) /\ ~At(t, "idle")
      BY <3>1, <3>2 DEF Return, At, Idle
    <3>3. CASE Goto(t, "cold") /\ At(t, "hot")
      <4>1. proc'[t].at = "cold"
        BY <3>1, <3>3 DEF Goto, Calling
      <4> QED
        BY <3>3, <4>1 DEF At
    <3>4. CASE At(t, "cold") /\ proc' = [proc EXCEPT ![t].at = "promote", ![t].obj = cold[proc[t].key]]
      <4>1. proc'[t].at = "promote"
        BY <3>1, <3>4 DEF Calling
      <4> QED
        BY <3>4, <4>1 DEF At
    <3> QED
      BY <1>4, <3>2, <3>3, <3>4 DEF Step, At, PutHot, PutCold, GetHot, GetCold, Promote,
                                    RemoveHot, RemoveCold, PinHot, PinCold
  <2>3. ASSUME proc[t].key # k PROVE FALSE
    <3>1. CASE PutHot(t) \/ Promote(t)
      <4>1. /\ proc[t].obj # None
            /\ \E p : \/ HotStored(proc[t].key, proc[t].obj, p)
                      \/ HotRefused(proc[t].key, proc[t].obj)
                      \/ HotFailed(proc[t].key, proc[t].obj)
        BY <2>1, <3>1 DEF PutHot, Promote
      <4> QED
        BY <2>1, <2>3, <4>1, WriteDropsNothing
    <3>2. CASE GetHot(t) \/ GetCold(t) \/ PinHot(t) \/ PinCold(t)
      BY <1>2, <3>2 DEF GetHot, GetCold, PinHot, PinCold, hotTier, coldTier, Hot!Touched,
                        Hot!Pinned, Hot!Unpinned, Cold!Pinned, Cold!Unpinned
    <3>3. CASE PutCold(t)
      <4>1. hot' = hot
        BY <3>3 DEF PutCold, hotTier
      <4>2. cold' = cold \/ cold' = [[i \in Key |-> cold[i]] EXCEPT ![proc[t].key] = proc[t].obj]
        BY <3>3 DEF PutCold, coldTier, Cold!Stored, Cold!Evictable, Cold!Without
      <4> QED
        BY <2>3, <4>1, <4>2 DEF Held
    <3>4. CASE RemoveHot(t)
      <4>1. hot' = hot \/ hot' = [i \in Key |-> IF i \in {proc[t].key} THEN None ELSE hot[i]]
        BY <3>4 DEF RemoveHot, Hot!Removed, Hot!Drop
      <4>2. cold' = cold
        BY <3>4 DEF RemoveHot, coldTier
      <4> QED
        BY <2>3, <4>1, <4>2 DEF Held
    <3>5. CASE RemoveCold(t)
      <4>1. cold' = [i \in Key |-> IF i \in {proc[t].key} THEN None ELSE cold[i]]
        BY <3>5 DEF RemoveCold, Cold!Removed, Cold!Without
      <4>2. hot' = hot
        BY <3>5 DEF RemoveCold, hotTier
      <4> QED
        BY <2>3, <4>1, <4>2 DEF Held
    <3> QED
      BY <1>4, <3>1, <3>2, <3>3, <3>4, <3>5 DEF Step
  <2> QED
    BY <2>2, <2>3
<1> QED
  BY <1>1, <1>3, <1>4 DEF Next

\* An object the hot tier evicts "is demoted to cold rather than dropped" (tiered.py:4),
\* whatever the threads are doing in between, if the cold tier can be written.
THEOREM EvictedIsDemoted == ASSUME ~ColdFails PROVE Spec => NeverDropped
<1>1. Init => TypeInv
  BY InitType
<1>2. TypeInv /\ [Next]_vars => TypeInv'
  BY TypeStep
<1>3. TypeInv /\ [Next]_vars =>
        [\A k \in Held \ Held' :
            restarts' # restarts \/ \E t \in Thread : proc[t].key = k /\ proc'[t] # proc[t]]_vars
  BY StepDropsNothing
<1> QED
  BY <1>1, <1>2, <1>3, PTL DEF Spec, NeverDropped

-----------------------------------------------------------------------------
(***************************************************************************)
(* One caller at a time reads what was put last.  A key can differ from    *)
(* its latest object only inside a remove, whose first step may bring the  *)
(* cold copy back into sight.                                              *)
(***************************************************************************)
Sequential == (\E t : Thread = {t}) /\ ~ColdFails /\ MaxRestarts = 0

Doing(t, op, label) == proc[t].op = op /\ At(t, label)

VisibleInv ==
    /\ restarts = 0
    /\ \A t \in Thread :
          /\ \A k \in Key \ refused :
                Visible(k) = latest[k] \/ (Doing(t, "remove", "cold") /\ proc[t].key = k)
          /\ Doing(t, "put", "cold") => hot[proc[t].key] = proc[t].obj
          /\ Doing(t, "get", "cold") \/ Doing(t, "remove", "cold") => hot[proc[t].key] = None
          /\ At(t, "promote") => /\ proc[t].op = "get"
                                 /\ hot[proc[t].key] = None
                                 /\ cold[proc[t].key] = proc[t].obj

\* A write to the hot tier moves the objects of other keys, and shows none of them less.
LEMMA WriteShows ==
  ASSUME ~ColdFails, TypeInv, NEW j \in Key, NEW o \in Obj, NEW p,
         HotStored(j, o, p) \/ HotRefused(j, o) \/ HotFailed(j, o)
  PROVE  /\ \A k \in Key \ {j} : Visible(k)' = Visible(k)
         /\ HotStored(j, o, p) => hot'[j] = o
         /\ hot[j] = None => HotStored(j, o, p) \/ Visible(j)' = Visible(j)
<1> DEFINE victims == Hot!Victims(j, Nbytes[o])
           gone == Hot!Replaced(j) \union victims
<1>1. \A k \in gone \ victims : k = j /\ hot[j] # None
  BY DEF Hot!Replaced, Hot!Resident
<1>2. \A k \in victims : k # j /\ hot[k] # None
  BY DEF Hot!Victims, Hot!Evictable, Hot!Resident
<1>3. cold' = [i \in Key |-> IF i \in victims THEN hot[i] ELSE cold[i]]
  BY DEF HotStored, HotRefused, HotFailed, Demoted
<1>4. HotStored(j, o, p) =>
        hot' = [i \in Key |-> IF i = j THEN o ELSE IF i \in gone THEN None ELSE hot[i]]
  BY DEF HotStored, Hot!Stored
<1>5. ~HotStored(j, o, p) => hot' = [i \in Key |-> IF i \in gone THEN None ELSE hot[i]]
  BY DEF HotRefused, HotFailed, Hot!Refused, Hot!Drop
<1> HIDE DEF gone, victims
<1>6. ASSUME NEW k \in Key, k \notin victims PROVE cold'[k] = cold[k]
  BY <1>3, <1>6
<1>7. ASSUME NEW k \in Key \ {j} PROVE Visible(k)' = Visible(k)
  <2>1. hot'[k] = IF k \in gone THEN None ELSE hot[k]
    BY <1>4, <1>5, <1>7
  <2>2. CASE k \in victims
    <3>1. cold'[k] = hot[k] /\ hot[k] # None
      BY <1>2, <1>3, <2>2
    <3> QED
      BY <2>1, <3>1 DEF Visible
  <2>3. CASE k \notin victims
    BY <1>1, <1>6, <1>7, <2>1, <2>3 DEF Visible
  <2> QED
    BY <2>2, <2>3
<1>8. ASSUME hot[j] = None, ~HotStored(j, o, p) PROVE Visible(j)' = Visible(j)
  <2>1. hot'[j] = None
    BY <1>5, <1>8
  <2>2. cold'[j] = cold[j]
    BY <1>2, <1>6
  <2> QED
    BY <1>8, <2>1, <2>2 DEF Visible
<1> QED
  BY <1>4, <1>7, <1>8

LEMMA VisibleStep ==
  ASSUME Sequential, TypeInv, VisibleInv, [Next]_vars PROVE VisibleInv'
<1>1. CASE UNCHANGED vars
  BY <1>1 DEF vars, VisibleInv, Visible, Doing, At
<1>2. ~Restart
  BY DEF Sequential, Restart, VisibleInv
<1> SUFFICES ASSUME NEW t \in Thread, Call(t) \/ Step(t) PROVE VisibleInv'
  BY <1>1, <1>2 DEF Next
<1>3. Thread = {t} /\ ~ColdFails
  BY DEF Sequential
<1>4. proc \in [Thread -> Calling]
  BY DEF TypeInv, ProcInv
<1> PICK k : k = proc[t].key
  OBVIOUS
<1>5. ~At(t, "idle") => k \in Key
  BY DEF TypeInv, ProcInv, CallsInv
<1>19. restarts' = 0
  BY DEF VisibleInv, Call, Step, PutHot, PutCold, GetHot, GetCold, Promote, RemoveHot,
         RemoveCold, PinHot, PinCold
\* What the state after the step has to satisfy, of the only thread there is.
<1>6. ASSUME \A j \in Key \ refused' : \/ Visible(j)' = latest'[j]
                                       \/ Doing(t, "remove", "cold")' /\ proc'[t].key = j,
             Doing(t, "put", "cold")' => hot'[proc'[t].key] = proc'[t].obj,
             Doing(t, "get", "cold")' \/ Doing(t, "remove", "cold")' => hot'[proc'[t].key] = None,
             At(t, "promote")' => /\ proc'[t].op = "get"
                                  /\ hot'[proc'[t].key] = None
                                  /\ cold'[proc'[t].key] = proc'[t].obj
      PROVE  VisibleInv'
  BY <1>3, <1>6, <1>19 DEF VisibleInv
<1>7. ASSUME Return(t) PROVE At(t, "idle")'
  BY <1>4, <1>7 DEF Return, At, Idle
<1>8. ASSUME Goto(t, "cold")
      PROVE  At(t, "cold")' /\ proc'[t].op = proc[t].op /\ proc'[t].key = k /\ proc'[t].obj = proc[t].obj
  BY <1>4, <1>8 DEF Goto, At, Calling
<1>9. ASSUME NEW j \in Key \ refused, ~Doing(t, "remove", "cold") PROVE Visible(j) = latest[j]
  BY <1>9 DEF VisibleInv
<1>10. CASE Call(t)
  <2>1. At(t, "idle") /\ At(t, "hot")'
    BY <1>4, <1>10 DEF Call, At
  <2>2. hot' = hot /\ cold' = cold /\ refused' = refused /\ latest' = latest
    BY <1>10 DEF Call, hotTier, coldTier, history
  <2> QED
    BY <1>6, <1>9, <2>1, <2>2 DEF Doing, At, Visible
<1>11. CASE PutHot(t)
  <2>1. At(t, "hot") /\ proc[t].op = "put" /\ proc[t].obj \in Obj /\ k \in Key
    BY <1>5, <1>11 DEF PutHot, At, TypeInv, ProcInv, CallsInv
  <2>2. \A j \in Key \ {k} : Visible(j)' = Visible(j)
    BY <1>3, <1>11, <2>1, WriteShows DEF PutHot
  <2>3. \A j \in Key \ refused : Visible(j) = latest[j]
    BY <1>9, <2>1 DEF Doing
  <2>4. CASE /\ HotStored(k, proc[t].obj, proc[t].pin)
             /\ IF proc[t].pin THEN Goto(t, "cold") ELSE Return(t)
             /\ latest' = [latest EXCEPT ![k] = proc[t].obj]
             /\ refused' = refused \ {k}
    <3>1. hot'[k] = proc[t].obj
      BY <1>3, <2>1, <2>4, WriteShows
    <3>2. Visible(k)' = proc[t].obj
      BY <2>1, <3>1, NoneAssumption DEF Visible
    <3>3. \A j \in Key \ refused' : Visible(j)' = latest'[j]
      BY <2>1, <2>2, <2>3, <2>4, <3>2 DEF TypeInv, OthersInv
    <3>4. At(t, "idle")' \/ (At(t, "cold")' /\ proc'[t].op = "put" /\ proc'[t].key = k
                               /\ proc'[t].obj = proc[t].obj)
      BY <1>7, <1>8, <2>1, <2>4
    <3> QED
      BY <1>6, <3>1, <3>3, <3>4 DEF Doing, At
  <2>5. CASE Return(t) /\ refused' = refused \union {k} /\ latest' = latest
    BY <1>6, <1>7, <2>2, <2>3, <2>5 DEF Doing, At
  <2> QED
    BY <1>11, <2>4, <2>5 DEF PutHot
<1>12. CASE PutCold(t)
  <2>1. At(t, "cold") /\ proc[t].op = "put" /\ proc[t].obj \in Obj /\ k \in Key
    BY <1>5, <1>12 DEF PutCold, At, TypeInv, ProcInv, CallsInv
  <2>2. hot[k] # None
    BY <2>1, NoneAssumption DEF VisibleInv, Doing
  <2>3. hot' = hot /\ latest' = latest /\ refused' = refused
    BY <1>12 DEF PutCold, hotTier
  <2>4. cold' = cold \/ cold' = [[j \in Key |-> cold[j]] EXCEPT ![k] = proc[t].obj]
    BY <1>12 DEF PutCold, coldTier, Cold!Stored, Cold!Evictable, Cold!Without
  <2>5. \A j \in Key : Visible(j)' = Visible(j)
    BY <2>2, <2>3, <2>4 DEF Visible
  <2>6. At(t, "idle")'
    BY <1>7, <1>12 DEF PutCold
  <2> QED
    BY <1>6, <1>9, <2>1, <2>3, <2>5, <2>6 DEF Doing, At
<1>13. CASE GetHot(t)
  <2>1. At(t, "hot") /\ proc[t].op = "get"
    BY <1>13 DEF GetHot
  <2>2. hot' = hot /\ cold' = cold /\ latest' = latest /\ refused' = refused
    BY <1>13 DEF GetHot, Hot!Touched, coldTier, history
  <2>3. \/ At(t, "idle")'
        \/ hot[k] = None /\ At(t, "cold")' /\ proc'[t].op = "get" /\ proc'[t].key = k
    BY <1>7, <1>8, <1>13 DEF GetHot
  <2> QED
    BY <1>6, <1>9, <2>1, <2>2, <2>3 DEF Doing, At, Visible
<1>14. CASE GetCold(t)
  <2>1. At(t, "cold") /\ proc[t].op = "get" /\ hot[k] = None
    BY <1>14 DEF GetCold, VisibleInv, Doing
  <2>2. hot' = hot /\ cold' = cold /\ latest' = latest /\ refused' = refused
    BY <1>14 DEF GetCold, hotTier, coldTier, history
  <2>3. \/ At(t, "idle")'
        \/ /\ At(t, "promote")' /\ proc'[t].op = "get" /\ proc'[t].key = k
           /\ proc'[t].obj = cold[k]
    <3>1. CASE Return(t)
      BY <1>7, <3>1
    <3>2. CASE proc' = [proc EXCEPT ![t].at = "promote", ![t].obj = cold[k]]
      BY <1>4, <2>1, <3>2 DEF At, Calling
    <3> QED
      BY <1>14, <3>1, <3>2 DEF GetCold
  <2> QED
    BY <1>6, <1>9, <2>1, <2>2, <2>3 DEF Doing, At, Visible
<1>15. CASE Promote(t)
  <2>1. /\ At(t, "promote") /\ proc[t].op = "get" /\ hot[k] = None /\ cold[k] = proc[t].obj
        /\ proc[t].obj \in Obj /\ k \in Key
    BY <1>4, <1>5, <1>15 DEF Promote, At, VisibleInv, TypeInv, ProcInv, Calling
  <2>2. /\ \A j \in Key \ {k} : Visible(j)' = Visible(j)
        /\ hot'[k] = proc[t].obj \/ Visible(k)' = Visible(k)
    BY <1>3, <1>15, <2>1, WriteShows DEF Promote
  <2>3. Visible(k)' = Visible(k)
    BY <2>1, <2>2, NoneAssumption DEF Visible
  <2>4. At(t, "idle")' /\ latest' = latest /\ refused' = refused
    BY <1>7, <1>15 DEF Promote, history
  <2> QED
    BY <1>6, <1>9, <2>1, <2>2, <2>3, <2>4 DEF Doing, At
<1>16. CASE RemoveHot(t)
  <2>1. At(t, "hot") /\ proc[t].op = "remove" /\ k \in Key
    BY <1>5, <1>16 DEF RemoveHot, At
  <2>2. /\ hot' = hot /\ hot[k] = None
        \/ hot' = [j \in Key |-> IF j \in {k} THEN None ELSE hot[j]]
    BY <1>16, <2>1 DEF RemoveHot, Hot!Removed, Hot!Drop, Hot!Resident
  <2>3. cold' = cold /\ latest' = latest /\ refused' = refused
    BY <1>16 DEF RemoveHot, coldTier, history
  <2>4. At(t, "cold")' /\ proc'[t].op = "remove" /\ proc'[t].key = k
    BY <1>8, <1>16, <2>1 DEF RemoveHot
  <2>5. hot'[k] = None /\ \A j \in Key \ {k} : hot'[j] = hot[j]
    BY <2>1, <2>2
  <2>6. \A j \in Key \ {k} : Visible(j)' = Visible(j)
    BY <2>3, <2>5 DEF Visible
  <2> QED
    BY <1>6, <1>9, <2>1, <2>3, <2>4, <2>5, <2>6 DEF Doing, At
<1>17. CASE RemoveCold(t)
  <2>1. At(t, "cold") /\ proc[t].op = "remove" /\ hot[k] = None /\ k \in Key
    BY <1>5, <1>17 DEF RemoveCold, At, VisibleInv, Doing
  <2>2. cold' = [j \in Key |-> IF j \in {k} THEN None ELSE cold[j]]
    BY <1>17 DEF RemoveCold, Cold!Removed, Cold!Without
  <2>3. /\ hot' = hot /\ latest' = [latest EXCEPT ![k] = None] /\ refused' = refused \ {k}
        /\ At(t, "idle")'
    BY <1>7, <1>17 DEF RemoveCold, hotTier
  <2>4. \A j \in Key \ {k} : Visible(j)' = Visible(j)
    BY <2>2, <2>3 DEF Visible
  <2>5. Visible(k)' = None
    BY <2>1, <2>2, <2>3 DEF Visible
  <2>6. \A j \in Key \ {k} : j \notin refused => Visible(j) = latest[j]
    BY DEF VisibleInv
  <2>7. \A j \in Key \ refused' : Visible(j)' = latest'[j]
    BY <2>1, <2>3, <2>4, <2>5, <2>6 DEF TypeInv, OthersInv
  <2> QED
    BY <1>6, <2>3, <2>7 DEF Doing, At
<1>18. CASE PinHot(t) \/ PinCold(t)
  <2>1. hot' = hot /\ cold' = cold /\ latest' = latest /\ refused' = refused
    BY <1>18 DEF PinHot, PinCold, hotTier, coldTier, history, Hot!Pinned, Hot!Unpinned,
                 Cold!Pinned, Cold!Unpinned
  <2>2. proc[t].op \in {"pin", "unpin"}
    BY <1>18 DEF PinHot, PinCold
  <2>3. At(t, "idle")' \/ (At(t, "cold")' /\ proc'[t].op = proc[t].op)
    BY <1>7, <1>8, <1>18 DEF PinHot, PinCold
  <2> QED
    BY <1>6, <1>9, <2>1, <2>2, <2>3 DEF Doing, At, Visible
<1> QED
  BY <1>10, <1>11, <1>12, <1>13, <1>14, <1>15, <1>16, <1>17, <1>18 DEF Step

\* Between the calls of a single caller a key shows the object last put under it, through
\* every demotion and promotion, for any sizes and capacity: tiered.py puts the newer
\* object into the hot tier and looks there first.
THEOREM LatestIsVisible == ASSUME Sequential PROVE Spec => []LatestVisible
<1>1. Init => TypeInv
  BY InitType
<1>2. TypeInv /\ [Next]_vars => TypeInv'
  BY TypeStep
<1>3. Init => VisibleInv
  BY DEF Init, Hot!Empty, VisibleInv, Visible, Doing, At, Idle
<1>4. TypeInv /\ VisibleInv /\ [Next]_vars => VisibleInv'
  BY VisibleStep
<1>5. VisibleInv => LatestVisible
  BY DEF Sequential, VisibleInv, LatestVisible, Quiet
<1> QED
  BY <1>1, <1>2, <1>3, <1>4, <1>5, PTL DEF Spec
=============================================================================
