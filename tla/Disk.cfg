SPECIFICATION Spec
CONSTANTS
  t1 = t1
  t2 = t2
  k1 = k1
  k2 = k2
  o1 = o1
  d1 = d1
  None = None
  CutShort = CutShort
  Failure = Failure
  Thread <- MCThread
  Key <- MCKey
  Obj <- MCObj
  Dir <- MCDir
  DirOf <- MCDirOf
  PinChoices <- Always
  WriteFails = TRUE
  MaxCrashes = 1
INVARIANTS
  TypeOK
  NothingLeftBehind
  NotFoundOnlyIfRaced
PROPERTIES
  ImplementsContract
  LockReleased
