SPECIFICATION Spec
CONSTANTS
  t1 = t1
  t2 = t2
  k1 = k1
  k2 = k2
  small = small
  large = large
  None = None
  Key <- MCKey
  Obj <- OneObj
  Nbytes <- MCNbytes
  Capacity = 1
  Thread <- Two
  Ops <- All
  PinChoices <- Both
  ColdFails = TRUE
  MaxRestarts = 1
SYMMETRY Symmetry
INVARIANTS
  TypeOK
  PinnedPutPersisted
