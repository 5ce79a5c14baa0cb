SPECIFICATION Spec
CONSTANTS
  t1 = t1
  t2 = t2
  k1 = k1
  k2 = k2
  small = small
  large = large
  None = None
  Key <- MCKey
  Obj <- MCObj
  Nbytes <- MCNbytes
  Capacity = 2
  Thread <- One
  Ops <- All
  PinChoices <- Both
  ColdFails = FALSE
  MaxRestarts = 0
INVARIANTS
  LatestVisible
PROPERTIES
  NeverDropped
