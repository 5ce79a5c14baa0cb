SPECIFICATION Spec
CONSTANTS
  k1 = k1
  k2 = k2
  k3 = k3
  small = small
  large = large
  oversize = oversize
  None = None
  Key <- MCKey
  Obj <- MCObj
  Nbytes <- MCNbytes
  Capacity = 3
INVARIANTS
  TypeOK
  Accounting
  WithinCapacity
PROPERTIES
  PinnedKeptUntilRemoved
  RefusedWhenPinsLeaveNoRoom
  MostRecentlyUsedEvictedLast
  EvictsOnlyForRoom
  ImplementsStorageBackend
