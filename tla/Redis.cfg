SPECIFICATION Spec
CONSTANTS
  c1 = c1
  c2 = c2
  c3 = c3
  o1 = o1
  None = None
  Client <- MCClient
  Obj <- MCObj
  Part <- MCPart
  NamespaceOf <- MCNamespaceOf
  HasTTL <- MCHasTTL
  CacheId <- MCCacheId
  Worker <- MCWorker
  Index <- MCIndex
  OpsOf <- MCOpsOf
  PinChoices <- Both
INVARIANTS
  PledgedStays
  ClearIsComplete
PROPERTIES
  ImplementsContract
