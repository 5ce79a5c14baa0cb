SPECIFICATION Spec
CONSTANTS
  b1 = b1
  b2 = b2
  b3 = b3
  b4 = b4
  h = h
  g = g
  t1 = t1
  saver = saver
  sharer = sharer
  reader = reader
  ta = ta
  tb = tb
  tc = tc
  None = None
  Content <- MCContent
  BlocksPerChunk = 2
  CacheId <- MCCacheId
  Request <- MCRequest
  PromptOf <- MCPromptOf
  CacheOf <- MCCacheOf
  Saving <- MCRequest
  Block <- MCBlock
  PrefixCaching = FALSE
  Others <- Clients
  Client <- MCClient
  ClientPrompts <- MCClientPrompts
SYMMETRY Symmetry
CHECK_DEADLOCK FALSE
INVARIANTS
  TypeOK
  RunsOnItsOwnKV
  SavedIsRight
