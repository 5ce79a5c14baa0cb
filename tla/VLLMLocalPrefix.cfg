SPECIFICATION Spec
CONSTANTS
  b1 = b1
  b2 = b2
  b3 = b3
  b4 = b4
  h = h
  g = g
  t1 = t1
  saver = saver
  sharer = sharer
  reader = reader
  ta = ta
  tb = tb
  tc = tc
  None = None
  Content <- MCContent
  BlocksPerChunk = 2
  CacheId <- MCCacheId
  Request <- MCRequest
  PromptOf <- MCPromptOf
  CacheOf <- OneId
  Saving <- MCRequest
  Block <- MoreBlocks
  PrefixCaching = TRUE
  Others <- Nobody
  Client <- Nobody
  ClientPrompts <- NoPrompts
SYMMETRY MoreSymmetry
CHECK_DEADLOCK FALSE
INVARIANTS
  RunsOnItsOwnKV
