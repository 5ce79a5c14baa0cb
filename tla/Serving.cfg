SPECIFICATION ServingSpec
CONSTANTS
  h1 = h1
  h2 = h2
  x = x
  y = y
  z = z
  handler = handler
  adapter = adapter
  b1 = b1
  b2 = b2
  None = None
  Thread <- MCThread
  Handler <- MCHandler
  Adapter <- MCAdapter
  CacheId <- MCCacheId
  Chunk <- MCChunk
  PromptsOf <- MCPrompts
  Request <- MCRequest
  OpsOf <- MCOps
  ShardCounts <- MCShards
  PinChoices <- MCPins
  TTLChoices <- MCTTL
  Block <- MCBlock
  BlocksOf <- MCBlocksOf
  Bounded = TRUE
  Lossy = FALSE
  MaxRegistrations = 2
INVARIANTS
  RepliesAreTrue
  RetrievedIsRight
  StoredIsItsOwn
PROPERTIES
  EveryRequestEnds
