SPECIFICATION Spec
CONSTANTS
  h1 = h1
  x = x
  y = y
  z = z
  writer = writer
  reader = reader
  None = None
  Chunk <- MCChunk
  Request <- MCRequest
  Thread <- Two
  CacheId <- OneId
  PromptsOf <- Growing
  OpsOf <- ExtendAndGet
  ShardCounts <- OneShard
  PinChoices <- NoPin
  TTLChoices <- SomeTTL
  Bounded = FALSE
  Lossy = FALSE
  MaxRegistrations = 1
PROPERTIES
  OnlyExpiredRetired
