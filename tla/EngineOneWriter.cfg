SPECIFICATION Spec
CONSTANTS
  h1 = h1
  x = x
  y = y
  z = z
  writer = writer
  reader = reader
  None = None
  Chunk <- MCChunk
  Request <- MCRequest
  Thread <- Two
  CacheId <- OneId
  PromptsOf <- ReboundResized
  OpsOf <- WriterAndReader
  ShardCounts <- OneOrTwoShards
  PinChoices <- NoPin
  TTLChoices <- NoTTL
  Bounded = FALSE
  Lossy = FALSE
  MaxRegistrations = 3
INVARIANTS
  PublishedComplete
  PublishedConsistent
  NothingOrphaned
