SPECIFICATION Spec
CONSTANTS
  h1 = h1
  x = x
  y = y
  z = z
  writer = writer
  reader = reader
  None = None
  Chunk <- MCChunk
  Request <- MCRequest
  Thread <- Two
  CacheId <- OneId
  PromptsOf <- Growing
  OpsOf <- AllByEach
  ShardCounts <- OneShard
  PinChoices <- Both
  TTLChoices <- AnyTTL
  Bounded = TRUE
  Lossy = TRUE
  MaxRegistrations = 2
INVARIANTS
  TypeOK
  HitNeverGarbage
SYMMETRY AnyThread
