SPECIFICATION Spec
CONSTANTS
  None = None
  OverflowError = OverflowError
  Token <- MCToken
  ChunkSizes <- MCChunkSizes
  MaxTokens = 4
  Width = 2
INVARIANTS
  TypeOK
  ReuseIsShared
  WholeChunksReused
  SamePromptIsFull
