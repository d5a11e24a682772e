SPECIFICATION Spec
CONSTANTS
  Requests <- MCRequests
  HeadBytes = 2
  ChunkBytes = 3
  OutputBytes = 1
  MaxBodyBytes = 2
  MaxChunkLine = 2
  MaxMetadata = 15
  MaxTrailerBytes = 6
  MaxTrailerCount = 1
  HeadersTimeout = 1
  BodyTimeout = 1
  TotalTimeout = 2
  ResponseTimeout = 1
  DrainTimeout = 1
  MaxDrain = 2
  MaxTime = 3
INVARIANTS
  FramingExact
  AnswersInOrder
  InTime
PROPERTY
  Returns
