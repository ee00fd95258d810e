SPECIFICATION Spec
CONSTANTS
  Streams = {s1, s2}
  Chunks = {c1, c2}
  Buffers = {b1, b2}
  NoChunk = NoChunk
  NoBuffer = NoBuffer
  Alignment = 2
  InitialCapacity = 4
  Ratio = 2
  SizeMax = 19
  WordBits = 5
  Requests = {1, 4, 10, 18}
  MaxPending = 2
  DriverMayFail = TRUE
SYMMETRY Symmetry
INVARIANTS
  MemorySafe
  EveryChunkOwnedOnce
  HandleValid
  IdleStreamReclaimable
PROPERTIES
  ImplementsPromise
  NewOnlyWhenNeeded
