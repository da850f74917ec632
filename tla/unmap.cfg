SPECIFICATION Spec
CONSTANTS
  t1 = t1
  t2 = t2
  t3 = t3
  c1 = c1
  c2 = c2
  Thread <- ThreeThreads
  Chunk <- TwoChunks
  NoChunk = NoChunk
  Raced <- OneRaced
  Program = Program
INVARIANTS
  TypeOK
  ChunksAccounted
  HandlesLive
PROPERTIES
  AllocatorSpec
