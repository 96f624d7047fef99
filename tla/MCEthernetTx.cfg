CONSTANTS
  kNumItems = 3
  kNumTxBuffers = 3
  NoChunk = NoChunk
SPECIFICATION Spec
INVARIANTS
  TypeOK
  PoolPartition
  PacedFrameKept
  PacedRingDrained
PROPERTY PacedReclaimed
