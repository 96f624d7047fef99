CONSTANTS
  kNumItems = 3
  kNumTxBuffers = 3
  NoChunk = NoChunk
SPECIFICATION Spec
INVARIANT FrameKept
