SPECIFICATION LinkSpec
CONSTANTS
  Byte = {"7E", "7D", "5E", "5D"}
  kFlag = "7E"
  kEscape = "7D"
  Xor <- MCXor
  PayloadBufferSize = 3
  Payloads <- MCPayloads
  MinLength <- MCMinLength
  ReadLength <- MCReadLength
  RingCapacity = 6
  MaxFaults <- MCMaxFaults
  MaxAhead = 1
  None = None
INVARIANTS
  LinkTypeOK
  FramesHeard
PROPERTIES
  ChannelKept
  PoliteHeard
