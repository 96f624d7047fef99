CONSTANTS
  kMaxImgBytes = 2
  CrcBytes = 1
  Crc <- MCCrc
  kBootImgMsg <- MCBootImgMsg
  HexDigit <- MCHexDigit
  Images <- MCImages
  MaxInput = 9
  MaxSpaces = 1
SPECIFICATION Spec
CHECK_DEADLOCK FALSE
INVARIANTS
  TypeOK
  BootsWhatWasSent
  RefusesBadFraming
  PoliteLines
PROPERTY PoliteBoots
