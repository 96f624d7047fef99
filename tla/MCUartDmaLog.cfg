CONSTANTS
  kCapacity = 3
  NumBytes = 8
  MaxMessage = 3
  LogFromIsr = TRUE
  NoItem = NoItem
  Item <- MCItem
  Offers <- MCOffers
SPECIFICATION UartSpec
PROPERTY ActiveChunkKept
