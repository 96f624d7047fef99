CONSTANTS
  kCapacity = 3
  NumBytes = 8
  MaxMessage = 3
  LogFromIsr = FALSE
  NoItem = NoItem
  Item <- MCItem
  Offers <- MCOffers
SPECIFICATION UartSpec
INVARIANTS
  UartTypeOK
  SlotsDisjoint
  ChunkKnown
  NothingStranded
PROPERTIES
  WireInOrder
  AcceptedLeaves
