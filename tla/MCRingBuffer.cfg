CONSTANTS
  kCapacity = 3
  Item = {a, b}
  NoItem = NoItem
  Offers <- MCOffers
SPECIFICATION Spec
INVARIANTS
  TypeOK
  SlotsDisjoint
  ReadFaithful
  RingInv
PROPERTY ImplementsFifo
