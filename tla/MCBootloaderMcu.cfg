CONSTANTS
  AddressSpace = 64
  MaxSizeWords = 6
  regions <- MCRegions
  NoRegion = NoRegion
  StartWords <- MCStartWords
  SizeWords <- MCSizeWords
  BootDelay = 2
  LastFrame = 3
  MaxFrames = 2
SPECIFICATION Spec
CHECK_DEADLOCK FALSE
INVARIANTS
  TypeOK
  PreparedInRegion
  OneAnswer
PROPERTIES
  PatientBoot
  IdleBoots
