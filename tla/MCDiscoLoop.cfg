CONSTANTS
  CounterModulus = 4
  MaxWraps = 1
  Devices = {"up", "down", "lptim"}
  CountModulus = 8
  UptimePeriod = 3
  LinkPeriod = 2
  PeriodOf <- MCPeriodOf
  PhyTimeout = 1
  WatchdogPeriod = 2
SPECIFICATION LoopSpec
INVARIANTS
  LoopTypeOK
  ReadIsCurrent
  WrapsCounted
  Punctual
PROPERTIES
  LoopTurns
