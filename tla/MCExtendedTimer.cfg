CONSTANTS
  CounterModulus = 4
  MaxWraps = 2
  Devices = {"lptim"}
SPECIFICATION TimerSpec
INVARIANT PostWrapRead
CHECK_DEADLOCK FALSE
