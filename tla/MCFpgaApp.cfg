SPECIFICATION AppSpec
CONSTANTS
    LowModulus = 4
    HighModulus = 3
    StartTimes <- MCStartTimes
    Delay = 3
    LatestArm = 5
    LastTime = 9
    CounterModulus = 4
    Byte = {b1, b2}
    Greeting = Greeting
    None = None
    RingCapacity = 2
    GreetingLength = 2
INVARIANTS
    AppTypeOK
    TxArmed
    DelayHonest
PROPERTIES
    EchoInOrder
    EchoDrains
    
