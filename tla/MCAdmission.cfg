SPECIFICATION ASpec
CONSTANTS
    Ceiling = 2
    Window = 1
    Slow = 1
    StaleAfter = 2
    MaxClock = 3
    MaxExits = 1
    MaxFaults = 2
INVARIANTS ATypeOK AllowanceIsEarned 
 
CHECK_DEADLOCK FALSE
