SPECIFICATION TSpec
CONSTANTS
    cifs = cifs
    sshfs = sshfs
    NoName = NoName
    Order <- TwoRoutes
    VerifyAll = TRUE
    Commands = {"select", "quarantine"}
    MaxDelay = 1
    LongPause = TRUE
INVARIANTS
    TTypeOK
    
    
PROPERTIES
    FailureIsAttributed
