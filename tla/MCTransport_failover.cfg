SPECIFICATION TSpec
CONSTANTS
    cifs = cifs
    sshfs = sshfs
    NoName = NoName
    Order <- TwoRoutes
    VerifyAll = FALSE
    Commands = {"select", "quarantine", "clear"}
    MaxDelay = 2
    LongPause = FALSE
PROPERTIES
    NoAutomaticFailback
    FailoverServes
