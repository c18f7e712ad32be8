SPECIFICATION RSpec
CONSTANTS
    MaxDat = 2
    MaxTx = 2
    Vias = {cifs, sshfs}
    RetryLimit = 2
    TailRecovery = TRUE
INVARIANTS
    RTypeOK
    RollbackPossible
PROPERTIES
    StartsOnSettledIndex
    RejectedIsBlocked
