SPECIFICATION RSpec
CONSTANTS
    MaxDat = 1
    MaxTx = 3
    Vias = {cifs}
    RetryLimit = 2
    TailRecovery = FALSE
INVARIANTS
    AttemptsAreBounded

    
