SPECIFICATION SSpec
CONSTANTS
    Ids = {v1, v2}
    Expected = {v2}
    Stability = 3
    AllReadonlyWait = 4
    Interval = 2
    Required = 3
    StartupTimeout = 2
    MaxProbe = 1
INVARIANTS STypeOK VerdictIsSteady ServingIsSustained TimeoutMeansUnsettled
PROPERTY WaitEnds
CHECK_DEADLOCK FALSE
