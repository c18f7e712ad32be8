SPECIFICATION Spec
CONSTANTS
    NRoles = 2
    Targets = {data}
    MaxGen = 2
    Required = 2
    AutoRepair = TRUE
    RepairBlocks = TRUE
INVARIANTS
    TypeOK
    ExclusiveWorkers
    ReadyIsProven
    SurvivorsAreCut
    CertificationIsEarned
PROPERTIES
    UncleanIsFinal
