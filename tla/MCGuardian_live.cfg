SPECIFICATION Spec
CONSTANTS
    NRoles = 1
    Targets = {data}
    MaxGen = 2
    Required = 1
    AutoRepair = TRUE
    RepairBlocks = FALSE
INVARIANTS
    LiveWorkersKnown
PROPERTIES
    ImplementsCycle
    
    TrappedHelperIsFenced
    RecoversWhenFaultsCease
