SPECIFICATION Spec
CONSTANTS
    NRoles = 2
    Targets = {data}
    MaxGen = 2
    Required = 2
    AutoRepair = FALSE
    RepairBlocks = TRUE
INVARIANTS
    CleanOutcomeMeansNoWriter
PROPERTIES
    WritersAreFencedBeforeDetach
