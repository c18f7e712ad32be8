SPECIFICATION StSpec
CONSTANTS
    MaxPid = 2
INVARIANTS StTypeOK LiveSshfsIsRecorded BarrierSparesStorage SentinelIsKept
PROPERTIES DrainEnds
