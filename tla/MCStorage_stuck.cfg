SPECIFICATION StSpec
CONSTANTS
    MaxPid = 2
PROPERTIES NoReplacementWhileStuck
