SPECIFICATION ProcessSpec
CONSTANTS
    Modes = {"", "single", "milo"}
    MaxProcessFaults = 1
INVARIANT
    ModeDefaultsToSingle
CHECK_DEADLOCK FALSE
