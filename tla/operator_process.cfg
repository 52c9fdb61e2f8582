SPECIFICATION FairProcessSpec
CONSTANTS
    Modes = {"single", "milo", "other"}
    MaxProcessFaults = 3
INVARIANTS
    ExitReportsError
PROPERTIES
    StopsTogether
    Serves
CHECK_DEADLOCK FALSE
