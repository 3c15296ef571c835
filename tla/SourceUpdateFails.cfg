CONSTANTS
    Targets = {i686}
    Faults = {"git"}
    MaxRev = 2
    MaxFaults = 1
SPECIFICATION Spec
INVARIANT UpdateUpdates
CHECK_DEADLOCK TRUE
