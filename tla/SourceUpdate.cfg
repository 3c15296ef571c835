CONSTANTS
    Targets = {i686, x86_64}
    Faults = {"exit", "kill", "git"}
    MaxRev = 2
    MaxFaults = 3
SPECIFICATION FairSpec
INVARIANTS UpdateInv DriftNeedsUpdate ConfIsCurrent
PROPERTIES EventuallyInstalled
CHECK_DEADLOCK TRUE
