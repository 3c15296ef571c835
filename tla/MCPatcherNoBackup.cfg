CONSTANTS
    NBin = 2
    NTxt = 1
    Qt = Qt
    Qt5 = Qt5
    Program = Program
    Place = {Qt, Qt5}
    Spaced = {}
    Contains <- MCContains
    RenameReplaces = FALSE
    Backups = {FALSE}
    Faults = {"io"}
    MaxFaults = 1
SPECIFICATION Spec
INVARIANTS NotNeededIsTrue
CHECK_DEADLOCK TRUE
