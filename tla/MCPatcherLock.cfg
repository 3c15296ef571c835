CONSTANTS
    NBin = 2
    NTxt = 1
    Qt = Qt
    Qt5 = Qt5
    Program = Program
    Place = {Qt, Qt5}
    Spaced = {}
    Contains <- MCContains
    RenameReplaces = FALSE
    Backups = {TRUE, FALSE}
    Faults = {"io", "slip", "lock", "kill"}
    MaxFaults = 2
SPECIFICATION Spec
INVARIANTS TypeOK FailureUndone NothingLost ConfKept
CHECK_DEADLOCK TRUE
