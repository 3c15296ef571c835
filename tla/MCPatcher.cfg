CONSTANTS
    NBin = 2
    NTxt = 1
    Qt = Qt
    Qt5 = Qt5
    Program = Program
    Place = {Qt, Qt5, Program}
    Spaced = {Program}
    Contains <- MCContains
    RenameReplaces = FALSE
    Backups = {TRUE}
    Faults = {"io", "slip"}
    MaxFaults = 2
SPECIFICATION FairSpec
INVARIANTS RelocatedWhenDone
PROPERTIES AllOrNothing RunEnds WedgedForGood EventuallyRelocated
CHECK_DEADLOCK TRUE
