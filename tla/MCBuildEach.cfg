CONSTANTS
    Options <- EachOptions
    ArchLists <- BothOrder
    PackageList <- MCPackageList
    Faults = {"exit", "kill"}
    MaxFaults = 2
    MaxChanges = 0
SPECIFICATION FairSpec
INVARIANTS RunDelivers ConfIsOwn
PROPERTIES EventuallyInstalled
CHECK_DEADLOCK TRUE
