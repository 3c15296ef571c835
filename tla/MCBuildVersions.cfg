CONSTANTS
    Options <- AllOptions
    ArchLists <- OneArch
    PackageList <- MCPackageList
    Faults = {}
    MaxFaults = 0
    MaxChanges = 0
SPECIFICATION Spec
INVARIANTS CleanRunCompletes
CHECK_DEADLOCK TRUE
