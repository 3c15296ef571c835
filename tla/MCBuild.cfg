CONSTANTS
    Options <- BuildOptions
    ArchLists <- BothOrders
    PackageList <- MCPackageList
    Faults = {}
    MaxFaults = 0
    MaxChanges = 1
SPECIFICATION Spec
INVARIANTS TypeOK CleanRunCompletes SkipsOwnWork PathRestored EnvIsOwn DependsInstalled
PROPERTIES ImplementsDelivery
CHECK_DEADLOCK TRUE
