CONSTANTS
    N = 2
    Recipe <- MCRecipe
    Vcs = {2}
    Lenient = {}
    NPatches <- MCNPatches
    Targets = {i686, x86_64}
    Common = common
    Faults = {"exit", "kill"}
    MaxFaults = 2
SPECIFICATION FairSpec
INVARIANTS TypeOK MarkerSound PatchMarkerSound InputsReady PipelineInv
PROPERTIES SourcesFrozen ImplementsPlan RunEnds EventuallyBuilt WedgeIsFinal
CHECK_DEADLOCK TRUE
