CONSTANTS
    N = 3
    Recipe <- MCRecipe3
    Vcs = {3}
    Lenient = {2}
    NPatches <- MCNPatches3
    Targets = {i686}
    Common = common
    Faults = {"exit", "kill", "checkout", "vcs", "patch"}
    MaxFaults = 3
SPECIFICATION Spec
INVARIANT DamageConfined
CHECK_DEADLOCK TRUE
