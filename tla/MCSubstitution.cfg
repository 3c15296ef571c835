CONSTANTS
    Char <- MCChar
    Paths <- MCPaths
    Params <- MCParams
    Width = 10
    MaxPath = 5
    Texts <- MCTexts
    MaxRuns = 2
SPECIFICATION Spec
INVARIANTS TextFollows BinaryFollows
PROPERTIES SearchShrinks
CHECK_DEADLOCK FALSE
