CONSTANTS
    Lines <- MCLines
    Symbol <- MCSymbol
    Upper <- MCUpper
    Digit <- MCDigit
    Shared <- MCShared
SPECIFICATION Spec
INVARIANTS NothingRunsOnBadLine SwitchesBeforeCode CodeInOrder VariablesWin
    SuccessMeansBuilt
