CONSTANTS
    Lines <- MCUsageLines
    Symbol <- MCSymbol
    Upper <- MCUpper
    Digit <- MCDigit
    Shared <- MCShared
SPECIFICATION Spec
INVARIANT UsageKept
