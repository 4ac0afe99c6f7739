SPECIFICATION FairSpec
CONSTANTS
    a = a
    b = b
    c = c
    Target <- MCTarget
    Builds <- MCBuilds
    Slots <- MCSlots
    Signal <- MCSignal
INVARIANTS
    TypeOK
    InterruptFails
    OrphansOnlyByInterrupt
    CountOffByHits
PROPERTIES
    StartsNothingAfterHit
    Exits
