CONSTANTS
    m1 = m1
    m2 = m2
    m3 = m3
    Caller = {m1, m2, m3}
    Path <- MCPath
    Trees <- MCTrees
    Roots <- MCRoots
    Obstacles <- MCObstacles
    MaxRemovals = 2
SPECIFICATION FairSpec
INVARIANTS SuccessMeansThere FailureHasCause OverflowHasCause
PROPERTY CallsReturn
