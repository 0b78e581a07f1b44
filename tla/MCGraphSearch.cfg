SPECIFICATION FairSpec
CONSTANTS
    a1 = a1
    a2 = a2
    a3 = a3
    a4 = a4
    a5 = a5
    lost = lost
    Names = {a1, a2, a3, a4, a5, lost}
    Graphs <- MCGraphs
INVARIANTS
    ReachableIsLeastClosedSet
    PathIsShortest
PROPERTIES
    SearchTerminates
CHECK_DEADLOCK FALSE
