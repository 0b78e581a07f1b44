SPECIFICATION GCSpec
CONSTANTS
    s = s
    t = t
    a = a
    b = b
    c = c
    d = d
    e = e
    MaxNodes = 3
    MaxEdges = 3
    MaxDegree = 2
    Ids = {s, t, a, b, c, d, e}
    Documents <- MCDocuments
    ReachCap = 2
    Names = {s, t, a, c}
    Graphs <- MCGraphs
    Limits = {0, 1, 2}
    HopCap = 3
    Surplus = 4
INVARIANTS
    NoDanglingEdge
    LoadsTheWholeDocument
    ReportedPathsAreReal
    BestPathsUnlessCut
    RepeatedOnlyByParallelEdges
PROPERTIES
    MoreEdgesNeverSafer
CHECK_DEADLOCK FALSE
