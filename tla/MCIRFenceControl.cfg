CONSTANTS
    n1 = n1
    n2 = n2
    p1 = p1
    p2 = p2
    None = None
    NoCoord = NoCoord
    NoDims = NoDims
    Malformed = Malformed
    Nodes <- MCNodes
    Pos <- MCPos
    Dims <- MCDims
    Lines <- MCLines
    Dedup = TRUE
    MaxLines = 12
    UartCap = 1
    RawTty = FALSE

SPECIFICATION Spec

INVARIANT TypeOK
INVARIANT FlagsFollowLastGraph
INVARIANT FenceFollowsLastFence
PROPERTY TopologyRefinement
