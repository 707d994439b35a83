CONSTANTS
    s1 = s1
    s2 = s2
    None = None
    NoParse = NoParse
    Stmts <- MCStmts
    Graphs <- MCGraphs
    MaxPrints = 3
    MidStream = TRUE

SPECIFICATION Spec

PROPERTY DisplayFollowsDevice
