CONSTANTS
    r1 = r1
    r2 = r2
    r3 = r3
    n1 = n1
    n2 = n2
    n3 = n3
    n4 = n4
    sA = sA
    sB = sB
    NoNode = NoNode
    Nodes <- MCNodesLive
    Servers <- MCServers
    NodeServer <- MCNodeServerLive
    Readers <- MCReadersLive
    MaxSets = 5
    GraceAssumed = TRUE
SPECIFICATION Spec
PROPERTY RetiredEventuallyFreed
