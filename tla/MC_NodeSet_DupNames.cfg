CONSTANTS
    r1 = r1
    r2 = r2
    r3 = r3
    n1 = n1
    n2 = n2
    n3 = n3
    n4 = n4
    sA = sA
    sB = sB
    NoNode = NoNode
    Nodes <- MCNodes
    Servers <- MCServers
    NodeServer <- MCNodeServer
    Readers <- MCReaders
    MaxSets = 6
    GraceAssumed = TRUE
SYMMETRY MCSymmetry
SPECIFICATION Spec
INVARIANT NoDuplicateNames
