\* Safety and progress of one node's refresh: 2-bit generations (the sentinel 3 is out of
\* reach with two changes), two renames, three socket faults or deadlines.
CONSTANTS
    nA = nA
    nB = nB
    nEmpty = nEmpty
    NodeName <- nA
    OtherName <- nB
    EmptyName <- nEmpty
    GenMod = 4
    MaxGenChanges = 2
    MaxRenames = 2
    MaxFaults = 3
SPECIFICATION Spec
\* A deactivated node is never refreshed again (it is removed): its refresh stops.
CHECK_DEADLOCK FALSE
INVARIANTS
    NoStrayReply
    TablesMatchGeneration
    GossipOnlyFromVerified
PROPERTIES
    TablesEventuallyCurrent
