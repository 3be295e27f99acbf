\* Three refills, so that a refill happens with bytes of the old fill still
\* unread and the next one follows it; one leaked descriptor.
CONSTANTS
    BufSz = 6
    WordSz = 2
    Lens <- MCLens
    MaxFills = 3
    MaxLeaks = 1
    UintMod = 65536
SPECIFICATION Spec
INVARIANT TypeOK
PROPERTY RandPoolRefined
\* Once MaxFills refills are spent, calls still succeed or fail: no deadlock.
