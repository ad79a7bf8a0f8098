SPECIFICATION FairSpec
CONSTANTS
    Client = {c1, c2}
    RingCap = 2
    SubBuf = 1
    MaxSeq = 3
    MaxEpoch = 2
    MaxDrop = 1
    MaxDelta = 1
INVARIANT TypeOK
INVARIANT ScreenInOrder
INVARIANT NeverDeaf
INVARIANT BacklogComplete
PROPERTY ImplementsFeed
PROPERTY EventuallyCurrent
CHECK_DEADLOCK FALSE
