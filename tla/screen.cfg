SPECIFICATION ScrSpec
CONSTANTS
    Closer = {k1}
    Starter = Starter
    OutCap = 2
    EventCap = 1
    MaxSends = 1
    MaxSays = 1
    Question = {a1}
    Waiting = {q1}
    ViewCap = 5
    Seeds <- MCSeeds
    MaxLag = 1
    MaxViewSeq = 6
    MaxViewTurns = 2
    MaxCalls = 2
    MaxTokens = 1
    MaxFaults = 1
    Home = {1, 2}
    Size <- MCSize
    TailBytes = 3
    PageBytes = 3
    MaxSeed = 3
    Resident = 2
    MaxLines = 3
    MaxMoves = 2
    Id = {1, 2}
    Root = {1, 2}
    Dir = {"web", "api", "docs"}
    Tally = 4
    Port = {1}
    Limit = 1
    HeadLines = 1
    MinLines = 2
    MaxHistLines = 2
    MaxHistMoves = 2
    MaxTime = 2
    Chat = {c1}
    Folder = {1, 2}
    MaxRecs = 3
    MaxSpendTurns = 3
    MaxScans = 2
    MaxStamp = 2
    Reader = {r1, r2}
    Feeder = {}
    TTL = 2
    FailTTL = 1
    Year = 12
    MaxNow = 3
    MaxShifts = 2
INVARIANTS ScrTypeOK DriverIsSound ShownIsTrue
CHECK_DEADLOCK FALSE
