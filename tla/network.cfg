SPECIFICATION NetSpec
CONSTANTS
    Source = {s1, s2}
    MaxSources = 1
    PerSource <- MCWait
    Global <- MCWait
    TTL = 3
    Refresh = 1
    MaxTicks = 4
    MaxPins = 2
    MaxTokens = 1
    MaxGuesses = 4
    Restarts = 1
    SavesPin = TRUE
    Admin = {1, 2, 3}
    NetAddr = {n1, n2}
    NoStart = 0
    Id = {1, 2}
    Seats <- MCSeats
    Home <- MCHome
    Proc = {q1, q2}
    Program <- MCPrograms
    Port = {1}
    Service = 9
    Ask = {r1, r2}
    NoOne = NoOne
    MaxRuns = 2
    MaxAsks = 2
    MaxHides = 1
    Login = {1, 2}
    Acct = {a1}
    Reachable = TRUE
    Roomy = TRUE
    SerialEdits = TRUE
    MaxItems = 3
    MaxBroken = 2
    Overlap = FALSE
    Mixed = FALSE
    Starter = {1, 2}
    Signer = {3}
    Asker = {1}
    Ports = 2
    KunaiRestarts = 1
    Rotations = 4
    Boots = 2
    Attempt = {1, 2}
    Paste = {1, 2}
    NoAttempt = 0
    ModelWindow <- MCWindow
    Overhead = 1
    Weight = {1, 2}
    Tool = {"a", "b", "c"}
    Brief <- MCBrief
    Suffixed <- MCSuffixed
    Offers <- MCOffers
    MaxOffer = 3
    Strangers = {}
    Shape <- MCShape
    Candid = TRUE
    MaxTalk = 4
    MaxTries = 1
    MaxMoves = 1
    MaxCalls = 1
INVARIANTS NetTypeOK  RequestsAreSound
PROPERTIES LockRemembers ProviderIsHeard
CHECK_DEADLOCK FALSE
