SPECIFICATION FoFairSpec
CONSTANTS
    Account = {a1, a2, p1}
    Flow = {f1, h1, h2}
    Hook = {h1, h2}
    Home = {a1}
    Keep = Keep
    MaxInst = 3
    SlowBuild = FALSE
    Message = {m1}
    NoMessage = NoMessage
    Provider = {p1}
    Unread = {a1, p1}
    Rooms = {0, 30}
INVARIANTS RegTypeOK 
 
CHECK_DEADLOCK FALSE
