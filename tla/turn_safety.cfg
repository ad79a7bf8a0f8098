SPECIFICATION TnSpec
CONSTANTS
    Prompt = {p1, p2}
    Ask = {a1}
    Stop = {s1}
    NoPrompt = NoPrompt
    StaleAnswers = FALSE
    SlowCLI = TRUE
    Policies <- MCPolicies
    TripN = 2
    MaxAge = 2
INVARIANT TypeOK
INVARIANT SentOnce
 
INVARIANT OneTurn
PROPERTY MovesOn
PROPERTY GuardIsSound
CHECK_DEADLOCK FALSE
