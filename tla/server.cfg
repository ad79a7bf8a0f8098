SPECIFICATION SvSpec
CONSTANTS
    Patient = TRUE
    Client = {c1}
    MaxRuns = 2
    MaxQueue = 2
    Device = {}
    Tab = {}
    MaxTurns = 1
    MaxLinks = 2
    MaxCodes = 0
    Opens = 1
    Tiers = {"view", "ask", "work"}
    Public = {1, 2}
    Apps = {2}
    Local = {11, 12}
    MaxDown = 2
    Calm = TRUE
    Tidy = TRUE
    OpenEnds = FALSE
INVARIANTS SvTypeOK
PROPERTIES ClaimsAreKept  
CHECK_DEADLOCK FALSE
