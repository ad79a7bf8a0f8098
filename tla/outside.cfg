SPECIFICATION OutSpec
CONSTANTS
    Bot = {1, 2}
    Person = {p1}
    MaxSent = 2
    Changes = 3
    Processes = 2
    Crashes = 1
    Seeded = {}
    SerialSaves = TRUE
    Careful = TRUE
    CalmChat = TRUE
    MaxText = 2
    MaxReplies = 2
    Device = {d1, d2}
    Tab = {1, 2}
    MaxTurns = 1
    MaxLinks = 1
    MaxCodes = 2
    Opens = 1
    Tiers = {"view", "ask"}
    Task = {"fix"}
    Placeholder = "work"
    MaxSuffix = 2
    Keep = 1
    Hand = {h1}
    MaxMade = 2
    MaxCommits = 2
    Patient = TRUE
    Calm = TRUE
    MaxCpTurns = 2
    MaxEdits = 1
    Reverter = {1, 2}
    MaxReverts = 2
    Respawns = 1
    Live = 2
    SeededTurns = 1
    Prompt = TRUE
    CalmTree = TRUE
INVARIANTS OutTypeOK
PROPERTIES PeopleAreServed 
CHECK_DEADLOCK FALSE
