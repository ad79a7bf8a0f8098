SPECIFICATION Spec
CONSTANTS
    MaxIters = 2
    MaxUSD = 2
    MaxResumes = 1
    Modes = {"default", "acceptEdits"}
    Starts = 1
    Prompts = 0
    Stops = 0
    Choices = 0
    Closes = 1
    Respawns = 0
    Crashes = 0
    SlowTurns = TRUE
INVARIANT RecordCurrent
CHECK_DEADLOCK FALSE
