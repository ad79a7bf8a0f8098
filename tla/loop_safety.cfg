SPECIFICATION Spec
CONSTANTS
    MaxIters = 2
    MaxUSD = 2
    MaxResumes = 1
    Modes = {"default", "acceptEdits"}
    Starts = 2
    Prompts = 1
    Stops = 1
    Choices = 1
    Closes = 0
    Respawns = 0
    Crashes = 2
    SlowTurns = TRUE
INVARIANT TypeOK
 
INVARIANT RecordCurrent
PROPERTY GivesUpOnlyCrashLoops
CHECK_DEADLOCK FALSE
