SPECIFICATION FairSpec
CONSTANTS
    MaxIters = 2
    MaxUSD = 1
    MaxResumes = 2
    Modes = {"default", "acceptEdits"}
    Starts = 1
    Prompts = 1
    Stops = 1
    Choices = 0
    Closes = 1
    Respawns = 1
    Crashes = 0
    SlowTurns = TRUE
 
PROPERTY LoopMovesOn
CHECK_DEADLOCK FALSE
