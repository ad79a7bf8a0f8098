SPECIFICATION FairSpec
CONSTANTS
    Job = {j1, j2}
    Window = {"five_hour"}
    Offset = {1}
    Day = 2
    WindowLen = 1
    Horizon = 3
    Edits = 1
    Crashes = 1
INVARIANT TypeOK
INVARIANT OnceOnly
INVARIANT SleepsNoLonger
PROPERTY DueIsTaken
CHECK_DEADLOCK FALSE
