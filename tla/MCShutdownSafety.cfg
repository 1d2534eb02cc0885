\* The timers of the code, and a screen that is drawn within 40 ms; the program may end.
SPECIFICATION FairSpec
CONSTANTS
    RenderInterval = 10
    StatsInterval = 50
    SleepTime = 5
    PollTime = 1
    QuitPoll = 10
    ExitTimeout = 500
    MaxRender = 4
    MaxOpen = 1
INVARIANTS
    TypeOK
    ServerHearsQuit
    StandardModeDrains
PROPERTIES
    KeysAreRead
    SignalEndsProgram
CHECK_DEADLOCK FALSE
