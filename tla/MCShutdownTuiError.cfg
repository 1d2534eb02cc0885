\* The UI fails: does main wait for a server that shuts down?
SPECIFICATION Spec
CONSTANTS
    RenderInterval = 10
    StatsInterval = 50
    SleepTime = 5
    PollTime = 1
    QuitPoll = 10
    ExitTimeout = 500
    MaxRender = 4
    MaxOpen = 1
INVARIANTS
    ServerToldBeforeExit
CHECK_DEADLOCK FALSE
