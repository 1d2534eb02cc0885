\* Is a result ever shared for longer than the minute it is cached for?
SPECIFICATION Spec
CONSTANTS
    Request = {r1, r2, r3}
    Worker = {w1}
    Sweeper = sweeper
    Client = {}
    Key = {k1}
    Fresh = {FALSE}
    Outcome = {"modern_slp"}
    MinuteLength = 2
    CacheTTL = 2
    TicketTTL = 9
    MaxTime = 3
    WorkersMayPanic = FALSE
    ClientsMayDisconnect = FALSE
    NoTicket = NoTicket
    NoRequest = NoRequest
SYMMETRY Symmetry
INVARIANTS
    CachedForOneMinute
CHECK_DEADLOCK FALSE
