\* Two workers that may panic, clients that may disconnect, and a cleanup task
\* that may run between any two steps of theirs.  Every request may be served:
\* the system stops when all have been.
SPECIFICATION Spec
CONSTANTS
    Request = {r1, r2, r3}
    Worker = {w1, w2}
    Sweeper = sweeper
    Client = {}
    Key = {k1}
    Fresh = {TRUE, FALSE}
    Outcome = {"modern_slp+query", "legacy_slp", "error"}
    MinuteLength = 1
    CacheTTL = 1
    TicketTTL = 0
    MaxTime = 1
    WorkersMayPanic = TRUE
    ClientsMayDisconnect = TRUE
    NoTicket = NoTicket
    NoRequest = NoRequest
SYMMETRY Symmetry
INVARIANTS
    TypeOK
    NoStrandedTicket
    QueueEntryAccounted
    ProcessingGauge
    QueueAccounting
    StatsAddUp
    OnlyLookupsDeadlock
PROPERTIES
    ImplementsContract
    CacheNeverRegresses
CHECK_DEADLOCK FALSE
