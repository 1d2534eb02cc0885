\* Requests with and without ?fresh for one target: the cache and ticket locks
\* are taken in opposite orders, and nothing moves any more.
SPECIFICATION FairSpec
CONSTANTS
    Request = {r1, r2, r3}
    Worker = {w1}
    Sweeper = sweeper
    Client = {}
    Key = {k1}
    Fresh = {TRUE, FALSE}
    Outcome = {"modern_slp"}
    MinuteLength = 1
    CacheTTL = 1
    TicketTTL = 2
    MaxTime = 0
    WorkersMayPanic = FALSE
    ClientsMayDisconnect = FALSE
    NoTicket = NoTicket
    NoRequest = NoRequest
PROPERTIES
    RequestsAnswered
CHECK_DEADLOCK FALSE
