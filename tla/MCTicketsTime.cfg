\* One worker, three requests, and a clock that passes the minute, the cache's
\* TTL and the tickets' TTL.
SPECIFICATION Spec
CONSTANTS
    Request = {r1, r2, r3}
    Worker = {w1}
    Sweeper = sweeper
    Client = {}
    Key = {k1}
    Fresh = {TRUE, FALSE}
    Outcome = {"modern_slp"}
    MinuteLength = 2
    CacheTTL = 2
    TicketTTL = 2
    MaxTime = 3
    WorkersMayPanic = FALSE
    ClientsMayDisconnect = FALSE
    NoTicket = NoTicket
    NoRequest = NoRequest
SYMMETRY Symmetry
INVARIANTS
    AnswerIsRecent
    AnsweredTicketRetained
PROPERTIES
    ResultsNeverRegress
CHECK_DEADLOCK FALSE
