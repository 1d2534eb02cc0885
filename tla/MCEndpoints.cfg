\* A client that calls each of the endpoints while requests that bypass the
\* cache are served, given up, expire and are swept.
SPECIFICATION EndpointsFairSpec
CONSTANTS
    Request = {r1, r2}
    Worker = {w1}
    Client = {c1}
    Sweeper = sweeper
    Key = {k1}
    Fresh = {TRUE}
    Outcome = {"modern_slp+query", "error"}
    MinuteLength = 1
    CacheTTL = 1
    TicketTTL = 0
    MaxTime = 1
    WorkersMayPanic = FALSE
    ClientsMayDisconnect = TRUE
    NoTicket = NoTicket
    NoRequest = NoRequest
INVARIANTS
    EndpointsTypeOK
    PendingWhilePositioned
    HealthAddsUp
    StatsLagByOne
    CallsAddNoDeadlock
PROPERTIES
    ContractFulfilled
    EveryoneAnswered
    TicketsSettle
CHECK_DEADLOCK FALSE
