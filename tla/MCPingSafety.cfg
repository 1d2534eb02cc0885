\* The timeouts of the code; a ping ends, and then nothing more happens.
SPECIFICATION QueryPingSpec
CONSTANTS
    SrvTimeout = 5
    TargetTimeout = 5
    DnsTimeout = 10
    SystemTimeout = 5
    ModernTimeout = 20
    QueryTimeout = 2
    LegacyAfterError = 15
    LegacyAfterTimeout = 10
    IdleTimeout = 10
    ProtocolTimeout = 30
    Token = {t1, t2}
    NoToken = NoToken
    Reply <- Replies
INVARIANTS
    TypeOK
    WithinBudget
    ModernAnswerKept
    
    EnabledIsEarned
    FailsForAReason
PROPERTIES
    ImplementsContract
CHECK_DEADLOCK FALSE
