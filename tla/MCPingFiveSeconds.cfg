\* May a ping take longer than five seconds?
SPECIFICATION QueryPingSpec
CONSTANTS
    SrvTimeout = 5
    TargetTimeout = 5
    DnsTimeout = 10
    SystemTimeout = 5
    ModernTimeout = 20
    QueryTimeout = 2
    LegacyAfterError = 15
    LegacyAfterTimeout = 10
    IdleTimeout = 10
    ProtocolTimeout = 30
    Token = {t1, t2}
    NoToken = NoToken
    Reply <- Replies
INVARIANTS
    WithinFiveSeconds
CHECK_DEADLOCK FALSE
