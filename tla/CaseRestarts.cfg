SPECIFICATION Spec
CONSTANTS
    Requests = {r1}
    Workers = {w1}
    Tickets = {t1, t2, t3}
    NoRequest = NoRequest
    NoTicket = NoTicket
    MaxCrashes = 3
INVARIANTS
    TypeOK
    AtMostOneVerifier
    AdverseNeedsHuman
    StateIsExplained
    NoDeadEnd
PROPERTY
    AuditIsAPath
CHECK_DEADLOCK FALSE
