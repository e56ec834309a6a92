\* Two meetings; webhooks in order.
SPECIFICATION Spec
CONSTANTS
    Manager = {m1}
    Viewer = {v1}
    Request = {q1}
    Courier = {h1}
    Cron = cron
    InOrder = TRUE
    Outages = TRUE
    MaxSession = 2
    MaxConn = 2
INVARIANTS
    TypeOK
    SessionsNotMixed
    PresenceIsExact
CHECK_DEADLOCK FALSE
