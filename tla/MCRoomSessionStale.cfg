\* Webhooks late, lost or out of order.
SPECIFICATION FairSpec
CONSTANTS
    Manager = {m1}
    Viewer = {}
    Request = {q1}
    Courier = {h1}
    Cron = cron
    InOrder = FALSE
    Outages = TRUE
    MaxSession = 2
    MaxConn = 1
PROPERTIES
    StaleLiveIsClosed
CHECK_DEADLOCK FALSE
