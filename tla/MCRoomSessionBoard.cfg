\* A manager who comes back.
SPECIFICATION Spec
CONSTANTS
    Manager = {m1}
    Viewer = {}
    Request = {q1}
    Courier = {h1}
    Cron = cron
    InOrder = TRUE
    Outages = FALSE
    MaxSession = 2
    MaxConn = 2
INVARIANTS
    BoardIsFresh
CHECK_DEADLOCK FALSE
