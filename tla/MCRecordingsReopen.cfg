\* Two reconciliations of the same recording.
SPECIFICATION Spec
CONSTANTS
    Room = {r1}
    Egress = {e1}
    Request = {q1, q2}
    Cron = cron
    None = none
    MaxConcurrent = 1
    Outages = FALSE
PROPERTIES
    ReconcileNeverReopens
CHECK_DEADLOCK FALSE
