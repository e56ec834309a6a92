\* Every handler concurrent with every other, on one recording.
SPECIFICATION Spec
CONSTANTS
    Room = {r1}
    Egress = {e1}
    Request = {q1, q2}
    Cron = cron
    None = none
    MaxConcurrent = 1
    Outages = TRUE
SYMMETRY Symmetry
INVARIANTS
    TypeOK
    FinalAgrees
    DeletedIsOver
    NoOrphanObject
CHECK_DEADLOCK FALSE
