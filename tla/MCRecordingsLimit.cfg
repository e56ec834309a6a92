\* An egress cut at its maximum duration; nothing fails.
SPECIFICATION FairSpec
CONSTANTS
    Room = {r1}
    Egress = {e1}
    Request = {q1}
    Cron = cron
    None = none
    MaxConcurrent = 1
    Outages = FALSE
PROPERTIES
    SettlesEveryEnd
CHECK_DEADLOCK FALSE
