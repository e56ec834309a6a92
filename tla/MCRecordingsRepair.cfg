\* The repair of stuck rows, with outages, restarts and lost webhooks.
SPECIFICATION FairSpec
CONSTANTS
    Room = {r1}
    Egress = {e1}
    Request = {q1}
    Cron = cron
    None = none
    MaxConcurrent = 1
    Outages = TRUE
PROPERTIES
    SettlesForGood
CHECK_DEADLOCK FALSE
