\* room_finished against a start in flight; nothing fails, nothing is lost.
SPECIFICATION DeliveringSpec
CONSTANTS
    Room = {r1}
    Egress = {e1}
    Request = {q1, q2}
    Cron = cron
    None = none
    MaxConcurrent = 1
    Outages = FALSE
PROPERTIES
    FinishedRoomStopsEgress
CHECK_DEADLOCK FALSE
