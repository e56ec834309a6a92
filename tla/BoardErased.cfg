SPECIFICATION BoardSpec
CONSTANTS
 Drawers = {m1}
 Watchers = {}
 Edits = {e1}
 MaxSwitches = 3
 MaxMishaps = 0
PROPERTY SavedDrawingKept
CHECK_DEADLOCK FALSE
