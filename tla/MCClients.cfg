SPECIFICATION MCSpec
CONSTANTS
 Drawers = {m1}
 Watchers = {v1}
 Edits = {e1}
 MaxSwitches = 3
 MaxMishaps = 1
 Guests = {u1, u2}
 MaxSeconds = 4
 MaxEvents = 3
 PageGroups = {g1, g2}
 MaxPageActs = 3
 MaxDrops = 1
 MaxJoinFails = 1
 Devices = {"builtin", "headset"}
 MaxPicks = 1
 MaxUnplugs = 1
 MaxRefusals = 1
 Items = {i1, i2}
 MaxLoads = 2
 MaxListActs = 2
 MaxOutside = 1
 MaxQueries = 2
 Admin = a
 Others = {u}
 Desks = {d1, d2}
 MaxDeskActs = 2
 MaxLogins = 1
 MaxIds = 2
 Todays <- MonthEnds
 MaxRecords = 2
 PerPageDefault = 2
 PerPageMax = 3
 MaxLines = 2
 WindowSamples = 6
 MinOverlap = 3
 Dominance = 2
 MaxQuiet = 7
INVARIANTS
 ClientsTypeOK
 TimesAreTrue
 DeparturesTold
 OnlyThePreview
 
 
 ImportEnrolsEverybody
 ReportsAddUp
 ColumnsByName
 EchoWarningFades
PROPERTIES
 
 
 WaitingEnds
 
 PolledListsCatchUp
 LatestQueryWins
CHECK_DEADLOCK FALSE
