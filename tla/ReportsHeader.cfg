SPECIFICATION RepSpec
CONSTANTS
 Todays = {}
 MaxRecords = 1
 PerPageDefault = 2
 PerPageMax = 3
 MaxLines = 2
 WindowSamples = 6
 MinOverlap = 3
 Dominance = 2
 MaxQuiet = 7
INVARIANT HeaderIsOptional
CHECK_DEADLOCK FALSE
