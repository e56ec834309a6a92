SPECIFICATION MCSpec
CONSTANTS
 Viewers = {v1, v2}
 Exempt = {m}
 PermRequests = {r1, r2}
 MaxActs = 3
 Voters = {u, w}
 Options = {o1, o2}
 TabsEach = 1
 MaxVotes = 2
 Docs = {d1}
 MaxSlides = 2
 MaxCloses = 2
 MaxReboots = 1
 Members = {u1}
 Managers = {m1}
 MaxGroups = 2
 MaxPanelActs = 3
 MaxEndings = 1
 MaxKeys = 2
 MaxIngEnds = 1
 Persons = {h, p1, p2}
 Hosts = {h}
 MaxHandActs = 2
 MaxHandMoves = 2
 MaxPubs = 3
INVARIANTS
 MeetingTypeOK
 LocksHonoured
 ImagesWithRows
 
 MeetingTakesItsGroups
 KeysAccountedFor
 RaisesCountedOnce
 OneVideoAllVoices
PROPERTIES
 ModeratorsSpared
 BallotsReplaced
 PanelsCatchUp
 ConversionsSettle
 
 PanelShowsAnEntry
 HandsAgree
CHECK_DEADLOCK FALSE
