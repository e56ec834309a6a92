------------------------------ MODULE RoomPage ------------------------------
(***************************************************************************)
(* The page of one person in a meeting (RoomPage): it asks to join, again  *)
(* every five seconds while no moderator is there, shows the device check, *)
(* then mounts the connection of one room, the main one or a breakout.     *)
(* Mounting another room unmounts the former, whose onDisconnected is      *)
(* called later, like that of a true departure: switchingRef tells the two *)
(* apart.  RoomsService.join answers.                                      *)
(***************************************************************************)
EXTENDS Naturals, Sequences, FiniteSets

CONSTANTS
  PageGroups,    \* the breakout rooms the person may be sent to
  MaxPageActs,   \* bounds on the clicks that change room or save settings,
  MaxDrops,      \*   on the connections lost or left,
  MaxJoinFails   \*   and on the requests to join that fail

ASSUME PageAssumption ==
  {MaxPageActs, MaxDrops, MaxJoinFails} \subseteq Nat /\ {"main", "none"} \cap PageGroups = {}

Main  == "main"
Rooms == {Main} \cup PageGroups
None  == "none"

VARIABLES
  who,           \* "manager", "enrolled" or "stranger": what canManageRoom, isEnrolled answer
  hosted,        \* a moderator is connected to the main room
  ask,           \* the request to join: "idle", "sent", or its answer on the way
  timer,         \* the retry is scheduled
  waiting,       \* waitingForModerator
  fatal,         \* error
  mainJoined,    \* mainConnection is set
  conn,          \* activeConnection: [room, token], the rooms each is about
  checked,       \* deviceSelection is set
  switching,     \* switchingRef
  link,          \* the connection of the mounted room: "none", "up", "down"
  discs,         \* calls of onDisconnected to come: "switch" or "leave"
  clicks,        \* joinBreakoutRoom requests in flight
  saving,        \* updateSettings in flight, for that room
  out,           \* where the person is: "page", "closed", "home", "moodle"
  mixed,       \* two changes of room overlapped, or a save and a change
  pageActs       \* [switch, drop, fail]: counters

waitVars == <<ask, timer, waiting, fatal, mainJoined>>
callVars == <<conn, switching, link, discs>>
pageVars == <<who, hosted, waitVars, callVars, checked, clicks, saving, out, mixed, pageActs>>

Answers == {"token", "noModerator", "forbidden", "failed"}
Counted(k) == pageActs' = [pageActs EXCEPT ![k] = @ + 1]

PageTypeOK ==
  /\ who \in {"manager", "enrolled", "stranger"}
  /\ ask \in {"idle", "sent"} \cup Answers
  /\ {hosted, timer, waiting, fatal, mainJoined, checked, switching, mixed} \subseteq BOOLEAN
  /\ conn \in [room : {None} \cup Rooms, token : {None} \cup Rooms]
  /\ link \in {"none", "up", "down"}
  /\ discs \in Seq({"switch", "leave"})
  /\ Len(discs) <= MaxPageActs + MaxDrops
  /\ clicks \in Seq(PageGroups)
  /\ Len(clicks) <= MaxPageActs
  /\ saving \in {None} \cup Rooms
  /\ out \in {"page", "closed", "home", "moodle"}
  /\ pageActs \in [switch : 0..MaxPageActs, drop : 0..MaxDrops, fail : 0..MaxJoinFails]

PageInit ==
  /\ who \in {"manager", "enrolled", "stranger"}
  /\ hosted \in BOOLEAN
  /\ ask = "sent"
  /\ timer = FALSE
  /\ waiting = FALSE
  /\ fatal = FALSE
  /\ mainJoined = FALSE
  /\ conn = [room |-> None, token |-> None]
  /\ checked = FALSE
  /\ switching = FALSE
  /\ link = "none"
  /\ discs = <<>>
  /\ clicks = <<>>
  /\ saving = None
  /\ out = "page"
  /\ mixed = FALSE
  /\ pageActs = [switch |-> 0, drop |-> 0, fail |-> 0]

-----------------------------------------------------------------------------
(* Waiting for the meeting                                                  *)

\* hasActiveModerator asks LiveKit; moderators come and go.
Moderators ==
  /\ hosted' = ~hosted
  /\ UNCHANGED <<who, waitVars, callVars, checked, clicks, saving, out, mixed, pageActs>>

\* RoomsService.join: a manager starts the meeting, the others need a moderator.
JoinVerdict ==
  CASE who = "manager"                -> "token"
    [] who = "stranger"               -> "forbidden"
    [] who = "enrolled" /\ hosted     -> "token"
    [] who = "enrolled" /\ ~hosted    -> "noModerator"

Join ==
  /\ ask = "sent"
  /\ \/ ask' = JoinVerdict /\ UNCHANGED pageActs
     \/ /\ pageActs.fail < MaxJoinFails
        /\ ask' = "failed"
        /\ Counted("fail")
  /\ UNCHANGED <<who, hosted, timer, waiting, fatal, mainJoined, callVars, checked, clicks,
                 saving, out, mixed>>

\* Mutant: the retry is scheduled when the wait begins, not at each refusal.
AttemptAnsweredOnce ==
  /\ ask \in Answers
  /\ ask' = "idle"
  /\ waiting' = CASE ask = "token" -> FALSE
                  [] ask = "noModerator" -> TRUE
                  [] OTHER -> waiting
  /\ timer' = (ask = "noModerator" /\ ~waiting)
  /\ fatal' = (fatal \/ ask \in {"forbidden", "failed"})
  /\ mainJoined' = (ask = "token")
  /\ conn' = IF ask = "token" THEN [room |-> Main, token |-> Main] ELSE conn
  /\ UNCHANGED <<who, hosted, switching, link, discs, checked, clicks, saving, out, mixed, pageActs>>

\* The answer to attempt(): only the wait for a moderator is tried again.
AttemptAnswered ==
  /\ out = "page"
  /\ ask \in Answers
  /\ ask' = "idle"
  /\ waiting' = CASE ask = "token" -> FALSE
                  [] ask = "noModerator" -> TRUE
                  [] OTHER -> waiting
  /\ timer' = (ask = "noModerator")
  /\ fatal' = (fatal \/ ask \in {"forbidden", "failed"})
  /\ mainJoined' = (ask = "token")
  /\ conn' = IF ask = "token" THEN [room |-> Main, token |-> Main] ELSE conn
  /\ UNCHANGED <<who, hosted, switching, link, discs, checked, clicks, saving, out, mixed, pageActs>>

Retry ==
  /\ timer
  /\ timer' = FALSE
  /\ ask' = "sent"
  /\ UNCHANGED <<who, hosted, waiting, fatal, mainJoined, callVars, checked, clicks, saving, out,
                 mixed, pageActs>>

\* The page is closed: the retry is cleared, an answer on its way is ignored.
ClosePage ==
  /\ out = "page"
  /\ out' = "closed"
  /\ timer' = FALSE
  /\ UNCHANGED <<who, hosted, ask, waiting, fatal, mainJoined, callVars, checked, clicks, saving,
                 mixed, pageActs>>

-----------------------------------------------------------------------------
(* In the call                                                              *)

InCall == out = "page" /\ checked /\ ~fatal

\* onJoin of the PreJoinScreen: the room is mounted, and connects.
Validate ==
  /\ out = "page"
  /\ ~fatal /\ ~waiting /\ ~checked /\ conn.room # None
  /\ checked' = TRUE
  /\ link' = "up"
  /\ UNCHANGED <<who, hosted, waitVars, conn, switching, discs, clicks, saving, out, mixed, pageActs>>

\* "Rejoindre le groupe", of the banner or of the manager's panel.
ClickJoin(g) ==
  /\ InCall
  /\ conn.room # g
  /\ pageActs.switch < MaxPageActs
  /\ clicks' = Append(clicks, g)
  /\ mixed' = (mixed \/ clicks # <<>>)
  /\ Counted("switch")
  /\ UNCHANGED <<who, hosted, waitVars, callVars, checked, saving, out>>

\* A room is mounted in the place of another, whose disconnection is told later.
Mount(r) ==
  /\ discs' = IF r # conn.room /\ link = "up" THEN Append(discs, "switch") ELSE discs
  /\ link' = IF r # conn.room THEN "up" ELSE link

Pending == \E i \in DOMAIN discs : discs[i] = "switch"

\* handleJoinBreakout after its await; a refusal only shows a banner.
JoinAnswered ==
  /\ InCall
  /\ clicks # <<>>
  /\ clicks' = Tail(clicks)
  /\ \/ UNCHANGED <<callVars, mixed>>
     \/ LET g == Head(clicks) IN
        /\ switching' = TRUE
        /\ conn' = [room |-> g, token |-> g]
        /\ Mount(g)
        /\ mixed' = (mixed \/ Pending \/ saving # None)
  /\ UNCHANGED <<who, hosted, waitVars, checked, saving, out, pageActs>>

\* Mutant: the return is not told from a departure.
HandleReturnUnmarked ==
  /\ InCall
  /\ mainJoined
  /\ conn.room \in PageGroups
  /\ pageActs.switch < MaxPageActs
  /\ conn' = [room |-> Main, token |-> Main]
  /\ Mount(Main)
  /\ mixed' = (mixed \/ Pending \/ saving # None \/ clicks # <<>>)
  /\ Counted("switch")
  /\ UNCHANGED <<who, hosted, waitVars, switching, checked, clicks, saving, out>>

HandleReturnToMain ==
  /\ InCall
  /\ mainJoined
  /\ conn.room \in PageGroups
  /\ pageActs.switch < MaxPageActs
  /\ switching' = TRUE
  /\ conn' = [room |-> Main, token |-> Main]
  /\ Mount(Main)
  /\ mixed' = (mixed \/ Pending \/ saving # None \/ clicks # <<>>)
  /\ Counted("switch")
  /\ UNCHANGED <<who, hosted, waitVars, checked, clicks, saving, out>>

\* "Quitter", the end of the meeting, an exclusion, a lost network.
Drop ==
  /\ InCall
  /\ link = "up"
  /\ pageActs.drop < MaxDrops
  /\ link' = "down"
  /\ discs' = Append(discs, "leave")
  /\ Counted("drop")
  /\ UNCHANGED <<who, hosted, waitVars, conn, switching, checked, clicks, saving, out, mixed>>

\* onDisconnected: to Moodle only for who came from it.
OnDisconnected ==
  /\ InCall
  /\ discs # <<>>
  /\ discs' = Tail(discs)
  /\ switching' = FALSE
  /\ out' \in IF switching THEN {out} ELSE {"home", "moodle"}
  /\ UNCHANGED <<who, hosted, waitVars, conn, link, checked, clicks, saving, mixed, pageActs>>

\* The settings of the main room, which a manager saves.
SaveSettings ==
  /\ InCall
  /\ who = "manager"
  /\ conn.room = Main
  /\ saving = None
  /\ pageActs.switch < MaxPageActs
  /\ saving' = Main
  /\ mixed' = (mixed \/ clicks # <<>>)
  /\ Counted("switch")
  /\ UNCHANGED <<who, hosted, waitVars, callVars, checked, clicks, out>>

\* onRoomUpdate: the room of the answer takes the place of that of the connection.
SettingsSaved ==
  /\ InCall
  /\ saving # None
  /\ saving' = None
  /\ conn' = [conn EXCEPT !.room = saving]
  /\ Mount(saving)
  /\ UNCHANGED <<who, hosted, waitVars, switching, checked, clicks, out, mixed, pageActs>>

PageNext ==
  \/ Moderators \/ Join \/ AttemptAnswered \/ Retry \/ ClosePage
  \/ Validate \/ JoinAnswered \/ HandleReturnToMain \/ Drop \/ OnDisconnected
  \/ SaveSettings \/ SettingsSaved
  \/ \E g \in PageGroups : ClickJoin(g)

\* The server answers, the timer fires, the SDK reports a disconnection.
PageFairness ==
  /\ WF_pageVars(Join)
  /\ WF_pageVars(AttemptAnswered)
  /\ WF_pageVars(Retry)

PageSpec == PageInit /\ [][PageNext]_pageVars /\ PageFairness

-----------------------------------------------------------------------------

\* Nobody waits for ever while moderators are there: a refusal for want of a moderator is never the
\* last word, however many there were.  Only the end of the page or an error ends the wait otherwise.
WaitingEnds == []<>(~hosted \/ conn.room # None \/ fatal \/ out # "page")

\* A change of room never sends the person out of the meeting: who is out closed the page or was
\* disconnected, unless two changes overlapped.
SwitchKeepsIn == out \in {"home", "moodle"} => mixed \/ pageActs.drop > 0

\* A departure is not taken for a change of room: once every disconnection is told, nobody is left
\* before a room that is gone, unless two changes overlapped.
NoDeadRoom == ~(InCall /\ link = "down" /\ discs = <<>> /\ ~mixed)

\* Departures and changes of room are told apart, both ways.
DeparturesTold == SwitchKeepsIn /\ NoDeadRoom
=============================================================================
