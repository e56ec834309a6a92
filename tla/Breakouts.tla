----------------------------- MODULE Breakouts -----------------------------
(***************************************************************************)
(* The groups of a meeting: created by the loop of create(), filled by     *)
(* assign() from lists it read at its start, ended by closeAll() and       *)
(* deleted by deleteAll() when the meeting closes; and the banner that     *)
(* tells a participant which group he is in.  A group is a row with an id  *)
(* of its own and a number, from which the unique name of its LiveKit room *)
(* is made.  Every await of a handler is a step of its own.                *)
(***************************************************************************)
EXTENDS Naturals, FiniteSets

CONSTANTS
  Members,      \* participants of the meeting
  Managers,     \* those who have the panel of the groups open
  MaxGroups,    \* bounds on the rows ever created,
  MaxPanelActs, \*   on the requests the panels send
  MaxEndings    \*   and on the closings of the meeting

VARIABLES
  groupState,   \* groupState[g]: "none" before creation, "deleted" after the end
  groupNo,      \* the number in its name
  assigned,     \* assignedUserIds
  recorded,     \* groups with a row of recording
  liveGroups,   \* numbers of the groups LiveKit has a room for
  brk,          \* brk[c]: the request of a panel, or of the close() of the meeting
  panelActs, endings,
  banner        \* banner[u]: the group shown to u, 0 for none

brkVars  == <<groupState, groupNo, assigned, recorded, liveGroups, brk, panelActs, endings,
              banner>>
brkRows  == <<groupState, groupNo, assigned>>
brkCount == <<panelActs, endings>>

Groups  == 1..MaxGroups
Numbers == 1..(MaxGroups + 2)      \* a request creates two groups at most
Closer  == "close"                 \* the close() of the main room
Callers == Managers \cup {Closer}

ASSUME BrkAssumption ==
  MaxGroups \in Nat /\ MaxPanelActs \in Nat /\ MaxEndings \in Nat /\ Closer \notin Managers

Groups0 == {0} \cup Groups         \* 0: no group
Rows    == {g \in Groups : groupState[g] \in {"open", "ended"}}
GroupsOf(u) == {g \in Rows : u \in assigned[g]}

BrkRequest ==
  [op : {"idle"}]
    \cup [op : {"create"}, step : {"livekit", "insert"}, n : Numbers, last : Numbers]
    \cup [op : {"assign"}, who : Members, to : Groups0, lists : [Groups -> SUBSET Members]]
    \cup [op : {"closeAll", "deleteAll"}, step : {"livekit", "row"}, g : Groups0,
          todo : SUBSET Groups, listed : SUBSET Groups, keep : SUBSET Groups]

BrkTypeOK ==
  /\ groupState \in [Groups -> {"none", "open", "ended", "deleted"}]
  /\ groupNo \in [Groups -> {0} \cup Numbers]
  /\ assigned \in [Groups -> SUBSET Members]
  /\ recorded \subseteq Groups
  /\ liveGroups \subseteq Numbers
  /\ brk \in [Callers -> BrkRequest]
  /\ panelActs \in 0..MaxPanelActs
  /\ endings \in 0..MaxEndings
  /\ banner \in [Members -> Groups0]

BrkInit ==
  /\ groupState = [g \in Groups |-> "none"]
  /\ groupNo = [g \in Groups |-> 0]
  /\ assigned = [g \in Groups |-> {}]
  /\ recorded = {}
  /\ liveGroups = {}
  /\ brk = [c \in Callers |-> [op |-> "idle"]]
  /\ panelActs = 0
  /\ endings = 0
  /\ banner = [u \in Members |-> 0]

BrkGoes(c, x) == brk' = [brk EXCEPT ![c] = x]
BrkEnds(c)    == BrkGoes(c, [op |-> "idle"])

\* A panel waits for the answer before it sends another request (busy).
PanelAct(m) ==
  /\ brk[m].op = "idle"
  /\ panelActs < MaxPanelActs
  /\ panelActs' = panelActs + 1
  /\ UNCHANGED endings

-----------------------------------------------------------------------------
(* create: the numbers come from a count of the rows; for each, the LiveKit *)
(* room, then the row.                                                      *)

CreateCount(m, count) ==
  /\ PanelAct(m)
  /\ LET n == Cardinality(Rows)
     IN BrkGoes(m, [op |-> "create", step |-> "livekit", n |-> n + 1, last |-> n + count])
  /\ UNCHANGED <<brkRows, recorded, liveGroups, banner>>

CreateLiveKit(m) ==
  /\ brk[m].op = "create"
  /\ brk[m].step = "livekit"
  /\ liveGroups' = liveGroups \cup {brk[m].n}
  /\ BrkGoes(m, [brk[m] EXCEPT !.step = "insert"])
  /\ UNCHANGED <<brkRows, recorded, brkCount, banner>>

\* The name is unique: the request fails on a number that is taken.
CreateInsert(m) ==
  LET x == brk[m] IN
  /\ x.op = "create"
  /\ x.step = "insert"
  /\ IF \E g \in Rows : groupNo[g] = x.n
       THEN BrkEnds(m) /\ UNCHANGED brkRows
       ELSE \E g \in Groups :
              /\ groupState[g] = "none"
              /\ \A h \in Groups : h < g => groupState[h] # "none"
              /\ groupState' = [groupState EXCEPT ![g] = "open"]
              /\ groupNo' = [groupNo EXCEPT ![g] = x.n]
              /\ UNCHANGED assigned
              /\ IF x.n = x.last THEN BrkEnds(m)
                 ELSE BrkGoes(m, [x EXCEPT !.step = "livekit", !.n = @ + 1])
  /\ UNCHANGED <<recorded, liveGroups, brkCount, banner>>

-----------------------------------------------------------------------------
(* assign                                                                   *)

\* Mutant: like closeAll, it looks at the groups that are not ended only.
AssignReadOpenOnly(m, u, g) ==
  /\ PanelAct(m)
  /\ g \in Rows \cup {0}
  /\ BrkGoes(m, [op |-> "assign", who |-> u, to |-> g,
                 lists |-> [h \in Groups |-> IF groupState[h] = "open" THEN assigned[h] ELSE {}]])
  /\ UNCHANGED <<brkRows, recorded, liveGroups, banner>>

\* A group that is gone when the lists are read is refused before any write.
AssignRead(m, u, g) ==
  /\ PanelAct(m)
  /\ g \in Rows \cup {0}
  /\ BrkGoes(m, [op |-> "assign", who |-> u, to |-> g,
                 lists |-> [h \in Groups |-> IF h \in Rows THEN assigned[h] ELSE {}]])
  /\ UNCHANGED <<brkRows, recorded, liveGroups, banner>>

Sisters(x) == {g \in Groups : x.who \in x.lists[g]}

\* The list of a sister group is written back without the participant, from what
\* was read; the update of a row that is gone ends the request.
AssignRemove(m) ==
  LET x == brk[m] IN
  /\ x.op = "assign"
  /\ \E g \in Sisters(x) :
       IF g \in Rows
         THEN /\ assigned' = [assigned EXCEPT ![g] = x.lists[g] \ {x.who}]
              /\ BrkGoes(m, [x EXCEPT !.lists[g] = @ \ {x.who}])
         ELSE BrkEnds(m) /\ UNCHANGED assigned
  /\ UNCHANGED <<groupState, groupNo, recorded, liveGroups, brkCount, banner>>

AssignPush(m) ==
  LET x == brk[m] IN
  /\ x.op = "assign"
  /\ Sisters(x) = {}
  /\ assigned' = IF x.to \in Rows THEN [assigned EXCEPT ![x.to] = @ \cup {x.who}] ELSE assigned
  /\ BrkEnds(m)
  /\ UNCHANGED <<groupState, groupNo, recorded, liveGroups, brkCount, banner>>

-----------------------------------------------------------------------------
(* closeAll and deleteAll: the groups are listed once, then for each the    *)
(* LiveKit room is deleted (an error is swallowed), then the row is ended,  *)
(* or deleted.                                                              *)

CloseAllList(m) ==
  /\ PanelAct(m)
  /\ LET open == {g \in Groups : groupState[g] = "open"}
     IN BrkGoes(m, [op |-> "closeAll", step |-> "livekit", g |-> 0, todo |-> open,
                    listed |-> open, keep |-> open])
  /\ UNCHANGED <<brkRows, recorded, liveGroups, banner>>

\* deleteAll keeps the groups that have a recording when they are listed.
DeleteAllList ==
  /\ brk[Closer].op = "idle"
  /\ endings < MaxEndings
  /\ endings' = endings + 1
  /\ BrkGoes(Closer, [op |-> "deleteAll", step |-> "livekit", g |-> 0, todo |-> Rows,
                      listed |-> Rows, keep |-> Rows \cap recorded])
  /\ UNCHANGED <<brkRows, recorded, liveGroups, panelActs, banner>>

\* Mutant: the next group is taken when LiveKit fails.
GroupRoomGoesOn(c) ==
  LET x == brk[c] IN
  /\ x.op \in {"closeAll", "deleteAll"}
  /\ x.step = "livekit"
  /\ IF x.todo = {} THEN BrkEnds(c) /\ UNCHANGED liveGroups
     ELSE \E g \in x.todo :
            \/ /\ BrkGoes(c, [x EXCEPT !.step = "row", !.g = g, !.todo = @ \ {g}])
               /\ liveGroups' = liveGroups \ {groupNo[g]}
            \/ /\ BrkGoes(c, [x EXCEPT !.todo = @ \ {g}])
               /\ UNCHANGED liveGroups
  /\ UNCHANGED <<brkRows, recorded, brkCount, banner>>

GroupRoom(c) ==
  LET x == brk[c] IN
  /\ x.op \in {"closeAll", "deleteAll"}
  /\ x.step = "livekit"
  /\ IF x.todo = {} THEN BrkEnds(c) /\ UNCHANGED liveGroups
     ELSE \E g \in x.todo :
            /\ BrkGoes(c, [x EXCEPT !.step = "row", !.g = g, !.todo = @ \ {g}])
            /\ liveGroups' \in {liveGroups, liveGroups \ {groupNo[g]}}
  /\ UNCHANGED <<brkRows, recorded, brkCount, banner>>

\* A row that is gone ends the request with an error.  The deletion of a row
\* takes its recordings with it.
GroupRow(c) ==
  LET x == brk[c]
      to == IF x.g \in x.keep THEN "ended" ELSE "deleted"
  IN
  /\ x.op \in {"closeAll", "deleteAll"}
  /\ x.step = "row"
  /\ IF x.g \in Rows
       THEN /\ groupState' = [groupState EXCEPT ![x.g] = to]
            /\ BrkGoes(c, [x EXCEPT !.step = "livekit", !.g = 0])
       ELSE BrkEnds(c) /\ UNCHANGED groupState
  /\ UNCHANGED <<groupNo, assigned, recorded, liveGroups, brkCount, banner>>

-----------------------------------------------------------------------------
(* In the groups                                                            *)

\* Somebody records a group whose room is live.
RecordGroup(g) ==
  /\ groupState[g] = "open"
  /\ groupNo[g] \in liveGroups
  /\ recorded' = recorded \cup {g}
  /\ UNCHANGED <<brkRows, liveGroups, brk, brkCount, banner>>

\* myAssignment: any group that has the participant in its list.
MyAssignment(u) == IF GroupsOf(u) = {} THEN {0} ELSE GroupsOf(u)

\* Mutant: a participant who has a group is not asked about any more.
BannerPollsWhileAlone(u) ==
  /\ banner[u] = 0
  /\ \E g \in MyAssignment(u) : banner' = [banner EXCEPT ![u] = g]
  /\ UNCHANGED <<brkRows, recorded, liveGroups, brk, brkCount>>

\* The banner asks every four seconds; an answer that comes late is followed by
\* that of the next request.
BannerPolls(u) ==
  /\ \E g \in MyAssignment(u) : banner' = [banner EXCEPT ![u] = g]
  /\ UNCHANGED <<brkRows, recorded, liveGroups, brk, brkCount>>

BrkNext ==
  \/ \E m \in Managers :
       \/ \E count \in 1..2 : CreateCount(m, count)
       \/ CreateLiveKit(m) \/ CreateInsert(m)
       \/ \E u \in Members, g \in Groups0 : AssignRead(m, u, g)
       \/ AssignRemove(m) \/ AssignPush(m) \/ CloseAllList(m)
  \/ DeleteAllList
  \/ \E c \in Callers : GroupRoom(c) \/ GroupRow(c)
  \/ \E g \in Groups : RecordGroup(g)
  \/ \E u \in Members : BannerPolls(u)

\* The timer of the banner fires and its answers arrive.
BrkFairness == \A u \in Members : WF_brkVars(BannerPolls(u))

BrkSpec == BrkInit /\ [][BrkNext]_brkVars /\ BrkFairness

-----------------------------------------------------------------------------
(* Properties                                                               *)

\* A participant is in at most one group at a time (the comment in assign and that
\* of the column assignedUserIds), as long as one manager assigns, whatever
\* creations, closings and failures happen in the middle of it.
InOneGroup == \A u \in Members : Cardinality(GroupsOf(u)) <= 1

\* When deleteAll reaches the end of its list, no group of the list is left open,
\* although LiveKit may fail and the panels create, close and assign meanwhile.
MeetingTakesItsGroups ==
  LET x == brk[Closer] IN
  (x.op = "deleteAll" /\ x.step = "livekit" /\ x.todo = {})
     => \A g \in x.listed : groupState[g] # "open"

\* A participant ends up seeing the group he is in.
BannerSettles == \A u \in Members : <>[](banner[u] \in MyAssignment(u))
=============================================================================
