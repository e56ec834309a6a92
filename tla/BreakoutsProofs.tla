-------------------------- MODULE BreakoutsProofs --------------------------
(***************************************************************************)
(* A participant is in one group at a time when one manager assigns, and   *)
(* the end of the meeting leaves none of the groups it listed open, for    *)
(* any number of participants, groups and requests.                        *)
(***************************************************************************)
EXTENDS Breakouts, FiniteSetTheorems, TLAPS

USE BrkAssumption DEF BrkAssumption

\* The requests in flight, by kind.
IdleRequests   == [op : {"idle"}]
CreateRequests == [op : {"create"}, step : {"livekit", "insert"}, n : Numbers, last : Numbers]
AssignRequests == [op : {"assign"}, who : Members, to : Groups0, lists : [Groups -> SUBSET Members]]
EndRequests    == [op : {"closeAll", "deleteAll"}, step : {"livekit", "row"}, g : Groups0,
                   todo : SUBSET Groups, listed : SUBSET Groups, keep : SUBSET Groups]

\* A creation stops at the last of its numbers.
CreatesUpToLast == \A c \in Callers : brk[c].op = "create" => brk[c].n <= brk[c].last

\* The close() of the meeting deletes, the panels never do.
OneDeletes == \A c \in Callers : (c = Closer => brk[c].op \in {"idle", "deleteAll"})
                                /\ (brk[c].op = "deleteAll" => c = Closer)

\* A group that deleteAll has listed exists, and is open only while it waits for its turn.
ListedGroupsEnd ==
  brk[Closer].op = "deleteAll" =>
    \A g \in brk[Closer].listed :
      /\ groupState[g] # "none"
      /\ \/ g \in brk[Closer].todo
         \/ brk[Closer].step = "row" /\ brk[Closer].g = g
         \/ groupState[g] # "open"

EndInv == BrkTypeOK /\ CreatesUpToLast /\ OneDeletes /\ ListedGroupsEnd

-----------------------------------------------------------------------------

LEMMA RequestKinds ==
  ASSUME NEW x \in BrkRequest
  PROVE  /\ x.op = "create" => x \in CreateRequests
         /\ x.op = "assign" => x \in AssignRequests
         /\ x.op \in {"closeAll", "deleteAll"} => x \in EndRequests
BY DEF BrkRequest, CreateRequests, AssignRequests, EndRequests

LEMMA KindsAreRequests ==
  /\ [op |-> "idle"] \in BrkRequest
  /\ CreateRequests \subseteq BrkRequest
  /\ AssignRequests \subseteq BrkRequest
  /\ EndRequests \subseteq BrkRequest
BY DEF BrkRequest, CreateRequests, AssignRequests, EndRequests

LEMMA RowsCount == Cardinality(Rows) \in 0..MaxGroups
<1>1. IsFiniteSet(1..MaxGroups) /\ Cardinality(1..MaxGroups) = MaxGroups
  BY FS_Interval
<1>2. Rows \subseteq 1..MaxGroups
  BY DEF Rows, Groups
<1>3. Cardinality(Rows) \in Nat /\ Cardinality(Rows) <= Cardinality(1..MaxGroups)
  BY <1>1, <1>2, FS_Subset, FS_CardinalityType
<1> QED
  BY <1>1, <1>3

\* A caller's next request is of a kind: the requests keep their types.
LEMMA GoesOn ==
  ASSUME BrkTypeOK, NEW c \in Callers, NEW x \in BrkRequest, BrkGoes(c, x)
  PROVE  /\ brk' \in [Callers -> BrkRequest]
         /\ brk'[c] = x
         /\ \A d \in Callers \ {c} : brk'[d] = brk[d]
BY DEF BrkTypeOK, BrkGoes

LEMMA EndInvInit == BrkInit => EndInv
<1> SUFFICES ASSUME BrkInit PROVE EndInv
  OBVIOUS
<1>1. \A c \in Callers : brk[c] = [op |-> "idle"]
  BY DEF BrkInit
<1>2. BrkTypeOK
  BY KindsAreRequests DEF BrkInit, BrkTypeOK, Groups0
<1>3. CreatesUpToLast
  BY <1>1 DEF CreatesUpToLast
<1>4. OneDeletes
  BY <1>1 DEF OneDeletes
<1>5. ListedGroupsEnd
  BY <1>1 DEF ListedGroupsEnd, Callers
<1> QED
  BY <1>2, <1>3, <1>4, <1>5 DEF EndInv

\* What a step of one caller leaves of the invariants that speak of requests.
LEMMA RequestStep ==
  ASSUME EndInv, NEW c \in Callers, NEW x \in BrkRequest, BrkGoes(c, x),
         x.op = "create" => x.n <= x.last,
         c = Closer => x.op \in {"idle", "deleteAll"},
         x.op = "deleteAll" => c = Closer
  PROVE  brk' \in [Callers -> BrkRequest] /\ CreatesUpToLast' /\ OneDeletes'
<1>1. /\ brk' \in [Callers -> BrkRequest]
      /\ brk'[c] = x
      /\ \A d \in Callers \ {c} : brk'[d] = brk[d]
  BY GoesOn DEF EndInv
<1>2. CreatesUpToLast'
  <2> SUFFICES ASSUME NEW d \in Callers, brk'[d].op = "create" PROVE brk'[d].n <= brk'[d].last
    BY DEF CreatesUpToLast
  <2> QED
    BY <1>1 DEF EndInv, CreatesUpToLast
<1>3. OneDeletes'
  <2> SUFFICES ASSUME NEW d \in Callers
               PROVE  /\ d = Closer => brk'[d].op \in {"idle", "deleteAll"}
                      /\ brk'[d].op = "deleteAll" => d = Closer
    BY DEF OneDeletes
  <2> QED
    BY <1>1 DEF EndInv, OneDeletes
<1> QED
  BY <1>1, <1>2, <1>3

\* A step of a panel leaves the list of deleteAll right if it opens no group again.
LEMMA ListedStep ==
  ASSUME EndInv, NEW m \in Callers \ {Closer}, NEW x \in BrkRequest, BrkGoes(m, x),
         \A g \in Groups : groupState[g] # "none" => groupState'[g] \in {groupState[g], "ended", "deleted"}
  PROVE  ListedGroupsEnd'
<1>1. brk'[Closer] = brk[Closer] /\ Closer \in Callers
  BY GoesOn DEF EndInv, Callers
<1> SUFFICES ASSUME brk[Closer].op = "deleteAll", NEW g \in brk[Closer].listed
             PROVE  /\ groupState'[g] # "none"
                    /\ \/ g \in brk[Closer].todo
                       \/ brk[Closer].step = "row" /\ brk[Closer].g = g
                       \/ groupState'[g] # "open"
  BY <1>1 DEF ListedGroupsEnd
<1>2. brk[Closer] \in EndRequests
  BY <1>1, RequestKinds DEF EndInv, BrkTypeOK
<1>3. g \in Groups
  BY <1>2 DEF EndRequests
<1>4. /\ groupState[g] # "none"
      /\ \/ g \in brk[Closer].todo
         \/ brk[Closer].step = "row" /\ brk[Closer].g = g
         \/ groupState[g] # "open"
  BY DEF EndInv, ListedGroupsEnd
<1> QED
  BY <1>3, <1>4

LEMMA EndInvStep == EndInv /\ [BrkNext]_brkVars => EndInv'
<1> SUFFICES ASSUME EndInv, [BrkNext]_brkVars PROVE EndInv'
  OBVIOUS
<1>0. /\ groupState \in [Groups -> {"none", "open", "ended", "deleted"}]
      /\ groupNo \in [Groups -> {0} \cup Numbers]
      /\ assigned \in [Groups -> SUBSET Members]
      /\ recorded \subseteq Groups /\ liveGroups \subseteq Numbers
      /\ brk \in [Callers -> BrkRequest]
      /\ panelActs \in 0..MaxPanelActs /\ endings \in 0..MaxEndings
      /\ banner \in [Members -> Groups0]
  BY DEF EndInv, BrkTypeOK
<1>00. [op |-> "idle"] \in BrkRequest /\ Closer \in Callers /\ \A m \in Managers : m \in Callers \ {Closer}
  BY KindsAreRequests DEF Callers
<1>1. ASSUME NEW m \in Managers, NEW count \in 1..2, CreateCount(m, count) PROVE EndInv'
  <2> DEFINE n == Cardinality(Rows)
             x == [op |-> "create", step |-> "livekit", n |-> n + 1, last |-> n + count]
  <2>1. n \in 0..MaxGroups
    BY RowsCount
  <2> HIDE DEF n
  <2>2. x \in CreateRequests /\ x.n <= x.last
    BY <2>1 DEF CreateRequests, Numbers
  <2>3. BrkGoes(m, x) /\ UNCHANGED <<groupState, groupNo, assigned, recorded, liveGroups, endings, banner>>
    BY <1>1 DEF CreateCount, PanelAct, brkRows, n
  <2>4. panelActs' \in 0..MaxPanelActs
    BY <1>0, <1>1 DEF CreateCount, PanelAct
  <2>5. x \in BrkRequest
    BY <2>2, KindsAreRequests
  <2>6. x.op = "create"
    OBVIOUS
  <2> HIDE DEF x
  <2>7. brk' \in [Callers -> BrkRequest] /\ CreatesUpToLast' /\ OneDeletes'
    BY <1>00, <2>2, <2>3, <2>5, <2>6, RequestStep
  <2>8. ListedGroupsEnd'
    BY <1>00, <2>3, <2>5, ListedStep
  <2> QED
    BY <1>0, <2>3, <2>4, <2>7, <2>8 DEF EndInv, BrkTypeOK
<1>2. ASSUME NEW m \in Managers, CreateLiveKit(m) PROVE EndInv'
  <2> DEFINE x == [brk[m] EXCEPT !.step = "insert"]
  <2>1. brk[m] \in CreateRequests /\ brk[m].n <= brk[m].last
    BY <1>0, <1>00, <1>2, RequestKinds DEF CreateLiveKit, EndInv, CreatesUpToLast
  <2>2. x \in CreateRequests /\ x.n <= x.last /\ x.op = "create" /\ brk[m].n \in Numbers
    BY <2>1 DEF CreateRequests
  <2>3. BrkGoes(m, x) /\ UNCHANGED <<groupState, groupNo, assigned, recorded, panelActs, endings, banner>>
    BY <1>2 DEF CreateLiveKit, brkRows, brkCount
  <2>4. liveGroups' \subseteq Numbers
    BY <1>0, <1>2, <2>2 DEF CreateLiveKit
  <2>5. x \in BrkRequest
    BY <2>2, KindsAreRequests
  <2> HIDE DEF x
  <2>6. brk' \in [Callers -> BrkRequest] /\ CreatesUpToLast' /\ OneDeletes'
    BY <1>00, <2>2, <2>3, <2>5, RequestStep
  <2>7. ListedGroupsEnd'
    BY <1>00, <2>3, <2>5, ListedStep
  <2> QED
    BY <1>0, <2>3, <2>4, <2>6, <2>7 DEF EndInv, BrkTypeOK
<1>3. ASSUME NEW m \in Managers, CreateInsert(m) PROVE EndInv'
  <2>1. brk[m] \in CreateRequests /\ brk[m].n <= brk[m].last
    BY <1>0, <1>00, <1>3, RequestKinds DEF CreateInsert, EndInv, CreatesUpToLast
  <2>2. UNCHANGED <<assigned, recorded, liveGroups, panelActs, endings, banner>>
    BY <1>3 DEF CreateInsert, brkRows, brkCount
  <2>3. /\ groupState' \in [Groups -> {"none", "open", "ended", "deleted"}]
        /\ groupNo' \in [Groups -> {0} \cup Numbers]
        /\ \A g \in Groups : groupState[g] # "none" => groupState'[g] = groupState[g]
    <3>1. CASE \E g \in Rows : groupNo[g] = brk[m].n
      BY <1>0, <1>3, <3>1 DEF CreateInsert, brkRows
    <3>2. CASE ~ \E g \in Rows : groupNo[g] = brk[m].n
      <4>1. PICK g \in Groups : /\ groupState[g] = "none"
                                /\ groupState' = [groupState EXCEPT ![g] = "open"]
                                /\ groupNo' = [groupNo EXCEPT ![g] = brk[m].n]
        BY <1>3, <3>2 DEF CreateInsert
      <4>2. brk[m].n \in Numbers
        BY <2>1 DEF CreateRequests
      <4> QED
        BY <1>0, <4>1, <4>2
    <3> QED
      BY <3>1, <3>2
  <2> DEFINE y == [brk[m] EXCEPT !.step = "livekit", !.n = @ + 1]
  <2>4. \/ BrkGoes(m, [op |-> "idle"])
        \/ brk[m].n # brk[m].last /\ BrkGoes(m, y)
    BY <1>3 DEF CreateInsert, BrkEnds
  <2>5. ASSUME NEW x \in BrkRequest, BrkGoes(m, x), x.op \in {"idle", "create"},
               x.op = "create" => x.n <= x.last
        PROVE  EndInv'
    <3>1. brk' \in [Callers -> BrkRequest] /\ CreatesUpToLast' /\ OneDeletes'
      BY <1>00, <2>5, RequestStep
    <3>2. ListedGroupsEnd'
      BY <1>00, <2>3, <2>5, ListedStep
    <3> QED
      BY <1>0, <2>2, <2>3, <3>1, <3>2 DEF EndInv, BrkTypeOK
  <2>6. CASE BrkGoes(m, [op |-> "idle"])
    BY <1>00, <2>5, <2>6
  <2>7. CASE brk[m].n # brk[m].last /\ BrkGoes(m, y)
    <3>0. /\ brk[m].n \in 1..(MaxGroups + 2) /\ brk[m].last \in 1..(MaxGroups + 2)
          /\ brk[m].n + 1 \in 1..(MaxGroups + 2) /\ brk[m].n + 1 <= brk[m].last
      <4>1. brk[m].n \in 1..(MaxGroups + 2) /\ brk[m].last \in 1..(MaxGroups + 2)
        BY <2>1 DEF CreateRequests, Numbers
      <4> QED
        BY <2>1, <2>7, <4>1
    <3>1. y \in CreateRequests /\ y.op = "create" /\ y.n <= y.last
      <4>1. y.n = brk[m].n + 1 /\ y.last = brk[m].last /\ y.op = "create"
        BY <2>1 DEF CreateRequests
      <4>2. y \in CreateRequests
        BY <2>1, <3>0 DEF CreateRequests, Numbers
      <4> QED
        BY <3>0, <4>1, <4>2
    <3>2. y \in BrkRequest
      BY <3>1, KindsAreRequests
    <3> HIDE DEF y
    <3> QED
      BY <2>5, <2>7, <3>1, <3>2
  <2> QED
    BY <2>4, <2>6, <2>7
<1>4. ASSUME NEW m \in Managers, NEW u \in Members, NEW g \in Groups0, AssignRead(m, u, g) PROVE EndInv'
  <2> DEFINE x == [op |-> "assign", who |-> u, to |-> g,
                   lists |-> [h \in Groups |-> IF h \in Rows THEN assigned[h] ELSE {}]]
  <2>1. x \in AssignRequests /\ x.op = "assign"
    BY <1>0 DEF AssignRequests
  <2>2. BrkGoes(m, x) /\ UNCHANGED <<groupState, groupNo, assigned, recorded, liveGroups, endings, banner>>
    BY <1>4 DEF AssignRead, PanelAct, brkRows
  <2>3. panelActs' \in 0..MaxPanelActs
    BY <1>0, <1>4 DEF AssignRead, PanelAct
  <2>4. x \in BrkRequest
    BY <2>1, KindsAreRequests
  <2> HIDE DEF x
  <2>5. brk' \in [Callers -> BrkRequest] /\ CreatesUpToLast' /\ OneDeletes'
    BY <1>00, <2>1, <2>2, <2>4, RequestStep
  <2>6. ListedGroupsEnd'
    BY <1>00, <2>2, <2>4, ListedStep
  <2> QED
    BY <1>0, <2>2, <2>3, <2>5, <2>6 DEF EndInv, BrkTypeOK
<1>5. ASSUME NEW m \in Managers, AssignRemove(m) PROVE EndInv'
  <2>1. brk[m] \in AssignRequests
    BY <1>0, <1>00, <1>5, RequestKinds DEF AssignRemove
  <2>2. UNCHANGED <<groupState, groupNo, recorded, liveGroups, panelActs, endings, banner>>
    BY <1>5 DEF AssignRemove, brkCount
  <2>3. PICK g \in Sisters(brk[m]) :
          \/ /\ assigned' = [assigned EXCEPT ![g] = brk[m].lists[g] \ {brk[m].who}]
             /\ BrkGoes(m, [brk[m] EXCEPT !.lists[g] = @ \ {brk[m].who}])
          \/ BrkGoes(m, [op |-> "idle"]) /\ UNCHANGED assigned
    BY <1>5 DEF AssignRemove, BrkEnds
  <2> DEFINE y == [brk[m] EXCEPT !.lists[g] = @ \ {brk[m].who}]
  <2>4. y \in AssignRequests /\ y.op = "assign" /\ g \in Groups /\ brk[m].lists[g] \in SUBSET Members
    BY <2>1 DEF AssignRequests, Sisters
  <2>5. assigned' \in [Groups -> SUBSET Members]
    BY <1>0, <2>3, <2>4
  <2>6. ASSUME NEW x \in BrkRequest, BrkGoes(m, x), x.op \in {"idle", "assign"} PROVE EndInv'
    <3>1. brk' \in [Callers -> BrkRequest] /\ CreatesUpToLast' /\ OneDeletes'
      BY <1>00, <2>6, RequestStep
    <3>2. ListedGroupsEnd'
      BY <1>00, <2>2, <2>6, ListedStep
    <3> QED
      BY <1>0, <2>2, <2>5, <3>1, <3>2 DEF EndInv, BrkTypeOK
  <2>7. y \in BrkRequest
    BY <2>4, KindsAreRequests
  <2>8. BrkGoes(m, y) \/ BrkGoes(m, [op |-> "idle"])
    BY <2>3
  <2> HIDE DEF y
  <2> QED
    BY <1>00, <2>4, <2>6, <2>7, <2>8
<1>6. ASSUME NEW m \in Managers, AssignPush(m) PROVE EndInv'
  <2>1. brk[m] \in AssignRequests
    BY <1>0, <1>00, <1>6, RequestKinds DEF AssignPush
  <2>2. UNCHANGED <<groupState, groupNo, recorded, liveGroups, panelActs, endings, banner>>
    BY <1>6 DEF AssignPush, brkCount
  <2>3. BrkGoes(m, [op |-> "idle"])
    BY <1>6 DEF AssignPush, BrkEnds
  <2>4. assigned' \in [Groups -> SUBSET Members]
    BY <1>0, <1>6, <2>1 DEF AssignPush, AssignRequests
  <2>5. brk' \in [Callers -> BrkRequest] /\ CreatesUpToLast' /\ OneDeletes'
    BY <1>00, <2>3, RequestStep
  <2>6. ListedGroupsEnd'
    BY <1>00, <2>2, <2>3, ListedStep
  <2> QED
    BY <1>0, <2>2, <2>4, <2>5, <2>6 DEF EndInv, BrkTypeOK
<1>7. ASSUME NEW m \in Managers, CloseAllList(m) PROVE EndInv'
  <2> DEFINE open == {g \in Groups : groupState[g] = "open"}
             x == [op |-> "closeAll", step |-> "livekit", g |-> 0, todo |-> open,
                   listed |-> open, keep |-> open]
  <2>1. x \in EndRequests /\ x.op = "closeAll"
    BY DEF EndRequests, Groups0
  <2>2. BrkGoes(m, x) /\ UNCHANGED <<groupState, groupNo, assigned, recorded, liveGroups, endings, banner>>
    BY <1>7 DEF CloseAllList, PanelAct, brkRows
  <2>3. panelActs' \in 0..MaxPanelActs
    BY <1>0, <1>7 DEF CloseAllList, PanelAct
  <2>4. x \in BrkRequest
    BY <2>1, KindsAreRequests
  <2> HIDE DEF x
  <2>5. brk' \in [Callers -> BrkRequest] /\ CreatesUpToLast' /\ OneDeletes'
    BY <1>00, <2>1, <2>2, <2>4, RequestStep
  <2>6. ListedGroupsEnd'
    BY <1>00, <2>2, <2>4, ListedStep
  <2> QED
    BY <1>0, <2>2, <2>3, <2>5, <2>6 DEF EndInv, BrkTypeOK
<1>8. ASSUME DeleteAllList PROVE EndInv'
  <2> DEFINE x == [op |-> "deleteAll", step |-> "livekit", g |-> 0, todo |-> Rows,
                   listed |-> Rows, keep |-> Rows \cap recorded]
  <2>1. x \in EndRequests /\ x.op = "deleteAll" /\ x.listed = Rows /\ x.todo = Rows
    BY DEF EndRequests, Groups0, Rows
  <2>2. BrkGoes(Closer, x) /\ UNCHANGED <<groupState, groupNo, assigned, recorded, liveGroups, panelActs, banner>>
    BY <1>8 DEF DeleteAllList, brkRows
  <2>3. endings' \in 0..MaxEndings
    BY <1>0, <1>8 DEF DeleteAllList
  <2>4. x \in BrkRequest
    BY <2>1, KindsAreRequests
  <2> HIDE DEF x
  <2>5. brk' \in [Callers -> BrkRequest] /\ CreatesUpToLast' /\ OneDeletes'
    BY <1>00, <2>1, <2>2, <2>4, RequestStep
  <2>6. brk'[Closer] = x
    BY <1>00, <2>2, <2>4, GoesOn DEF EndInv
  <2>7. ListedGroupsEnd'
    <3>1. \A g \in Rows : groupState'[g] # "none"
      BY <2>2 DEF Rows
    <3> QED
      BY <2>1, <2>6, <3>1 DEF ListedGroupsEnd
  <2> QED
    BY <1>0, <2>2, <2>3, <2>5, <2>7 DEF EndInv, BrkTypeOK
<1>9. ASSUME NEW c \in Callers, GroupRoom(c) PROVE EndInv'
  <2>1. brk[c] \in EndRequests /\ brk[c].op \in {"closeAll", "deleteAll"} /\ brk[c].step = "livekit"
    BY <1>0, <1>9, RequestKinds DEF GroupRoom
  <2>2. UNCHANGED <<groupState, groupNo, assigned, recorded, panelActs, endings, banner>>
    BY <1>9 DEF GroupRoom, brkRows, brkCount
  <2>3. liveGroups' \subseteq Numbers
    BY <1>0, <1>9 DEF GroupRoom
  <2>4. ASSUME NEW x \in BrkRequest, BrkGoes(c, x), x.op \in {"idle", brk[c].op},
               c = Closer => ListedGroupsEnd'
        PROVE  EndInv'
    <3>1. brk' \in [Callers -> BrkRequest] /\ CreatesUpToLast' /\ OneDeletes'
      <4>1. x.op # "create" /\ (c = Closer => x.op \in {"idle", "deleteAll"}) /\ (x.op = "deleteAll" => c = Closer)
        BY <2>1, <2>4 DEF EndInv, OneDeletes
      <4> QED
        BY <2>4, <4>1, RequestStep
    <3>2. ListedGroupsEnd'
      BY <2>2, <2>4, ListedStep
    <3> QED
      BY <1>0, <2>2, <2>3, <3>1, <3>2 DEF EndInv, BrkTypeOK
  <2>5. CASE brk[c].todo = {}
    <3>1. BrkGoes(c, [op |-> "idle"])
      BY <1>9, <2>5 DEF GroupRoom, BrkEnds
    <3>2. brk'[c] = [op |-> "idle"]
      BY <1>00, <3>1, GoesOn DEF EndInv
    <3>3. c = Closer => ListedGroupsEnd'
      BY <3>2 DEF ListedGroupsEnd
    <3> QED
      BY <1>00, <2>4, <3>1, <3>3
  <2>6. CASE brk[c].todo # {}
    <3>1. PICK g \in brk[c].todo : BrkGoes(c, [brk[c] EXCEPT !.step = "row", !.g = g, !.todo = @ \ {g}])
      BY <1>9, <2>6 DEF GroupRoom
    <3> DEFINE x == [brk[c] EXCEPT !.step = "row", !.g = g, !.todo = @ \ {g}]
    <3>2. x \in EndRequests
      BY <2>1 DEF EndRequests, Groups0
    <3>3. x.op = brk[c].op /\ x.step = "row" /\ x.g = g /\ x.todo = brk[c].todo \ {g} /\ x.listed = brk[c].listed
      BY <2>1 DEF EndRequests
    <3>4. x \in BrkRequest /\ BrkGoes(c, x)
      BY <3>1, <3>2, KindsAreRequests
    <3> HIDE DEF x
    <3>5. brk'[c] = x
      BY <3>4, GoesOn DEF EndInv
    <3>6. ASSUME c = Closer PROVE ListedGroupsEnd'
      <4> SUFFICES ASSUME brk[c].op = "deleteAll", NEW h \in brk[c].listed
                   PROVE  /\ groupState[h] # "none"
                          /\ h \in brk[c].todo \ {g} \/ g = h \/ groupState[h] # "open"
        BY <2>2, <3>3, <3>5, <3>6 DEF ListedGroupsEnd
      <4>1. groupState[h] # "none" /\ (h \in brk[c].todo \/ groupState[h] # "open")
        BY <2>1, <3>6 DEF EndInv, ListedGroupsEnd
      <4> QED
        BY <4>1
    <3> QED
      BY <2>4, <3>3, <3>4, <3>6
  <2> QED
    BY <2>5, <2>6
<1>10. ASSUME NEW c \in Callers, GroupRow(c) PROVE EndInv'
  <2>1. brk[c] \in EndRequests /\ brk[c].op \in {"closeAll", "deleteAll"} /\ brk[c].step = "row"
    BY <1>0, <1>10, RequestKinds DEF GroupRow
  <2>2. UNCHANGED <<groupNo, assigned, recorded, liveGroups, panelActs, endings, banner>>
    BY <1>10 DEF GroupRow, brkCount
  <2>3. /\ groupState' \in [Groups -> {"none", "open", "ended", "deleted"}]
        /\ \A g \in Groups : groupState[g] # "none" => groupState'[g] \in {groupState[g], "ended", "deleted"}
    BY <1>0, <1>10 DEF GroupRow
  <2>4. ASSUME NEW x \in BrkRequest, BrkGoes(c, x), x.op \in {"idle", brk[c].op},
               c = Closer => ListedGroupsEnd'
        PROVE  EndInv'
    <3>1. brk' \in [Callers -> BrkRequest] /\ CreatesUpToLast' /\ OneDeletes'
      <4>1. x.op # "create" /\ (c = Closer => x.op \in {"idle", "deleteAll"}) /\ (x.op = "deleteAll" => c = Closer)
        BY <2>1, <2>4 DEF EndInv, OneDeletes
      <4> QED
        BY <2>4, <4>1, RequestStep
    <3>2. ListedGroupsEnd'
      BY <2>3, <2>4, ListedStep
    <3> QED
      BY <1>0, <2>2, <2>3, <3>1, <3>2 DEF EndInv, BrkTypeOK
  <2>5. CASE brk[c].g \notin Rows
    <3>1. BrkGoes(c, [op |-> "idle"])
      BY <1>10, <2>5 DEF GroupRow, BrkEnds
    <3>2. brk'[c] = [op |-> "idle"]
      BY <1>00, <3>1, GoesOn DEF EndInv
    <3>3. c = Closer => ListedGroupsEnd'
      BY <3>2 DEF ListedGroupsEnd
    <3> QED
      BY <1>00, <2>4, <3>1, <3>3
  <2>6. CASE brk[c].g \in Rows
    <3> DEFINE x == [brk[c] EXCEPT !.step = "livekit", !.g = 0]
    <3>1. /\ BrkGoes(c, x)
          /\ groupState'[brk[c].g] \in {"ended", "deleted"}
      BY <1>0, <1>10, <2>6 DEF GroupRow, Rows
    <3>2. x \in EndRequests
      BY <2>1 DEF EndRequests, Groups0
    <3>3. x.op = brk[c].op /\ x.todo = brk[c].todo /\ x.listed = brk[c].listed /\ x.listed \subseteq Groups
      BY <2>1 DEF EndRequests
    <3>4. x \in BrkRequest
      BY <3>2, KindsAreRequests
    <3> HIDE DEF x
    <3>5. brk'[c] = x
      BY <3>1, <3>4, GoesOn DEF EndInv
    <3>6. ASSUME c = Closer PROVE ListedGroupsEnd'
      <4> SUFFICES ASSUME brk[c].op = "deleteAll", NEW g \in brk[c].listed
                   PROVE  /\ groupState'[g] # "none"
                          /\ g \in brk[c].todo \/ groupState'[g] # "open"
        BY <3>3, <3>5, <3>6 DEF ListedGroupsEnd
      <4>1. g \in Groups /\ groupState[g] # "none"
        BY <3>3, <3>6 DEF EndInv, ListedGroupsEnd
      <4>2. groupState'[g] \in {groupState[g], "ended", "deleted"}
        BY <2>3, <4>1
      <4>3. g \in brk[c].todo \/ brk[c].g = g \/ groupState[g] # "open"
        BY <3>6 DEF EndInv, ListedGroupsEnd
      <4> QED
        BY <3>1, <4>1, <4>2, <4>3
    <3> QED
      BY <2>4, <3>1, <3>3, <3>4, <3>6
  <2> QED
    BY <2>5, <2>6
<1>11. ASSUME NEW g \in Groups, RecordGroup(g) PROVE EndInv'
  BY <1>0, <1>11 DEF RecordGroup, brkRows, brkCount, EndInv, BrkTypeOK, CreatesUpToLast, OneDeletes, ListedGroupsEnd
<1>12. ASSUME NEW u \in Members, BannerPolls(u) PROVE EndInv'
  <2>1. \A g \in MyAssignment(u) : g \in Groups0
    BY DEF MyAssignment, GroupsOf, Rows, Groups0
  <2>2. banner' \in [Members -> Groups0]
    BY <1>0, <1>12, <2>1 DEF BannerPolls
  <2> QED
    BY <1>0, <1>12, <2>2 DEF BannerPolls, brkRows, brkCount, EndInv, BrkTypeOK, CreatesUpToLast, OneDeletes, ListedGroupsEnd
<1>13. CASE UNCHANGED brkVars
  BY <1>0, <1>13 DEF brkVars, EndInv, BrkTypeOK, CreatesUpToLast, OneDeletes, ListedGroupsEnd
<1> QED
  BY <1>1, <1>2, <1>3, <1>4, <1>5, <1>6, <1>7, <1>8, <1>9, <1>10, <1>11, <1>12, <1>13 DEF BrkNext

\* Every variable keeps its type.
THEOREM BrkTypeCorrect == BrkSpec => []BrkTypeOK
<1>1. EndInv => BrkTypeOK
  BY DEF EndInv
<1> QED
  BY <1>1, EndInvInit, EndInvStep, PTL DEF BrkSpec

\* deleteAll leaves no group of its list open, whatever LiveKit answers and the
\* panels do in the meantime: none can be opened again.
THEOREM EveryListedGroupEnds == BrkSpec => []MeetingTakesItsGroups
<1>1. EndInv => MeetingTakesItsGroups
  BY DEF EndInv, ListedGroupsEnd, MeetingTakesItsGroups
<1> QED
  BY <1>1, EndInvInit, EndInvStep, PTL DEF BrkSpec

-----------------------------------------------------------------------------
(* One group at a time, when one manager has the panel open                 *)

\* The lists an assign() read are still those of the rows there are.
ListsAreTrue ==
  \A m \in Managers : brk[m].op = "assign" => \A g \in Rows : brk[m].lists[g] = assigned[g]

\* No list waits in a row that was never created.
NothingBefore == \A g \in Groups : groupState[g] = "none" => assigned[g] = {}

OneGroupEach ==
  \A u \in Members : \A g, h \in Rows : u \in assigned[g] /\ u \in assigned[h] => g = h

GroupInv == EndInv /\ ListsAreTrue /\ NothingBefore /\ OneGroupEach

LEMMA GroupInvInit == BrkInit => GroupInv
<1> SUFFICES ASSUME BrkInit PROVE GroupInv
  OBVIOUS
<1>1. \A m \in Managers : brk[m].op = "idle"
  BY DEF BrkInit, Callers
<1>2. \A g \in Groups : assigned[g] = {} /\ groupState[g] = "none"
  BY DEF BrkInit
<1>3. Rows = {}
  BY <1>2 DEF Rows
<1> QED
  BY <1>1, <1>2, <1>3, EndInvInit DEF GroupInv, ListsAreTrue, NothingBefore, OneGroupEach

\* A step that writes no list and adds no row, and begins no assign().
LEMMA ListsKept ==
  ASSUME GroupInv, UNCHANGED assigned, Rows' \subseteq Rows,
         \A g \in Groups : groupState'[g] = "none" => groupState[g] = "none",
         \A m \in Managers : brk'[m].op = "assign" => brk'[m] = brk[m]
  PROVE  ListsAreTrue' /\ NothingBefore' /\ OneGroupEach'
<1>1. ListsAreTrue'
  BY DEF GroupInv, ListsAreTrue
<1>2. NothingBefore'
  BY DEF GroupInv, NothingBefore
<1>3. OneGroupEach'
  BY DEF GroupInv, OneGroupEach
<1> QED
  BY <1>1, <1>2, <1>3

\* After such a step, a caller's request is one of these.
LEMMA NoAssignBegins ==
  ASSUME GroupInv, NEW c \in Callers, NEW x, x.op # "assign", BrkGoes(c, x)
  PROVE  \A m \in Managers : brk'[m].op = "assign" => brk'[m] = brk[m]
<1>1. brk \in [Callers -> BrkRequest]
  BY DEF GroupInv, EndInv, BrkTypeOK
<1>2. brk'[c] = x /\ \A d \in Callers \ {c} : brk'[d] = brk[d]
  BY <1>1 DEF BrkGoes
<1> QED
  BY <1>2 DEF Callers

LEMMA GroupInvStep ==
  ASSUME \A m, n \in Managers : m = n
  PROVE  GroupInv /\ [BrkNext]_brkVars => GroupInv'
<1> SUFFICES ASSUME GroupInv, [BrkNext]_brkVars PROVE GroupInv'
  OBVIOUS
<1>e. EndInv /\ EndInv'
  BY EndInvStep DEF GroupInv
<1> SUFFICES ListsAreTrue' /\ NothingBefore' /\ OneGroupEach'
  BY <1>e DEF GroupInv
<1>0. /\ groupState \in [Groups -> {"none", "open", "ended", "deleted"}]
      /\ assigned \in [Groups -> SUBSET Members]
      /\ brk \in [Callers -> BrkRequest]
  BY <1>e DEF EndInv, BrkTypeOK
<1>m. \A m \in Managers : m \in Callers
  BY DEF Callers
<1>1. ASSUME NEW m \in Managers, NEW count \in 1..2, CreateCount(m, count) PROVE ListsAreTrue' /\ NothingBefore' /\ OneGroupEach'
  <2> DEFINE n == Cardinality(Rows)
             x == [op |-> "create", step |-> "livekit", n |-> n + 1, last |-> n + count]
  <2>1. BrkGoes(m, x) /\ x.op # "assign"
    BY <1>1 DEF CreateCount
  <2>2. UNCHANGED <<groupState, assigned>>
    BY <1>1 DEF CreateCount, brkRows
  <2> HIDE DEF x
  <2>3. Rows' = Rows
    BY <2>2 DEF Rows
  <2> QED
    BY <1>m, <2>1, <2>2, <2>3, NoAssignBegins, ListsKept
<1>2. ASSUME NEW m \in Managers, CreateLiveKit(m) PROVE ListsAreTrue' /\ NothingBefore' /\ OneGroupEach'
  <2> DEFINE x == [brk[m] EXCEPT !.step = "insert"]
  <2>1. BrkGoes(m, x)
    BY <1>2 DEF CreateLiveKit
  <2>2. x.op = "create"
    BY <1>0, <1>2, <1>m, RequestKinds DEF CreateLiveKit, CreateRequests
  <2>3. UNCHANGED <<groupState, assigned>>
    BY <1>2 DEF CreateLiveKit, brkRows
  <2> HIDE DEF x
  <2>4. Rows' = Rows
    BY <2>3 DEF Rows
  <2> QED
    BY <1>m, <2>1, <2>2, <2>3, <2>4, NoAssignBegins, ListsKept
<1>3. ASSUME NEW m \in Managers, CreateInsert(m) PROVE ListsAreTrue' /\ NothingBefore' /\ OneGroupEach'
  <2>1. brk[m].op = "create" /\ brk[m] \in CreateRequests
    BY <1>0, <1>3, <1>m, RequestKinds DEF CreateInsert
  <2> DEFINE y == [brk[m] EXCEPT !.step = "livekit", !.n = @ + 1]
  <2>2. y.op # "assign" /\ [op |-> "idle"].op # "assign"
    BY <2>1 DEF CreateRequests
  <2>3. BrkGoes(m, y) \/ BrkGoes(m, [op |-> "idle"])
    BY <1>3 DEF CreateInsert, BrkEnds
  <2> HIDE DEF y
  <2>4. \A n \in Managers : brk'[n].op = "assign" => brk'[n] = brk[n]
    BY <1>m, <2>2, <2>3, NoAssignBegins
  <2>5. \A n \in Managers : brk'[n].op # "assign"
    BY <2>1, <2>4
  <2>6. ListsAreTrue'
    BY <2>5 DEF ListsAreTrue
  <2>7. UNCHANGED assigned
    BY <1>3 DEF CreateInsert, brkRows
  <2>8. CASE UNCHANGED groupState
    <3>1. Rows' = Rows
      BY <2>8 DEF Rows
    <3> QED
      BY <2>4, <2>7, <2>8, <3>1, ListsKept
  <2>9. ASSUME NEW g \in Groups, groupState[g] = "none", groupState' = [groupState EXCEPT ![g] = "open"]
        PROVE  NothingBefore' /\ OneGroupEach'
    <3>1. \A h \in Groups : groupState'[h] = IF h = g THEN "open" ELSE groupState[h]
      BY <1>0, <2>9
    <3>2. Rows' = Rows \cup {g} /\ assigned[g] = {}
      BY <2>9, <3>1 DEF Rows, GroupInv, NothingBefore
    <3>3. NothingBefore'
      BY <2>7, <3>1 DEF GroupInv, NothingBefore
    <3>4. OneGroupEach'
      BY <2>7, <3>2 DEF GroupInv, OneGroupEach
    <3> QED
      BY <3>3, <3>4
  <2>10. \/ UNCHANGED groupState
         \/ \E g \in Groups : groupState[g] = "none" /\ groupState' = [groupState EXCEPT ![g] = "open"]
    BY <1>3 DEF CreateInsert, brkRows
  <2> QED
    BY <2>6, <2>8, <2>9, <2>10
<1>4. ASSUME NEW m \in Managers, NEW u \in Members, NEW g \in Groups0, AssignRead(m, u, g)
      PROVE  ListsAreTrue' /\ NothingBefore' /\ OneGroupEach'
  <2>1. UNCHANGED <<groupState, assigned>>
    BY <1>4 DEF AssignRead, brkRows
  <2>2. Rows' = Rows
    BY <2>1 DEF Rows
  <2> DEFINE lists == [h \in Groups |-> IF h \in Rows THEN assigned[h] ELSE {}]
             x == [op |-> "assign", who |-> u, to |-> g, lists |-> lists]
  <2>3. BrkGoes(m, x)
    BY <1>4 DEF AssignRead
  <2>4. \A h \in Rows : x.lists[h] = assigned[h]
    BY DEF Rows
  <2> HIDE DEF x
  <2>5. brk'[m] = x
    BY <1>0, <1>m, <2>3 DEF BrkGoes
  <2>6. ListsAreTrue'
    BY <2>1, <2>2, <2>4, <2>5 DEF ListsAreTrue
  <2> QED
    BY <2>1, <2>2, <2>6 DEF GroupInv, NothingBefore, OneGroupEach
<1>5. ASSUME NEW m \in Managers, AssignRemove(m) PROVE ListsAreTrue' /\ NothingBefore' /\ OneGroupEach'
  <2>1. brk[m] \in AssignRequests /\ brk[m].op = "assign"
    BY <1>0, <1>5, <1>m, RequestKinds DEF AssignRemove
  <2>2. UNCHANGED groupState /\ Rows' = Rows
    BY <1>5 DEF AssignRemove, Rows
  <2>3. PICK g \in Sisters(brk[m]) :
          \/ /\ g \in Rows
             /\ assigned' = [assigned EXCEPT ![g] = brk[m].lists[g] \ {brk[m].who}]
             /\ BrkGoes(m, [brk[m] EXCEPT !.lists[g] = @ \ {brk[m].who}])
          \/ BrkGoes(m, [op |-> "idle"]) /\ UNCHANGED assigned
    BY <1>5 DEF AssignRemove, BrkEnds
  <2>4. CASE BrkGoes(m, [op |-> "idle"]) /\ UNCHANGED assigned
    <3>1. [op |-> "idle"].op # "assign"
      OBVIOUS
    <3>2. \A n \in Managers : brk'[n].op = "assign" => brk'[n] = brk[n]
      BY <1>m, <2>4, <3>1, NoAssignBegins
    <3> QED
      BY <2>2, <2>4, <3>2, ListsKept
  <2>5. CASE /\ g \in Rows
             /\ assigned' = [assigned EXCEPT ![g] = brk[m].lists[g] \ {brk[m].who}]
             /\ BrkGoes(m, [brk[m] EXCEPT !.lists[g] = @ \ {brk[m].who}])
    <3> DEFINE x == [brk[m] EXCEPT !.lists[g] = @ \ {brk[m].who}]
    <3>1. g \in Groups /\ brk[m].lists[g] = assigned[g]
      BY <2>1, <2>5 DEF GroupInv, ListsAreTrue, Rows
    <3>2. \A h \in Groups : assigned'[h] = IF h = g THEN assigned[h] \ {brk[m].who} ELSE assigned[h]
      BY <1>0, <2>5, <3>1
    <3>3. \A h \in Groups : x.lists[h] = IF h = g THEN brk[m].lists[h] \ {brk[m].who} ELSE brk[m].lists[h]
      BY <2>1, <3>1 DEF AssignRequests
    <3>4. brk'[m] = x
      BY <1>0, <1>m, <2>5 DEF BrkGoes
    <3> HIDE DEF x
    <3>5. \A h \in Rows : x.lists[h] = assigned'[h]
      BY <2>1, <3>2, <3>3 DEF GroupInv, ListsAreTrue, Rows
    <3>6. ListsAreTrue'
      BY <2>2, <3>4, <3>5 DEF ListsAreTrue
    <3>7. NothingBefore'
      BY <2>2, <3>2 DEF GroupInv, NothingBefore
    <3>8. OneGroupEach'
      BY <2>2, <3>2 DEF GroupInv, OneGroupEach, Rows
    <3> QED
      BY <3>6, <3>7, <3>8
  <2> QED
    BY <2>3, <2>4, <2>5
<1>6. ASSUME NEW m \in Managers, AssignPush(m) PROVE ListsAreTrue' /\ NothingBefore' /\ OneGroupEach'
  <2>1. brk[m] \in AssignRequests /\ brk[m].op = "assign"
    BY <1>0, <1>6, <1>m, RequestKinds DEF AssignPush
  <2>2. UNCHANGED groupState /\ Rows' = Rows
    BY <1>6 DEF AssignPush, Rows
  <2>3. brk'[m] = [op |-> "idle"]
    BY <1>0, <1>6, <1>m DEF AssignPush, BrkEnds, BrkGoes
  <2>4. ListsAreTrue'
    BY <2>3 DEF ListsAreTrue
  <2>5. \A g \in Rows : brk[m].who \notin assigned[g]
    BY <1>6, <2>1 DEF AssignPush, Sisters, GroupInv, ListsAreTrue, Rows
  <2>6. /\ \A g \in Groups : g # brk[m].to => assigned'[g] = assigned[g]
        /\ brk[m].to \in Rows => assigned'[brk[m].to] = assigned[brk[m].to] \cup {brk[m].who}
        /\ brk[m].to \notin Rows => assigned' = assigned
    BY <1>0, <1>6 DEF AssignPush, Rows
  <2>7. NothingBefore'
    BY <2>2, <2>6 DEF GroupInv, NothingBefore, Rows
  <2>8. OneGroupEach'
    <3> SUFFICES ASSUME NEW u \in Members, NEW g \in Rows, NEW h \in Rows,
                        u \in assigned'[g], u \in assigned'[h]
                 PROVE  g = h
      BY <2>2 DEF OneGroupEach
    <3>1. \A k \in Rows : u \in assigned'[k] => u \in assigned[k] \/ (k = brk[m].to /\ u = brk[m].who)
      BY <2>6 DEF Rows
    <3> QED
      BY <2>5, <3>1 DEF GroupInv, OneGroupEach
  <2> QED
    BY <2>4, <2>7, <2>8
<1>7. ASSUME NEW m \in Managers, CloseAllList(m) PROVE ListsAreTrue' /\ NothingBefore' /\ OneGroupEach'
  <2> DEFINE open == {g \in Groups : groupState[g] = "open"}
             x == [op |-> "closeAll", step |-> "livekit", g |-> 0, todo |-> open,
                   listed |-> open, keep |-> open]
  <2>1. BrkGoes(m, x) /\ x.op # "assign"
    BY <1>7 DEF CloseAllList
  <2>2. UNCHANGED <<groupState, assigned>>
    BY <1>7 DEF CloseAllList, brkRows
  <2> HIDE DEF x
  <2>3. Rows' = Rows
    BY <2>2 DEF Rows
  <2> QED
    BY <1>m, <2>1, <2>2, <2>3, NoAssignBegins, ListsKept
<1>8. ASSUME DeleteAllList PROVE ListsAreTrue' /\ NothingBefore' /\ OneGroupEach'
  <2> DEFINE x == [op |-> "deleteAll", step |-> "livekit", g |-> 0, todo |-> Rows,
                   listed |-> Rows, keep |-> Rows \cap recorded]
  <2>1. BrkGoes(Closer, x) /\ x.op # "assign" /\ Closer \in Callers
    BY <1>8 DEF DeleteAllList, Callers
  <2>2. UNCHANGED <<groupState, assigned>>
    BY <1>8 DEF DeleteAllList, brkRows
  <2> HIDE DEF x
  <2>3. Rows' = Rows
    BY <2>2 DEF Rows
  <2> QED
    BY <2>1, <2>2, <2>3, NoAssignBegins, ListsKept
<1>9. ASSUME NEW c \in Callers, GroupRoom(c) PROVE ListsAreTrue' /\ NothingBefore' /\ OneGroupEach'
  <2>1. brk[c] \in EndRequests /\ brk[c].op \in {"closeAll", "deleteAll"}
    BY <1>0, <1>9, RequestKinds DEF GroupRoom
  <2>2. UNCHANGED <<groupState, assigned>> /\ Rows' = Rows
    BY <1>9 DEF GroupRoom, brkRows, Rows
  <2>3. PICK x : BrkGoes(c, x) /\ x.op # "assign"
    <3>1. CASE brk[c].todo = {}
      <4>1. BrkGoes(c, [op |-> "idle"]) /\ [op |-> "idle"].op # "assign"
        BY <1>9, <3>1 DEF GroupRoom, BrkEnds
      <4> QED
        BY <4>1
    <3>2. CASE brk[c].todo # {}
      <4>1. PICK g \in brk[c].todo : BrkGoes(c, [brk[c] EXCEPT !.step = "row", !.g = g, !.todo = @ \ {g}])
        BY <1>9, <3>2 DEF GroupRoom
      <4>2. [brk[c] EXCEPT !.step = "row", !.g = g, !.todo = @ \ {g}].op = brk[c].op
        BY <2>1 DEF EndRequests
      <4>3. [brk[c] EXCEPT !.step = "row", !.g = g, !.todo = @ \ {g}].op # "assign"
        BY <2>1, <4>2
      <4> QED
        BY <4>1, <4>3
    <3> QED
      BY <3>1, <3>2
  <2> QED
    BY <2>2, <2>3, NoAssignBegins, ListsKept
<1>10. ASSUME NEW c \in Callers, GroupRow(c) PROVE ListsAreTrue' /\ NothingBefore' /\ OneGroupEach'
  <2>1. brk[c] \in EndRequests /\ brk[c].op \in {"closeAll", "deleteAll"}
    BY <1>0, <1>10, RequestKinds DEF GroupRow
  <2>2. UNCHANGED assigned
    BY <1>10 DEF GroupRow
  <2>3. \A g \in Groups : groupState'[g] # groupState[g] => g \in Rows /\ groupState'[g] \in {"ended", "deleted"}
    BY <1>0, <1>10 DEF GroupRow
  <2>4. Rows' \subseteq Rows /\ \A g \in Groups : groupState'[g] = "none" => groupState[g] = "none"
    BY <2>3 DEF Rows
  <2>5. PICK x : BrkGoes(c, x) /\ x.op # "assign"
    <3>1. CASE brk[c].g \notin Rows
      <4>1. BrkGoes(c, [op |-> "idle"]) /\ [op |-> "idle"].op # "assign"
        BY <1>10, <3>1 DEF GroupRow, BrkEnds
      <4> QED
        BY <4>1
    <3>2. CASE brk[c].g \in Rows
      <4>1. BrkGoes(c, [brk[c] EXCEPT !.step = "livekit", !.g = 0])
        BY <1>10, <3>2 DEF GroupRow
      <4>2. [brk[c] EXCEPT !.step = "livekit", !.g = 0].op = brk[c].op
        BY <2>1 DEF EndRequests
      <4>3. [brk[c] EXCEPT !.step = "livekit", !.g = 0].op # "assign"
        BY <2>1, <4>2
      <4> QED
        BY <4>1, <4>3
    <3> QED
      BY <3>1, <3>2
  <2> QED
    BY <2>2, <2>4, <2>5, NoAssignBegins, ListsKept
<1>11. ASSUME UNCHANGED <<groupState, assigned, brk>> PROVE ListsAreTrue' /\ NothingBefore' /\ OneGroupEach'
  <2>1. Rows' = Rows
    BY <1>11 DEF Rows
  <2> QED
    BY <1>11, <2>1, ListsKept
<1>12. ASSUME NEW g \in Groups, RecordGroup(g) PROVE ListsAreTrue' /\ NothingBefore' /\ OneGroupEach'
  BY <1>11, <1>12 DEF RecordGroup, brkRows
<1>13. ASSUME NEW u \in Members, BannerPolls(u) PROVE ListsAreTrue' /\ NothingBefore' /\ OneGroupEach'
  BY <1>11, <1>13 DEF BannerPolls, brkRows
<1>14. CASE UNCHANGED brkVars
  BY <1>11, <1>14 DEF brkVars
<1> QED
  BY <1>1, <1>2, <1>3, <1>4, <1>5, <1>6, <1>7, <1>8, <1>9, <1>10, <1>12, <1>13, <1>14 DEF BrkNext

\* When one manager assigns, no participant is ever in two groups, whatever creations,
\* closings and failures come between the read and the writes of assign().
THEOREM OneManagerOneGroup ==
  ASSUME \A m, n \in Managers : m = n
  PROVE  BrkSpec => []InOneGroup
<1>1. GroupInv => InOneGroup
  <2> SUFFICES ASSUME GroupInv, NEW u \in Members PROVE Cardinality(GroupsOf(u)) <= 1
    BY DEF InOneGroup
  <2>1. \A g, h \in GroupsOf(u) : g = h
    BY DEF GroupInv, OneGroupEach, GroupsOf
  <2>2. CASE GroupsOf(u) = {}
    BY <2>2, FS_EmptySet
  <2>3. CASE GroupsOf(u) # {}
    <3>1. PICK g : GroupsOf(u) = {g}
      BY <2>1, <2>3
    <3> QED
      BY <3>1, FS_Singleton
  <2> QED
    BY <2>2, <2>3
<1>2. GroupInv /\ [BrkNext]_brkVars => GroupInv'
  BY GroupInvStep
<1> QED
  BY <1>1, <1>2, GroupInvInit, PTL DEF BrkSpec
=============================================================================
