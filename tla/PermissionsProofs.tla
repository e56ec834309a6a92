------------------------- MODULE PermissionsProofs -------------------------
(***************************************************************************)
(* The locks of a room are honoured, for any participants and any number   *)
(* of requests at once.  LocksHonoured speaks of the moments when no push  *)
(* is under way; the invariant says what a push still owes to each         *)
(* participant and to the metadata while it is.                            *)
(***************************************************************************)
EXTENDS Permissions, TLAPS

\* LiveKit has the room of those who are connected, and metadata only of a room it has.
RoomUp ==
  /\ present # {} => livekitUp
  /\ ~livekitUp => roomMeta = "none"

\* Who is not connected publishes nothing.
SilentOutside == \A p \in Participants \ present : live[p] = {}

\* One token at a time for each participant, and none asked for by those who hold one.
OneToken ==
  /\ \A p \in present : pass[p] # {}
  /\ \A p \in Participants : \A k, l \in pass[p] : k = l
  /\ \A r \in PermRequests : request[r].op = "join" =>
       LET p == request[r].who
       IN /\ p \notin present
          /\ pass[p] = {}
          /\ \A q \in PermRequests : (request[q].op = "join" /\ request[q].who = p) => q = r

\* What is pushed, cut or muted for everybody is never about a moderator or a stream.
OnlyViewersTargeted ==
  \A r \in PermRequests :
    /\ request[r].op = "settings" => \A x \in request[r].todo : x.p \notin Exempt
    /\ request[r].op = "cut" => request[r].now.p \notin Exempt /\ \A x \in request[r].todo : x.p \notin Exempt
    /\ request[r].op = "muteAll" => request[r].todo \cap Exempt = {}

\* A camera still locked for everybody is locked in every copy of the locks, and
\* unknown to every copy of a viewer's rights.
Cameraless(x) == x.p \in Viewers => "cam" \notin x.perm
NoCameraHeld == \A p \in Viewers : "cam" \notin perm[p] \cup live[p] /\ \A k \in pass[p] : k.cam
NoCameraIn(x) ==
  /\ x.op \in {"join", "settings", "cut"} => x.row.cam
  /\ x.op \in {"settings", "cut"} => \A y \in x.todo : Cameraless(y)
  /\ x.op = "cut" => Cameraless(x.now)
  /\ x.op = "grant" => Cameraless(x.seen)
CameraClosed ==
  ~cameraOpened => lockRow.cam /\ NoCameraHeld /\ \A r \in PermRequests : NoCameraIn(request[r])
CameraNotGranted == \A r \in PermRequests : request[r].op = "grant" => "cam" \notin request[r].sources

\* A push of the present locks.
Fresh(r) == request[r].op \in {"settings", "cut"} /\ request[r].row = lockRow

\* The push has yet to come to p.
Owed(r, p) ==
  /\ Fresh(r)
  /\ \/ request[r].op = "settings" /\ request[r].step = "list"
     \/ (request[r].op = "settings" => request[r].step = "push") /\ \E x \in request[r].todo : x.p = p

\* The push has taken the rights of p, and is about to mute what p publishes.
Cutting(r, p) ==
  /\ Fresh(r)
  /\ request[r].op = "cut"
  /\ request[r].now.p = p
  /\ live[p] \subseteq request[r].now.live \cup Unlocked(lockRow)

RightsHold(p) == perm[p] \cap Governed \subseteq Unlocked(lockRow)
SoundHolds(p) == live[p] \subseteq Unlocked(lockRow)

OnItsWay(p) ==
  \/ RightsHold(p) /\ SoundHolds(p)
  \/ \E r \in PermRequests : Owed(r, p)
  \/ RightsHold(p) /\ \E r \in PermRequests : Cutting(r, p)
LocksOnTheirWay == \A p \in (present \cap Viewers) \ excused : OnItsWay(p)

\* The metadata, or without them the tokens, tell the chat lock of the row, or a push is to write it.
MetaOnItsWay ==
  \/ metaBehind
  \/ \E r \in PermRequests : Fresh(r)
  \/ roomMeta = Meta(lockRow)
  \/ roomMeta = "none" /\ \A p \in present \ excused : \A k \in pass[p] : k = lockRow

IInv ==
  /\ PermTypeOK
  /\ RoomUp
  /\ SilentOutside
  /\ OneToken
  /\ OnlyViewersTargeted
  /\ CameraClosed
  /\ CameraNotGranted
  /\ LocksOnTheirWay
  /\ MetaOnItsWay

USE PermAssumption

-----------------------------------------------------------------------------
(* Types                                                                    *)

LEMMA TypeInit == PermInit => PermTypeOK
<1> SUFFICES ASSUME PermInit PROVE PermTypeOK
  OBVIOUS
<1>1. lockRow \in Locks
  BY DEF PermInit, Locks
<1>2. request \in [PermRequests -> PermRequest]
  BY DEF PermInit, PermRequest
<1>3. /\ pass \in [Participants -> SUBSET Locks]
      /\ perm \in [Participants -> SUBSET Source]
      /\ live \in [Participants -> SUBSET Governed]
  BY DEF PermInit
<1>4. acts \in 0..MaxActs /\ present \subseteq Participants /\ excused \subseteq Participants
  BY DEF PermInit
<1>5. livekitUp \in BOOLEAN /\ roomMeta \in {"none", "open", "locked"} /\ metaBehind \in BOOLEAN /\ cameraOpened \in BOOLEAN
  BY DEF PermInit
<1> QED
  BY <1>1, <1>2, <1>3, <1>4, <1>5 DEF PermTypeOK

\* Replacing the request of one slot by another of the type keeps the types of all.
LEMMA GoesType ==
  ASSUME PermTypeOK, NEW r \in PermRequests, NEW x \in PermRequest, Goes(r, x)
  PROVE request' \in [PermRequests -> PermRequest]
BY DEF PermTypeOK, Goes

LEMMA EndsType ==
  ASSUME PermTypeOK, NEW r \in PermRequests, Ends(r)
  PROVE request' \in [PermRequests -> PermRequest]
BY DEF PermTypeOK, Ends, Goes, PermRequest

LEMMA ActType ==
  ASSUME PermTypeOK, Act
  PROVE acts' \in 0..MaxActs
BY DEF PermTypeOK, Act

LEMMA TypeStep == PermTypeOK /\ [PermNext]_permVars => PermTypeOK'
<1> SUFFICES ASSUME PermTypeOK, [PermNext]_permVars PROVE PermTypeOK'
  OBVIOUS
<1>0. /\ lockRow \in Locks /\ livekitUp \in BOOLEAN /\ roomMeta \in {"none", "open", "locked"}
      /\ pass \in [Participants -> SUBSET Locks] /\ present \subseteq Participants
      /\ perm \in [Participants -> SUBSET Source] /\ live \in [Participants -> SUBSET Governed]
      /\ request \in [PermRequests -> PermRequest] /\ acts \in 0..MaxActs
      /\ excused \subseteq Participants /\ metaBehind \in BOOLEAN /\ cameraOpened \in BOOLEAN
  BY DEF PermTypeOK
<1> USE DEF livekitRoom, people, blame
<1>1. CASE RoomGone
  BY <1>1 DEF RoomGone, PermTypeOK
<1>2. ASSUME NEW p \in Participants, Connect(p) PROVE PermTypeOK'
  <2>1. \A locks : TokenSources(p, locks) \subseteq Source
    BY DEF TokenSources, Unlocked, Source, Governed
  <2> QED
    BY <1>2, <1>0, <2>1 DEF Connect, PermTypeOK
<1>3. ASSUME NEW p \in Participants, Leave(p) PROVE PermTypeOK'
  BY <1>3, <1>0, ActType DEF Leave, PermTypeOK
<1>4. ASSUME NEW p \in Participants, NEW s \in Governed, PublishTrack(p, s) \/ MuteTrack(p, s)
      PROVE PermTypeOK'
  <2>1. live' \in [Participants -> SUBSET Governed]
    BY <1>4, <1>0 DEF PublishTrack, MuteTrack
  <2> QED
    BY <1>4, <1>0, <2>1, ActType DEF PublishTrack, MuteTrack, PermTypeOK
<1>5. ASSUME NEW r \in PermRequests, NEW p \in Participants, JoinRoomRead(r, p) PROVE PermTypeOK'
  <2>1. [op |-> "join", who |-> p, row |-> lockRow, synced |-> FALSE] \in PermRequest
    BY <1>0 DEF PermRequest
  <2> QED
    BY <1>5, <1>0, <2>1, GoesType, ActType DEF JoinRoomRead, PermTypeOK
<1>6. ASSUME NEW r \in PermRequests, SyncOnJoin(r) PROVE PermTypeOK'
  <2>1. request[r] \in PermRequest /\ request[r].op = "join"
    BY <1>6, <1>0 DEF SyncOnJoin
  <2>2. [request[r] EXCEPT !.synced = TRUE] \in PermRequest
    BY <2>1 DEF PermRequest
  <2>3. Meta(request[r].row) \in {"open", "locked"}
    BY DEF Meta
  <2> QED
    BY <1>6, <1>0, <2>2, <2>3, GoesType DEF SyncOnJoin, PermTypeOK
<1>7. ASSUME NEW r \in PermRequests, CreateRoomToken(r) PROVE PermTypeOK'
  <2>1. request[r].row \in Locks /\ request[r].who \in Participants
    BY <1>7, <1>0 DEF CreateRoomToken, PermRequest
  <2> QED
    BY <1>7, <1>0, <2>1, EndsType DEF CreateRoomToken, PermTypeOK
<1>8. ASSUME NEW r \in PermRequests, NEW lock \in {"mic", "cam", "chat"}, SettingsWrite(r, lock)
      PROVE PermTypeOK'
  <2>1. lockRow' \in Locks
    BY <1>8, <1>0 DEF SettingsWrite, Locks
  <2>2. [op |-> "settings", step |-> "list", row |-> lockRow', todo |-> {}] \in PermRequest
    BY <2>1 DEF PermRequest
  <2> QED
    BY <1>8, <1>0, <2>1, <2>2, GoesType, ActType DEF SettingsWrite, PermTypeOK, Locks
<1>9. ASSUME NEW r \in PermRequests, SettingsList(r) PROVE PermTypeOK'
  <2> DEFINE t == {[p |-> p, perm |-> perm[p], live |-> live[p]] : p \in present \ Exempt}
  <2>1. t \subseteq Snapshot
    BY <1>0 DEF Snapshot
  <2>2. request[r] \in PermRequest /\ request[r].op = "settings"
    BY <1>9, <1>0 DEF SettingsList
  <2>3. \A k \in {"push", "sync"} : [request[r] EXCEPT !.step = k, !.todo = t] \in PermRequest
    BY <2>1, <2>2 DEF PermRequest
  <2> QED
    BY <1>9, <1>0, <2>3, GoesType DEF SettingsList, PermTypeOK
<1>10. ASSUME NEW r \in PermRequests, SettingsPush(r) PROVE PermTypeOK'
  <2>1. request[r] \in [op : {"settings"}, step : {"list", "push", "sync"}, row : Locks, todo : SUBSET Snapshot]
    BY <1>10, <1>0 DEF SettingsPush, PermRequest
  <2>2. PICK x \in request[r].todo :
          \/ SettingsFail(r, x.p, {y.p : y \in request[r].todo})
          \/ /\ x.p \in present
             /\ perm' = [perm EXCEPT ![x.p] = Policy(x.perm, request[r].row)]
             /\ Goes(r, [op |-> "cut", row |-> request[r].row, now |-> x,
                         todo |-> request[r].todo \ {x}])
             /\ excused' = IF request[r].row = lockRow /\ live[x.p] \subseteq x.live
                             THEN excused \ {x.p} ELSE excused \cup {x.p}
             /\ UNCHANGED <<lockRow, livekitRoom, pass, present, live, acts,
                            metaBehind, cameraOpened>>
    BY <1>10 DEF SettingsPush
  <2>3. {y.p : y \in request[r].todo} \subseteq Participants
    BY <2>1 DEF Snapshot
  <2>4. CASE SettingsFail(r, x.p, {y.p : y \in request[r].todo})
    BY <2>4, <1>0, <2>3, EndsType DEF SettingsFail, PermTypeOK
  <2>5. CASE x.p \in present /\ Goes(r, [op |-> "cut", row |-> request[r].row, now |-> x,
                                          todo |-> request[r].todo \ {x}])
    <3>1. [op |-> "cut", row |-> request[r].row, now |-> x, todo |-> request[r].todo \ {x}] \in PermRequest
      BY <2>1 DEF PermRequest
    <3>2. Policy(x.perm, request[r].row) \subseteq Source
      BY <2>1 DEF Policy, Snapshot, Unlocked, Governed, Source
    <3>3. request' \in [PermRequests -> PermRequest]
      BY <2>5, <3>1, GoesType
    <3>4. x.p \in Participants
      BY <2>5, <1>0
    <3>5. perm' \in [Participants -> SUBSET Source] /\ excused' \subseteq Participants
      BY <2>2, <2>5, <1>0, <3>2, <3>4 DEF SettingsFail
    <3>6. UNCHANGED <<lockRow, livekitRoom, pass, present, live, acts, cameraOpened>> /\ metaBehind' \in BOOLEAN
      BY <2>2, <1>0 DEF SettingsFail
    <3> QED
      BY <1>0, <3>3, <3>5, <3>6 DEF PermTypeOK
  <2> QED
    BY <2>2, <2>4, <2>5
<1>11. ASSUME NEW r \in PermRequests, SettingsCut(r) PROVE PermTypeOK'
  <2>1. request[r] \in [op : {"cut"}, row : Locks, now : Snapshot, todo : SUBSET Snapshot]
    BY <1>11, <1>0 DEF SettingsCut, PermRequest
  <2>2. {y.p : y \in request[r].todo} \subseteq Participants
    BY <2>1 DEF Snapshot
  <2>3. [op |-> "settings", step |-> "push", row |-> request[r].row, todo |-> request[r].todo] \in PermRequest
    BY <2>1 DEF PermRequest
  <2>4. CASE SettingsFail(r, request[r].now.p, {y.p : y \in request[r].todo})
    BY <2>4, <1>0, <2>2, EndsType DEF SettingsFail, PermTypeOK
  <2>5. CASE /\ live' = [live EXCEPT ![request[r].now.p] = @ \ {s \in request[r].now.live : request[r].row[s]}]
             /\ Goes(r, [op |-> "settings", step |-> "push", row |-> request[r].row, todo |-> request[r].todo])
             /\ UNCHANGED <<lockRow, livekitRoom, pass, present, perm, acts, blame>>
    BY <2>5, <1>0, <2>3, GoesType DEF PermTypeOK
  <2> QED
    BY <1>11, <2>4, <2>5 DEF SettingsCut
<1>12. ASSUME NEW r \in PermRequests, SettingsSync(r) PROVE PermTypeOK'
  <2>1. Meta(request[r].row) \in {"open", "locked"}
    BY DEF Meta
  <2> QED
    BY <1>12, <1>0, <2>1, EndsType DEF SettingsSync, PermTypeOK
<1>13. ASSUME NEW r \in PermRequests, NEW p \in Participants, NEW t \in Targets, NEW give \in BOOLEAN,
              PublishSourcesRead(r, p, t, give)
       PROVE PermTypeOK'
  <2>1. [op |-> "grant", seen |-> [p |-> p, perm |-> perm[p], live |-> live[p]],
         sources |-> t, give |-> give] \in PermRequest
    BY <1>0 DEF PermRequest, Snapshot, Targets, Source
  <2> QED
    BY <1>13, <1>0, <2>1, GoesType, ActType DEF PublishSourcesRead, PermTypeOK
<1>14. ASSUME NEW r \in PermRequests, PublishSourcesWrite(r) PROVE PermTypeOK'
  <2>1. request[r] \in [op : {"grant"}, seen : Snapshot, sources : SUBSET Source, give : BOOLEAN]
    BY <1>14, <1>0 DEF PublishSourcesWrite, PermRequest
  <2>2. NewSources(request[r]) \subseteq Source /\ request[r].seen.p \in Participants
    BY <2>1 DEF NewSources, Snapshot
  <2> QED
    BY <1>14, <1>0, <2>2, EndsType DEF PublishSourcesWrite, PermTypeOK
<1>15. ASSUME NEW r \in PermRequests, NEW s \in Governed, MuteAllList(r, s) PROVE PermTypeOK'
  <2>1. [op |-> "muteAll", source |-> s, todo |-> {p \in present \ Exempt : s \in live[p]}] \in PermRequest
    BY <1>0 DEF PermRequest
  <2> QED
    BY <1>15, <1>0, <2>1, GoesType, ActType DEF MuteAllList, PermTypeOK
<1>16. ASSUME NEW r \in PermRequests, MuteAllCut(r) PROVE PermTypeOK'
  <2>1. request[r] \in [op : {"muteAll"}, source : Governed, todo : SUBSET Participants]
    BY <1>16, <1>0 DEF MuteAllCut, PermRequest
  <2>2. \A p \in request[r].todo : [request[r] EXCEPT !.todo = @ \ {p}] \in PermRequest
    BY <2>1 DEF PermRequest
  <2>3. live' \in [Participants -> SUBSET Governed]
    BY <1>16, <1>0, <2>1 DEF MuteAllCut
  <2>4. request' \in [PermRequests -> PermRequest]
    BY <1>16, <2>2, GoesType, EndsType DEF MuteAllCut
  <2> QED
    BY <1>16, <1>0, <2>3, <2>4 DEF MuteAllCut, PermTypeOK
<1>17. CASE UNCHANGED permVars
  BY <1>17 DEF permVars, PermTypeOK
<1> QED
  BY <1>1, <1>2, <1>3, <1>4, <1>5, <1>6, <1>7, <1>8, <1>9, <1>10, <1>11, <1>12, <1>13, <1>14, <1>15, <1>16, <1>17
     DEF PermNext

\* Every variable keeps its type, for any participants and any requests at once.
THEOREM PermTypeCorrect == PermSpec => []PermTypeOK
BY TypeInit, TypeStep, PTL DEF PermSpec

-----------------------------------------------------------------------------
(* The inductive invariant, conjunct by conjunct                            *)

LEMMA IndInit == PermInit => IInv
<1> SUFFICES ASSUME PermInit PROVE IInv
  OBVIOUS
<1>1. \A r \in PermRequests : request[r].op = "idle"
  BY DEF PermInit
<1>2. RoomUp /\ SilentOutside /\ OneToken
  BY <1>1 DEF PermInit, RoomUp, SilentOutside, OneToken
<1>3. OnlyViewersTargeted /\ CameraNotGranted
  BY <1>1 DEF OnlyViewersTargeted, CameraNotGranted
<1>4. CameraClosed
  BY <1>1 DEF PermInit, CameraClosed, NoCameraHeld, NoCameraIn, Participants
<1>5. LocksOnTheirWay /\ MetaOnItsWay
  BY DEF PermInit, LocksOnTheirWay, MetaOnItsWay
<1> QED
  BY TypeInit, <1>2, <1>3, <1>4, <1>5 DEF IInv

LEMMA RoomUpStep == IInv /\ [PermNext]_permVars => RoomUp'
<1> SUFFICES ASSUME IInv, [PermNext]_permVars PROVE RoomUp'
  OBVIOUS
<1> USE DEF IInv, RoomUp, livekitRoom, people
<1>1. CASE RoomGone
  BY <1>1 DEF RoomGone
<1>2. ASSUME NEW p \in Participants, Connect(p) \/ Leave(p) PROVE RoomUp'
  BY <1>2 DEF Connect, Leave
<1>3. ASSUME NEW r \in PermRequests, SyncOnJoin(r) \/ SettingsSync(r) PROVE RoomUp'
  BY <1>3 DEF SyncOnJoin, SettingsSync
<1>4. CASE UNCHANGED <<livekitUp, roomMeta, present>>
  BY <1>4
<1> QED
  BY <1>1, <1>2, <1>3, <1>4
     DEF PermNext, permVars, PublishTrack, MuteTrack, JoinRoomRead, CreateRoomToken, SettingsWrite, SettingsList,
         SettingsPush, SettingsFail, SettingsCut, PublishSourcesRead, PublishSourcesWrite, MuteAllList, MuteAllCut

LEMMA SilentStep == IInv /\ [PermNext]_permVars => SilentOutside'
<1> SUFFICES ASSUME IInv, [PermNext]_permVars PROVE SilentOutside'
  OBVIOUS
<1>0. live \in [Participants -> SUBSET Governed]
  BY DEF IInv, PermTypeOK
<1> USE DEF IInv, SilentOutside, people
<1>1. ASSUME NEW p \in Participants, Connect(p) \/ Leave(p) PROVE SilentOutside'
  BY <1>0, <1>1 DEF Connect, Leave
<1>2. ASSUME NEW p \in Participants, NEW s \in Governed, PublishTrack(p, s) \/ MuteTrack(p, s)
      PROVE SilentOutside'
  BY <1>0, <1>2 DEF PublishTrack, MuteTrack
<1>3. ASSUME NEW r \in PermRequests, SettingsCut(r) \/ MuteAllCut(r) PROVE SilentOutside'
  <2>1. present' = present /\ \A p \in Participants : live'[p] \subseteq live[p]
    BY <1>0, <1>3 DEF SettingsCut, SettingsFail, MuteAllCut
  <2> QED
    BY <2>1
<1>4. CASE UNCHANGED <<live, present>>
  BY <1>4
<1> QED
  BY <1>1, <1>2, <1>3, <1>4
     DEF PermNext, permVars, RoomGone, JoinRoomRead, SyncOnJoin, CreateRoomToken, SettingsWrite, SettingsList,
         SettingsPush, SettingsFail, SettingsSync, PublishSourcesRead, PublishSourcesWrite, MuteAllList

\* A step that neither joins anybody nor touches tokens or the list of those present.
LEMMA TokenKept ==
  ASSUME IInv, UNCHANGED <<pass, present>>, NEW r \in PermRequests,
         \A q \in PermRequests \ {r} : request'[q] = request[q],
         request'[r].op # "join"
  PROVE OneToken'
BY DEF IInv, OneToken

LEMMA TokenStep == IInv /\ [PermNext]_permVars => OneToken'
<1> SUFFICES ASSUME IInv, [PermNext]_permVars PROVE OneToken'
  OBVIOUS
<1>0. /\ pass \in [Participants -> SUBSET Locks] /\ present \subseteq Participants
      /\ request \in [PermRequests -> PermRequest] /\ OneToken
  BY DEF IInv, PermTypeOK
<1> USE DEF people
<1>1. ASSUME NEW p \in Participants, Connect(p) PROVE OneToken'
  BY <1>0, <1>1 DEF Connect, OneToken
<1>2. ASSUME NEW p \in Participants, Leave(p) PROVE OneToken'
  BY <1>0, <1>2 DEF Leave, OneToken
<1>3. ASSUME NEW r \in PermRequests, NEW p \in Participants, JoinRoomRead(r, p) PROVE OneToken'
  BY <1>0, <1>3 DEF JoinRoomRead, Goes, OneToken
<1>4. ASSUME NEW r \in PermRequests, SyncOnJoin(r) PROVE OneToken'
  <2>1. request'[r].op = "join" /\ request'[r].who = request[r].who /\ request[r].op = "join"
    BY <1>0, <1>4 DEF SyncOnJoin, Goes, PermRequest
  <2>2. \A q \in PermRequests \ {r} : request'[q] = request[q]
    BY <1>0, <1>4 DEF SyncOnJoin, Goes
  <2>3. \A q \in PermRequests : request'[q].op = request[q].op /\ (request[q].op = "join" => request'[q].who = request[q].who)
    BY <2>1, <2>2
  <2>4. UNCHANGED <<pass, present>>
    BY <1>4 DEF SyncOnJoin
  <2> QED
    BY <1>0, <2>3, <2>4 DEF OneToken
<1>5. ASSUME NEW r \in PermRequests, CreateRoomToken(r) PROVE OneToken'
  <2>1. request[r].who \in Participants /\ request[r].op = "join"
    BY <1>0, <1>5 DEF CreateRoomToken, PermRequest
  <2>2. request'[r].op = "idle" /\ \A q \in PermRequests \ {r} : request'[q] = request[q]
    BY <1>0, <1>5 DEF CreateRoomToken, Ends, Goes
  <2> QED
    BY <1>0, <1>5, <2>1, <2>2 DEF CreateRoomToken, OneToken
<1>6. ASSUME NEW r \in PermRequests,
             \/ \E lock \in {"mic", "cam", "chat"} : SettingsWrite(r, lock)
             \/ SettingsList(r) \/ SettingsPush(r) \/ SettingsCut(r) \/ SettingsSync(r)
             \/ \E p \in Participants, t \in Targets, give \in BOOLEAN : PublishSourcesRead(r, p, t, give)
             \/ PublishSourcesWrite(r)
             \/ \E s \in Governed : MuteAllList(r, s)
             \/ MuteAllCut(r)
      PROVE OneToken'
  <2>1. UNCHANGED <<pass, present>>
    BY <1>6 DEF SettingsWrite, SettingsList, SettingsPush, SettingsFail, SettingsCut, SettingsSync,
                PublishSourcesRead, PublishSourcesWrite, MuteAllList, MuteAllCut
  <2> DEFINE Other == request'[r].op # "join" /\ \A q \in PermRequests \ {r} : request'[q] = request[q]
  <2>2. Other
    <3>0. /\ Ends(r) => Other
          /\ \A x : Goes(r, x) /\ x.op # "join" => Other
      BY <1>0 DEF Ends, Goes
    <3> HIDE DEF Other
    <3>2. CASE SettingsList(r)
      <4>1. request[r] \in PermRequest /\ request[r].op = "settings"
        BY <1>0, <3>2 DEF SettingsList
      <4>2. \A k, t : [request[r] EXCEPT !.step = k, !.todo = t].op # "join"
        BY <4>1 DEF PermRequest
      <4> QED
        BY <3>0, <3>2, <4>2 DEF SettingsList
    <3>3. CASE SettingsPush(r)
      BY <3>0, <3>3 DEF SettingsPush, SettingsFail
    <3>4. CASE SettingsCut(r)
      BY <3>0, <3>4 DEF SettingsCut, SettingsFail
    <3>5. CASE SettingsSync(r) \/ PublishSourcesWrite(r)
      BY <3>0, <3>5 DEF SettingsSync, PublishSourcesWrite
    <3>6. CASE MuteAllCut(r)
      <4>1. request[r] \in PermRequest /\ request[r].op = "muteAll"
        BY <1>0, <3>6 DEF MuteAllCut
      <4>2. \A p : [request[r] EXCEPT !.todo = @ \ {p}].op # "join"
        BY <4>1 DEF PermRequest
      <4> QED
        BY <3>0, <3>6, <4>2 DEF MuteAllCut
    <3>7. CASE \E s \in Governed : MuteAllList(r, s)
      BY <3>0, <3>7 DEF MuteAllList
    <3>8. CASE \E lock \in {"mic", "cam", "chat"} : SettingsWrite(r, lock)
      BY <3>0, <3>8 DEF SettingsWrite
    <3>9. CASE \E p \in Participants, t \in Targets, give \in BOOLEAN : PublishSourcesRead(r, p, t, give)
      BY <3>0, <3>9 DEF PublishSourcesRead
    <3> QED
      BY <1>6, <3>2, <3>3, <3>4, <3>5, <3>6, <3>7, <3>8, <3>9
  <2> QED
    BY <2>1, <2>2, TokenKept
<1>7. CASE UNCHANGED <<pass, present, request>>
  BY <1>0, <1>7 DEF OneToken
<1> QED
  BY <1>1, <1>2, <1>3, <1>4, <1>5, <1>6, <1>7 DEF PermNext, permVars, RoomGone, PublishTrack, MuteTrack

-----------------------------------------------------------------------------
(* What the steps of a request do to it                                     *)

LEMMA GoesEffect ==
  ASSUME PermTypeOK, NEW r \in PermRequests, NEW x, Goes(r, x)
  PROVE request'[r] = x /\ \A q \in PermRequests \ {r} : request'[q] = request[q]
BY DEF PermTypeOK, Goes

LEMMA EndsEffect ==
  ASSUME PermTypeOK, NEW r \in PermRequests, Ends(r)
  PROVE request'[r].op = "idle" /\ \A q \in PermRequests \ {r} : request'[q] = request[q]
BY GoesEffect DEF Ends

\* The list taken for a push holds everybody connected whom it is about, and nobody else.
LEMMA ListEffect ==
  ASSUME PermTypeOK, NEW r \in PermRequests, SettingsList(r)
  PROVE /\ request[r].op = "settings" /\ request[r].step = "list"
        /\ request'[r].op = "settings"
        /\ request'[r].row = request[r].row
        /\ livekitUp => request'[r].step = "push"
        /\ \A x \in request'[r].todo : x.p \in present \ Exempt /\ x.perm = perm[x.p] /\ x.live = live[x.p]
        /\ \A p \in present \ Exempt : \E x \in request'[r].todo : x.p = p
        /\ \A q \in PermRequests \ {r} : request'[q] = request[q]
<1> DEFINE t == {[p |-> p, perm |-> perm[p], live |-> live[p]] : p \in present \ Exempt}
           y == [request[r] EXCEPT !.step = IF livekitUp THEN "push" ELSE "sync", !.todo = t]
<1>1. request[r] \in [op : {"settings"}, step : {"list", "push", "sync"}, row : Locks, todo : SUBSET Snapshot]
  BY DEF PermTypeOK, PermRequest, SettingsList
<1>2. y.op = "settings" /\ y.row = request[r].row /\ (livekitUp => y.step = "push") /\ y.todo = t
  BY <1>1
<1>3. request'[r] = y /\ \A q \in PermRequests \ {r} : request'[q] = request[q]
  BY GoesEffect DEF SettingsList
<1>4. /\ \A x \in t : x.p \in present \ Exempt /\ x.perm = perm[x.p] /\ x.live = live[x.p]
      /\ \A p \in present \ Exempt : \E x \in t : x.p = p
  <2>1. \A x \in t : x.p \in present \ Exempt /\ x.perm = perm[x.p] /\ x.live = live[x.p]
    OBVIOUS
  <2>2. ASSUME NEW p \in present \ Exempt PROVE \E x \in t : x.p = p
    <3>1. [p |-> p, perm |-> perm[p], live |-> live[p]] \in t
      OBVIOUS
    <3> QED
      BY <3>1
  <2> QED
    BY <2>1, <2>2
<1>5. request[r].step = "list"
  BY DEF SettingsList
<1> HIDE DEF t, y
<1> QED
  BY <1>1, <1>2, <1>3, <1>4, <1>5

\* A push goes to somebody on the list, or ends on an error.
LEMMA PushEffect ==
  ASSUME PermTypeOK, NEW r \in PermRequests, SettingsPush(r)
  PROVE /\ request[r].op = "settings" /\ request[r].step = "push"
        /\ \A q \in PermRequests \ {r} : request'[q] = request[q]
        /\ UNCHANGED <<lockRow, roomMeta, livekitUp, pass, present, live, cameraOpened>>
        /\ \E x \in request[r].todo :
             /\ x.p \in Participants
             /\ \/ /\ x.p \notin present
                   /\ request'[r].op = "idle"
                   /\ excused' = excused \cup {y.p : y \in request[r].todo}
                   /\ metaBehind'
                   /\ UNCHANGED perm
                \/ /\ x.p \in present
                   /\ request'[r].op = "cut"
                   /\ request'[r].row = request[r].row
                   /\ request'[r].now = x
                   /\ request'[r].todo = request[r].todo \ {x}
                   /\ perm' = [perm EXCEPT ![x.p] = Policy(x.perm, request[r].row)]
                   /\ excused' = IF request[r].row = lockRow /\ live[x.p] \subseteq x.live
                                   THEN excused \ {x.p} ELSE excused \cup {x.p}
                   /\ UNCHANGED metaBehind
<1>1. request[r] \in [op : {"settings"}, step : {"list", "push", "sync"}, row : Locks, todo : SUBSET Snapshot]
  BY DEF PermTypeOK, PermRequest, SettingsPush
<1>2. PICK x \in request[r].todo :
        \/ SettingsFail(r, x.p, {y.p : y \in request[r].todo})
        \/ /\ x.p \in present
           /\ perm' = [perm EXCEPT ![x.p] = Policy(x.perm, request[r].row)]
           /\ Goes(r, [op |-> "cut", row |-> request[r].row, now |-> x,
                       todo |-> request[r].todo \ {x}])
           /\ excused' = IF request[r].row = lockRow /\ live[x.p] \subseteq x.live
                           THEN excused \ {x.p} ELSE excused \cup {x.p}
           /\ UNCHANGED <<lockRow, livekitRoom, pass, present, live, acts,
                          metaBehind, cameraOpened>>
  BY DEF SettingsPush
<1>3. x.p \in Participants
  BY <1>1 DEF Snapshot
<1>4. CASE SettingsFail(r, x.p, {y.p : y \in request[r].todo})
  BY <1>3, <1>4, EndsEffect DEF SettingsFail, SettingsPush, livekitRoom, people
<1>5. CASE /\ x.p \in present
           /\ perm' = [perm EXCEPT ![x.p] = Policy(x.perm, request[r].row)]
           /\ Goes(r, [op |-> "cut", row |-> request[r].row, now |-> x,
                       todo |-> request[r].todo \ {x}])
           /\ excused' = IF request[r].row = lockRow /\ live[x.p] \subseteq x.live
                           THEN excused \ {x.p} ELSE excused \cup {x.p}
           /\ UNCHANGED <<lockRow, livekitRoom, pass, present, live, acts,
                          metaBehind, cameraOpened>>
  <2> DEFINE y == [op |-> "cut", row |-> request[r].row, now |-> x, todo |-> request[r].todo \ {x}]
  <2>1. request'[r] = y /\ \A q \in PermRequests \ {r} : request'[q] = request[q]
    BY <1>5, GoesEffect
  <2>2. y.op = "cut" /\ y.row = request[r].row /\ y.now = x /\ y.todo = request[r].todo \ {x}
    OBVIOUS
  <2> HIDE DEF y
  <2> QED
    BY <1>3, <1>5, <2>1, <2>2 DEF SettingsPush, livekitRoom
<1> QED
  BY <1>2, <1>4, <1>5

\* The tracks of somebody just pushed to are cut, or the request ends on an error.
LEMMA CutEffect ==
  ASSUME PermTypeOK, NEW r \in PermRequests, SettingsCut(r)
  PROVE /\ request[r].op = "cut"
        /\ \A q \in PermRequests \ {r} : request'[q] = request[q]
        /\ UNCHANGED <<lockRow, roomMeta, livekitUp, pass, present, perm, cameraOpened>>
        /\ \/ /\ request[r].now.p \notin present
              /\ request'[r].op = "idle"
              /\ excused' = excused \cup {y.p : y \in request[r].todo}
              /\ metaBehind'
              /\ UNCHANGED live
           \/ /\ request'[r].op = "settings"
              /\ request'[r].step = "push"
              /\ request'[r].row = request[r].row
              /\ request'[r].todo = request[r].todo
              /\ live' = [live EXCEPT ![request[r].now.p] = @ \ {s \in request[r].now.live : request[r].row[s]}]
              /\ UNCHANGED <<excused, metaBehind>>
<1>1. request[r].op = "cut"
  BY DEF SettingsCut
<1>2. CASE SettingsFail(r, request[r].now.p, {y.p : y \in request[r].todo})
  BY <1>1, <1>2, EndsEffect DEF SettingsFail, livekitRoom, people
<1>3. CASE /\ live' = [live EXCEPT ![request[r].now.p] = @ \ {s \in request[r].now.live : request[r].row[s]}]
           /\ Goes(r, [op |-> "settings", step |-> "push", row |-> request[r].row, todo |-> request[r].todo])
           /\ UNCHANGED <<lockRow, livekitRoom, pass, present, perm, acts, blame>>
  <2> DEFINE y == [op |-> "settings", step |-> "push", row |-> request[r].row, todo |-> request[r].todo]
  <2>1. request'[r] = y /\ \A q \in PermRequests \ {r} : request'[q] = request[q]
    BY <1>3, GoesEffect
  <2>2. y.op = "settings" /\ y.step = "push" /\ y.row = request[r].row /\ y.todo = request[r].todo
    OBVIOUS
  <2> HIDE DEF y
  <2> QED
    BY <1>1, <1>3, <2>1, <2>2 DEF livekitRoom, blame
<1> QED
  BY <1>2, <1>3 DEF SettingsCut

\* A moderator's join writes the metadata and goes on with the row it has read.
LEMMA SyncJoinEffect ==
  ASSUME PermTypeOK, NEW r \in PermRequests, SyncOnJoin(r)
  PROVE /\ request[r].op = "join" /\ request'[r].op = "join"
        /\ request'[r].who = request[r].who
        /\ request'[r].row = request[r].row
        /\ \A q \in PermRequests \ {r} : request'[q] = request[q]
<1>1. request[r] \in [op : {"join"}, who : Participants, row : Locks, synced : BOOLEAN]
  BY DEF PermTypeOK, PermRequest, SyncOnJoin
<1> QED
  BY <1>1, GoesEffect DEF SyncOnJoin

\* Muting everybody goes through its list and never adds to it.
LEMMA MuteEffect ==
  ASSUME PermTypeOK, NEW r \in PermRequests, MuteAllCut(r)
  PROVE /\ request[r].op = "muteAll"
        /\ \/ request'[r].op = "idle"
           \/ request'[r].op = "muteAll" /\ request'[r].todo \subseteq request[r].todo
        /\ \A q \in PermRequests \ {r} : request'[q] = request[q]
        /\ \A p \in Participants \ request[r].todo : live'[p] = live[p]
        /\ \A p \in Participants : live'[p] \subseteq live[p]
<1>1. request[r] \in [op : {"muteAll"}, source : Governed, todo : SUBSET Participants]
  BY DEF PermTypeOK, PermRequest, MuteAllCut
<1>2. live \in [Participants -> SUBSET Governed]
  BY DEF PermTypeOK
<1>3. /\ \A p \in Participants \ request[r].todo : live'[p] = live[p]
      /\ \A p \in Participants : live'[p] \subseteq live[p]
  BY <1>1, <1>2 DEF MuteAllCut
<1>4. \A p : [request[r] EXCEPT !.todo = @ \ {p}].op = "muteAll"
           /\ [request[r] EXCEPT !.todo = @ \ {p}].todo \subseteq request[r].todo
  BY <1>1
<1>5. CASE Ends(r)
  BY <1>1, <1>3, <1>5, EndsEffect
<1>6. ASSUME NEW p, Goes(r, [request[r] EXCEPT !.todo = @ \ {p}])
      PROVE request'[r].op = "muteAll" /\ request'[r].todo \subseteq request[r].todo
            /\ \A q \in PermRequests \ {r} : request'[q] = request[q]
  BY <1>4, <1>6, GoesEffect
<1> QED
  BY <1>1, <1>3, <1>5, <1>6 DEF MuteAllCut

-----------------------------------------------------------------------------
(* Who is targeted, and the camera                                          *)

LEMMA TargetsStep == IInv /\ [PermNext]_permVars => OnlyViewersTargeted'
<1> SUFFICES ASSUME IInv, [PermNext]_permVars PROVE OnlyViewersTargeted'
  OBVIOUS
<1>0. PermTypeOK /\ OnlyViewersTargeted
  BY DEF IInv
<1> USE DEF people, OnlyViewersTargeted
<1>1. ASSUME NEW r \in PermRequests,
             request'[r].op \notin {"settings", "cut", "muteAll"},
             \A q \in PermRequests \ {r} : request'[q] = request[q]
      PROVE OnlyViewersTargeted'
  BY <1>0, <1>1
<1>2. ASSUME NEW r \in PermRequests,
             \/ CreateRoomToken(r) \/ SettingsSync(r) \/ PublishSourcesWrite(r)
             \/ \E p \in Participants : JoinRoomRead(r, p)
             \/ \E p \in Participants, t \in Targets, give \in BOOLEAN : PublishSourcesRead(r, p, t, give)
      PROVE OnlyViewersTargeted'
  <2>1. ASSUME NEW x, Goes(r, x), x.op \notin {"settings", "cut", "muteAll"} PROVE OnlyViewersTargeted'
    BY <1>0, <1>1, <2>1, GoesEffect
  <2> QED
    BY <1>2, <2>1 DEF CreateRoomToken, SettingsSync, PublishSourcesWrite, JoinRoomRead, PublishSourcesRead, Ends
<1>3. ASSUME NEW r \in PermRequests, SyncOnJoin(r) PROVE OnlyViewersTargeted'
  BY <1>0, <1>1, <1>3, SyncJoinEffect
<1>4. ASSUME NEW r \in PermRequests, NEW lock \in {"mic", "cam", "chat"}, SettingsWrite(r, lock)
      PROVE OnlyViewersTargeted'
  <2> DEFINE y == [op |-> "settings", step |-> "list", row |-> lockRow', todo |-> {}]
  <2>1. request'[r] = y /\ \A q \in PermRequests \ {r} : request'[q] = request[q]
    BY <1>0, <1>4, GoesEffect DEF SettingsWrite
  <2>2. y.op = "settings" /\ y.todo = {}
    OBVIOUS
  <2> HIDE DEF y
  <2> QED
    BY <1>0, <2>1, <2>2
<1>5. ASSUME NEW r \in PermRequests, SettingsList(r) PROVE OnlyViewersTargeted'
  BY <1>0, <1>5, ListEffect
<1>6. ASSUME NEW r \in PermRequests, SettingsPush(r) PROVE OnlyViewersTargeted'
  BY <1>0, <1>6, PushEffect
<1>7. ASSUME NEW r \in PermRequests, SettingsCut(r) PROVE OnlyViewersTargeted'
  BY <1>0, <1>7, CutEffect
<1>8. ASSUME NEW r \in PermRequests, NEW s \in Governed, MuteAllList(r, s) PROVE OnlyViewersTargeted'
  <2> DEFINE y == [op |-> "muteAll", source |-> s, todo |-> {p \in present \ Exempt : s \in live[p]}]
  <2>1. request'[r] = y /\ \A q \in PermRequests \ {r} : request'[q] = request[q]
    BY <1>0, <1>8, GoesEffect DEF MuteAllList
  <2>2. y.op = "muteAll" /\ y.todo \cap Exempt = {}
    OBVIOUS
  <2> HIDE DEF y
  <2> QED
    BY <1>0, <2>1, <2>2
<1>9. ASSUME NEW r \in PermRequests, MuteAllCut(r) PROVE OnlyViewersTargeted'
  BY <1>0, <1>9, MuteEffect
<1>10. CASE UNCHANGED request
  BY <1>0, <1>10
<1> QED
  BY <1>2, <1>3, <1>4, <1>5, <1>6, <1>7, <1>8, <1>9, <1>10
     DEF PermNext, permVars, RoomGone, Connect, Leave, PublishTrack, MuteTrack

\* A step that gives nobody a source and starts no grant.
LEMMA GrantedStep == IInv /\ [PermNext]_permVars => CameraNotGranted'
<1> SUFFICES ASSUME IInv, [PermNext]_permVars PROVE CameraNotGranted'
  OBVIOUS
<1>0. PermTypeOK /\ CameraNotGranted
  BY DEF IInv
<1> USE DEF people, CameraNotGranted
<1>1. ASSUME NEW r \in PermRequests, NEW x, Goes(r, x), x.op = "grant" => "cam" \notin x.sources
      PROVE CameraNotGranted'
  BY <1>0, <1>1, GoesEffect
<1>2. ASSUME NEW r \in PermRequests,
             \/ CreateRoomToken(r) \/ SettingsSync(r) \/ PublishSourcesWrite(r)
             \/ \E p \in Participants : JoinRoomRead(r, p)
             \/ \E lock \in {"mic", "cam", "chat"} : SettingsWrite(r, lock)
             \/ \E s \in Governed : MuteAllList(r, s)
      PROVE CameraNotGranted'
  BY <1>1, <1>2 DEF CreateRoomToken, SettingsSync, PublishSourcesWrite, JoinRoomRead, SettingsWrite, MuteAllList, Ends
<1>3. ASSUME NEW r \in PermRequests, SyncOnJoin(r) \/ SettingsList(r) \/ SettingsPush(r) \/ SettingsCut(r) \/ MuteAllCut(r)
      PROVE CameraNotGranted'
  BY <1>0, <1>3, SyncJoinEffect, ListEffect, PushEffect, CutEffect, MuteEffect
<1>4. ASSUME NEW r \in PermRequests, NEW p \in Participants, NEW t \in Targets, NEW give \in BOOLEAN,
             PublishSourcesRead(r, p, t, give)
      PROVE CameraNotGranted'
  <2>1. "cam" \notin t
    BY DEF Targets
  <2> QED
    BY <1>1, <1>4, <2>1 DEF PublishSourcesRead
<1>5. CASE UNCHANGED request
  BY <1>0, <1>5
<1> QED
  BY <1>2, <1>3, <1>4, <1>5 DEF PermNext, permVars, RoomGone, Connect, Leave, PublishTrack, MuteTrack

\* The locks of a closed camera give it to nobody.
LEMMA CameraLocked ==
  ASSUME NEW k, k.cam
  PROVE /\ "cam" \notin Unlocked(k)
        /\ \A p \in Viewers : "cam" \notin TokenSources(p, k)
        /\ \A sources : "cam" \notin Policy(sources, k)
BY DEF Unlocked, TokenSources, Policy, Governed

LEMMA CameraStep == IInv /\ [PermNext]_permVars => CameraClosed'
<1> SUFFICES ASSUME IInv, [PermNext]_permVars, ~cameraOpened' PROVE CameraClosed'
  BY DEF CameraClosed
<1>0. /\ PermTypeOK /\ CameraClosed /\ CameraNotGranted /\ SilentOutside
      /\ pass \in [Participants -> SUBSET Locks] /\ present \subseteq Participants
      /\ perm \in [Participants -> SUBSET Source] /\ live \in [Participants -> SUBSET Governed]
      /\ request \in [PermRequests -> PermRequest] /\ Viewers \subseteq Participants
  BY DEF IInv, PermTypeOK, Participants
<1> USE DEF people, blame, livekitRoom
<1>a. ~cameraOpened
  BY DEF PermNext, permVars, RoomGone, Connect, Leave, PublishTrack, MuteTrack, JoinRoomRead, SyncOnJoin,
         CreateRoomToken, SettingsWrite, SettingsList, SettingsPush, SettingsFail, SettingsCut, SettingsSync,
         PublishSourcesRead, PublishSourcesWrite, MuteAllList, MuteAllCut
<1>b. lockRow.cam /\ NoCameraHeld /\ \A r \in PermRequests : NoCameraIn(request[r])
  BY <1>0, <1>a DEF CameraClosed
\* A request that replaces its record by one without the camera, and touches nobody's rights.
<1>c. ASSUME NEW r \in PermRequests, \A q \in PermRequests \ {r} : request'[q] = request[q],
             NoCameraIn(request'[r]), lockRow'.cam, NoCameraHeld'
      PROVE CameraClosed'
  BY <1>b, <1>c DEF CameraClosed
<1>d. ASSUME UNCHANGED <<pass, perm, live>> PROVE NoCameraHeld'
  BY <1>b, <1>d DEF NoCameraHeld
<1>1. CASE RoomGone
  BY <1>1, <1>b DEF RoomGone, CameraClosed, NoCameraHeld
<1>2. ASSUME NEW p \in Participants, Connect(p) PROVE CameraClosed'
  <2>1. PICK k \in pass[p] : perm' = [perm EXCEPT ![p] = TokenSources(p, k)]
    BY <1>2 DEF Connect
  <2>2. p \in Viewers => "cam" \notin TokenSources(p, k)
    BY <1>b, CameraLocked DEF NoCameraHeld
  <2>3. NoCameraHeld'
    BY <1>0, <1>2, <1>b, <2>1, <2>2 DEF Connect, NoCameraHeld
  <2> QED
    BY <1>2, <1>b, <2>3 DEF Connect, CameraClosed
<1>3. ASSUME NEW p \in Participants, Leave(p) PROVE CameraClosed'
  <2>1. NoCameraHeld'
    BY <1>0, <1>3, <1>b DEF Leave, NoCameraHeld
  <2> QED
    BY <1>3, <1>b, <2>1 DEF Leave, CameraClosed
<1>4. ASSUME NEW p \in Participants, NEW s \in Governed, PublishTrack(p, s) \/ MuteTrack(p, s)
      PROVE CameraClosed'
  <2>1. NoCameraHeld'
    BY <1>0, <1>4, <1>b DEF PublishTrack, MuteTrack, NoCameraHeld
  <2> QED
    BY <1>4, <1>b, <2>1 DEF PublishTrack, MuteTrack, CameraClosed
<1>5. ASSUME NEW r \in PermRequests, NEW p \in Participants, JoinRoomRead(r, p) PROVE CameraClosed'
  <2>1. NoCameraIn([op |-> "join", who |-> p, row |-> lockRow, synced |-> FALSE])
    BY <1>b DEF NoCameraIn
  <2> QED
    BY <1>0, <1>5, <1>b, <1>c, <1>d, <2>1, GoesEffect DEF JoinRoomRead
<1>6. ASSUME NEW r \in PermRequests, SyncOnJoin(r) PROVE CameraClosed'
  <2>1. NoCameraIn(request'[r])
    BY <1>0, <1>6, <1>b, SyncJoinEffect DEF NoCameraIn
  <2> QED
    BY <1>0, <1>6, <1>b, <1>c, <1>d, <2>1, SyncJoinEffect DEF SyncOnJoin
<1>7. ASSUME NEW r \in PermRequests, CreateRoomToken(r) PROVE CameraClosed'
  <2>1. request[r].row.cam /\ request[r].who \in Participants
    BY <1>0, <1>7, <1>b DEF CreateRoomToken, NoCameraIn, PermRequest
  <2>2. NoCameraHeld'
    BY <1>0, <1>7, <1>b, <2>1 DEF CreateRoomToken, NoCameraHeld
  <2>3. NoCameraIn(request'[r])
    BY <1>0, <1>7, EndsEffect DEF CreateRoomToken, NoCameraIn
  <2> QED
    BY <1>0, <1>7, <1>b, <1>c, <2>2, <2>3, EndsEffect DEF CreateRoomToken
<1>8. ASSUME NEW r \in PermRequests, NEW lock \in {"mic", "cam", "chat"}, SettingsWrite(r, lock)
      PROVE CameraClosed'
  <2>1. lockRow'.cam
    BY <1>0, <1>8, <1>a DEF SettingsWrite, PermTypeOK, Locks
  <2>2. NoCameraIn([op |-> "settings", step |-> "list", row |-> lockRow', todo |-> {}])
    BY <2>1 DEF NoCameraIn
  <2> QED
    BY <1>0, <1>8, <1>c, <1>d, <2>1, <2>2, GoesEffect DEF SettingsWrite
<1>9. ASSUME NEW r \in PermRequests, SettingsList(r) PROVE CameraClosed'
  <2>1. NoCameraIn(request'[r])
    BY <1>0, <1>9, <1>b, ListEffect DEF NoCameraIn, NoCameraHeld, Cameraless
  <2> QED
    BY <1>0, <1>9, <1>b, <1>c, <1>d, <2>1, ListEffect DEF SettingsList
<1>10. ASSUME NEW r \in PermRequests, SettingsPush(r) PROVE CameraClosed'
  <2>1. request[r].row.cam /\ \A y \in request[r].todo : Cameraless(y)
    BY <1>0, <1>10, <1>b, PushEffect DEF NoCameraIn
  <2>2. NoCameraIn(request'[r])
    BY <1>0, <1>10, <2>1, PushEffect DEF NoCameraIn
  <2>3. \A sources : "cam" \notin Policy(sources, request[r].row)
    BY <2>1, CameraLocked
  <2>4. NoCameraHeld'
    BY <1>0, <1>10, <1>b, <2>3, PushEffect DEF NoCameraHeld
  <2> QED
    BY <1>0, <1>10, <1>b, <1>c, <2>2, <2>4, PushEffect
<1>11. ASSUME NEW r \in PermRequests, SettingsCut(r) PROVE CameraClosed'
  <2>1. NoCameraIn(request'[r])
    BY <1>0, <1>11, <1>b, CutEffect DEF NoCameraIn
  <2>2. NoCameraHeld'
    BY <1>0, <1>11, <1>b, CutEffect DEF NoCameraHeld
  <2> QED
    BY <1>0, <1>11, <1>b, <1>c, <2>1, <2>2, CutEffect
<1>12. ASSUME NEW r \in PermRequests, SettingsSync(r) PROVE CameraClosed'
  <2>1. NoCameraIn(request'[r])
    BY <1>0, <1>12, EndsEffect DEF SettingsSync, NoCameraIn
  <2> QED
    BY <1>0, <1>12, <1>b, <1>c, <1>d, <2>1, EndsEffect DEF SettingsSync
<1>13. ASSUME NEW r \in PermRequests, NEW p \in Participants, NEW t \in Targets, NEW give \in BOOLEAN,
              PublishSourcesRead(r, p, t, give)
       PROVE CameraClosed'
  <2>1. NoCameraIn([op |-> "grant", seen |-> [p |-> p, perm |-> perm[p], live |-> live[p]],
                    sources |-> t, give |-> give])
    BY <1>b DEF NoCameraIn, NoCameraHeld, Cameraless
  <2> QED
    BY <1>0, <1>13, <1>b, <1>c, <1>d, <2>1, GoesEffect DEF PublishSourcesRead
<1>14. ASSUME NEW r \in PermRequests, PublishSourcesWrite(r) PROVE CameraClosed'
  <2>1. request[r].seen.p \in Viewers => "cam" \notin NewSources(request[r])
    BY <1>0, <1>14, <1>b DEF PublishSourcesWrite, NewSources, CameraNotGranted, NoCameraIn, Cameraless
  <2>2. NoCameraHeld'
    BY <1>0, <1>14, <1>b, <2>1 DEF PublishSourcesWrite, NoCameraHeld
  <2>3. NoCameraIn(request'[r])
    BY <1>0, <1>14, EndsEffect DEF PublishSourcesWrite, NoCameraIn
  <2> QED
    BY <1>0, <1>14, <1>b, <1>c, <2>2, <2>3, EndsEffect DEF PublishSourcesWrite
<1>15. ASSUME NEW r \in PermRequests, NEW s \in Governed, MuteAllList(r, s) PROVE CameraClosed'
  <2>1. NoCameraIn([op |-> "muteAll", source |-> s, todo |-> {p \in present \ Exempt : s \in live[p]}])
    BY DEF NoCameraIn
  <2> QED
    BY <1>0, <1>15, <1>b, <1>c, <1>d, <2>1, GoesEffect DEF MuteAllList
<1>16. ASSUME NEW r \in PermRequests, MuteAllCut(r) PROVE CameraClosed'
  <2>1. NoCameraIn(request'[r])
    BY <1>0, <1>16, MuteEffect DEF NoCameraIn
  <2>2. NoCameraHeld'
    BY <1>0, <1>16, <1>b, MuteEffect DEF NoCameraHeld, MuteAllCut
  <2> QED
    BY <1>0, <1>16, <1>b, <1>c, <2>1, <2>2, MuteEffect DEF MuteAllCut
<1>17. CASE UNCHANGED permVars
  BY <1>b, <1>17 DEF permVars, CameraClosed, NoCameraHeld
<1> QED
  BY <1>1, <1>2, <1>3, <1>4, <1>5, <1>6, <1>7, <1>8, <1>9, <1>10, <1>11, <1>12, <1>13, <1>14, <1>15, <1>16, <1>17
     DEF PermNext

-----------------------------------------------------------------------------
(* The locks                                                                *)

\* What is owed to p stays owed when p gets no new governed right and the requests
\* that owe it go on.
LEMMA WayKept ==
  ASSUME NEW p, OnItsWay(p), lockRow' = lockRow,
         perm'[p] \cap Governed \subseteq perm[p], live'[p] \subseteq live[p],
         \A r \in PermRequests : Owed(r, p) \/ Cutting(r, p) => request'[r] = request[r]
  PROVE OnItsWay(p)'
<1>1. Unlocked(lockRow)' = Unlocked(lockRow)
  BY DEF Unlocked
<1>2. (RightsHold(p) => RightsHold(p)') /\ (SoundHolds(p) => SoundHolds(p)')
  BY <1>1 DEF RightsHold, SoundHolds
<1>3. \A r \in PermRequests : Owed(r, p) => Owed(r, p)'
  BY DEF Owed, Fresh
<1>4. \A r \in PermRequests : Cutting(r, p) => Cutting(r, p)'
  BY <1>1 DEF Cutting, Fresh
<1> QED
  BY <1>2, <1>3, <1>4 DEF OnItsWay

\* Only the requests of updateSettings owe anything.
LEMMA OnlySettingsOwe ==
  ASSUME NEW r, request[r].op \notin {"settings", "cut"}, NEW p
  PROVE ~Owed(r, p) /\ ~Cutting(r, p)
BY DEF Owed, Cutting, Fresh

LEMMA LocksStep == IInv /\ [PermNext]_permVars => LocksOnTheirWay'
<1> SUFFICES ASSUME IInv, [PermNext]_permVars, NEW p \in (present' \cap Viewers) \ excused'
             PROVE OnItsWay(p)'
  BY DEF LocksOnTheirWay
<1>0. /\ PermTypeOK /\ RoomUp /\ SilentOutside /\ CameraNotGranted
      /\ p \in present /\ p \notin excused => OnItsWay(p)
      /\ pass \in [Participants -> SUBSET Locks] /\ present \subseteq Participants
      /\ perm \in [Participants -> SUBSET Source] /\ live \in [Participants -> SUBSET Governed]
      /\ request \in [PermRequests -> PermRequest]
      /\ p \in Participants /\ p \notin Exempt
  BY DEF IInv, PermTypeOK, Participants, LocksOnTheirWay
<1> USE DEF people, blame, livekitRoom
\* The steps of requests that owe nothing, and give p nothing.
<1>a. ASSUME p \in present, p \notin excused, lockRow' = lockRow,
             perm'[p] \cap Governed \subseteq perm[p], live'[p] \subseteq live[p],
             NEW r \in PermRequests, ~Owed(r, p) /\ ~Cutting(r, p),
             \A q \in PermRequests \ {r} : request'[q] = request[q]
      PROVE OnItsWay(p)'
  BY <1>0, <1>a, WayKept
<1>b. ASSUME p \in present, p \notin excused, lockRow' = lockRow,
             perm'[p] \cap Governed \subseteq perm[p], live'[p] \subseteq live[p], UNCHANGED request
      PROVE OnItsWay(p)'
  BY <1>0, <1>b, WayKept
<1>1. CASE RoomGone
  BY <1>1, <1>b DEF RoomGone
<1>2. ASSUME NEW q \in Participants, Connect(q) PROVE OnItsWay(p)'
  <2>1. CASE q = p
    <3>1. PICK k \in pass[p] : /\ perm' = [perm EXCEPT ![p] = TokenSources(p, k)]
                              /\ excused' = IF k = lockRow THEN excused \ {p} ELSE excused \cup {p}
      BY <1>2, <2>1 DEF Connect
    <3>2. k = lockRow
      BY <3>1
    <3>3. perm'[p] = Unlocked(lockRow) /\ live'[p] = {} /\ lockRow' = lockRow
      BY <1>0, <1>2, <2>1, <3>1, <3>2 DEF Connect, TokenSources, SilentOutside
    <3> QED
      BY <3>3 DEF OnItsWay, RightsHold, SoundHolds, Unlocked
  <2>2. CASE q # p
    BY <1>0, <1>2, <1>b, <2>2 DEF Connect
  <2> QED
    BY <2>1, <2>2
<1>3. ASSUME NEW q \in Participants, Leave(q) PROVE OnItsWay(p)'
  BY <1>0, <1>3, <1>b DEF Leave
<1>4. ASSUME NEW q \in Participants, NEW s \in Governed, MuteTrack(q, s) PROVE OnItsWay(p)'
  <2>1. live'[p] \subseteq live[p]
    BY <1>0, <1>4 DEF MuteTrack
  <2> QED
    BY <1>4, <1>b, <2>1 DEF MuteTrack
<1>5. ASSUME NEW q \in Participants, NEW s \in Governed, PublishTrack(q, s) PROVE OnItsWay(p)'
  <2>0. /\ p \in present /\ p \notin excused /\ OnItsWay(p)
        /\ UNCHANGED <<lockRow, perm, request>>
    BY <1>0, <1>5 DEF PublishTrack
  <2>1. CASE q # p
    BY <1>0, <1>5, <1>b, <2>0, <2>1 DEF PublishTrack
  <2>2. CASE q = p
    <3>1. /\ s \in perm[p] /\ live'[p] = live[p] \cup {s}
          /\ \A r \in PermRequests : request[r].op \in {"settings", "cut"} => ~request[r].row[s]
      BY <1>0, <1>5, <2>2 DEF PublishTrack
    <3>2. Unlocked(lockRow)' = Unlocked(lockRow)
      BY <2>0 DEF Unlocked
    <3>3. CASE RightsHold(p) /\ SoundHolds(p)
      BY <2>0, <3>1, <3>2, <3>3 DEF OnItsWay, RightsHold, SoundHolds
    <3>4. ASSUME NEW r \in PermRequests, Owed(r, p) PROVE OnItsWay(p)'
      BY <2>0, <3>4 DEF OnItsWay, Owed, Fresh
    <3>5. ASSUME NEW r \in PermRequests, RightsHold(p), Cutting(r, p) PROVE OnItsWay(p)'
      <4>1. s \in Unlocked(lockRow)
        BY <3>1, <3>5 DEF Cutting, Fresh, Unlocked
      <4>2. Cutting(r, p)'
        BY <2>0, <3>1, <3>2, <3>5, <4>1 DEF Cutting, Fresh
      <4>3. RightsHold(p)'
        BY <2>0, <3>2, <3>5 DEF RightsHold
      <4> QED
        BY <4>2, <4>3 DEF OnItsWay
    <3> QED
      BY <2>0, <3>3, <3>4, <3>5 DEF OnItsWay
  <2> QED
    BY <2>1, <2>2
<1>6. ASSUME NEW r \in PermRequests,
             \/ \E q \in Participants : JoinRoomRead(r, q)
             \/ CreateRoomToken(r)
             \/ \E q \in Participants, t \in Targets, give \in BOOLEAN : PublishSourcesRead(r, q, t, give)
             \/ \E s \in Governed : MuteAllList(r, s)
      PROVE OnItsWay(p)'
  <2>1. request[r].op \notin {"settings", "cut"} /\ \E x : Goes(r, x)
    BY <1>6 DEF JoinRoomRead, CreateRoomToken, PublishSourcesRead, MuteAllList, Free, Ends
  <2>2. UNCHANGED <<present, excused, lockRow, perm, live>>
    BY <1>6 DEF JoinRoomRead, CreateRoomToken, PublishSourcesRead, MuteAllList
  <2> QED
    BY <1>0, <1>a, <2>1, <2>2, GoesEffect, OnlySettingsOwe
<1>7. ASSUME NEW r \in PermRequests, SyncOnJoin(r) PROVE OnItsWay(p)'
  BY <1>0, <1>7, <1>a, SyncJoinEffect, OnlySettingsOwe DEF SyncOnJoin
<1>8. ASSUME NEW r \in PermRequests, NEW lock \in {"mic", "cam", "chat"}, SettingsWrite(r, lock)
      PROVE OnItsWay(p)'
  <2> DEFINE y == [op |-> "settings", step |-> "list", row |-> lockRow', todo |-> {}]
  <2>1. request'[r] = y
    BY <1>0, <1>8, GoesEffect DEF SettingsWrite
  <2>2. y.op = "settings" /\ y.step = "list" /\ y.row = lockRow'
    OBVIOUS
  <2> HIDE DEF y
  <2>3. Owed(r, p)'
    BY <2>1, <2>2 DEF Owed, Fresh
  <2> QED
    BY <2>3 DEF OnItsWay
<1>9. ASSUME NEW r \in PermRequests, SettingsList(r) PROVE OnItsWay(p)'
  <2>0. UNCHANGED <<lockRow, livekitUp, present, perm, live, excused>>
    BY <1>9 DEF SettingsList
  <2>1. CASE Fresh(r)
    <3>1. livekitUp
      BY <1>0, <2>0 DEF RoomUp
    <3>2. Owed(r, p)'
      BY <1>0, <1>9, <2>0, <2>1, <3>1, ListEffect DEF Owed, Fresh
    <3> QED
      BY <3>2 DEF OnItsWay
  <2>2. CASE ~Fresh(r)
    BY <1>0, <1>9, <1>a, <2>0, <2>2, ListEffect DEF Owed, Cutting
  <2> QED
    BY <2>1, <2>2
<1>10. ASSUME NEW r \in PermRequests, SettingsPush(r) PROVE OnItsWay(p)'
  <2>0. /\ request[r].op = "settings" /\ request[r].step = "push"
        /\ \A q \in PermRequests \ {r} : request'[q] = request[q]
        /\ UNCHANGED <<lockRow, present, live>>
    BY <1>0, <1>10, PushEffect
  <2>1. PICK x \in request[r].todo :
          /\ x.p \in Participants
          /\ \/ /\ excused' = excused \cup {y.p : y \in request[r].todo}
                /\ UNCHANGED perm
             \/ /\ request'[r].op = "cut"
                /\ request'[r].row = request[r].row
                /\ request'[r].now = x
                /\ request'[r].todo = request[r].todo \ {x}
                /\ perm' = [perm EXCEPT ![x.p] = Policy(x.perm, request[r].row)]
                /\ excused' = IF request[r].row = lockRow /\ live[x.p] \subseteq x.live
                                THEN excused \ {x.p} ELSE excused \cup {x.p}
    BY <1>0, <1>10, PushEffect
  <2>2. CASE excused' = excused \cup {y.p : y \in request[r].todo} /\ UNCHANGED perm
    <3>1. ~Owed(r, p) /\ ~Cutting(r, p)
      BY <2>0, <2>2 DEF Owed, Cutting
    <3> QED
      BY <1>a, <2>0, <2>2, <3>1
  <2>3. CASE /\ request'[r].op = "cut"
             /\ request'[r].row = request[r].row
             /\ request'[r].now = x
             /\ request'[r].todo = request[r].todo \ {x}
             /\ perm' = [perm EXCEPT ![x.p] = Policy(x.perm, request[r].row)]
             /\ excused' = IF request[r].row = lockRow /\ live[x.p] \subseteq x.live
                             THEN excused \ {x.p} ELSE excused \cup {x.p}
    <3>1. CASE x.p = p
      <4>1. request[r].row = lockRow /\ live[p] \subseteq x.live
        BY <2>3, <3>1
      <4>2. perm'[p] = Policy(x.perm, lockRow)
        BY <1>0, <2>3, <3>1, <4>1
      <4>3. RightsHold(p)'
        BY <2>0, <4>2 DEF RightsHold, Policy, Unlocked
      <4>4. Cutting(r, p)'
        BY <2>0, <2>3, <3>1, <4>1 DEF Cutting, Fresh
      <4> QED
        BY <4>3, <4>4 DEF OnItsWay
    <3>2. CASE x.p # p
      <4>1. p \in present /\ p \notin excused /\ perm'[p] = perm[p] /\ live'[p] = live[p] /\ lockRow' = lockRow
        BY <1>0, <2>0, <2>1, <2>3, <3>2
      <4>2. CASE Owed(r, p)
        <5>1. Owed(r, p)'
          BY <2>0, <2>3, <3>2, <4>2 DEF Owed, Fresh
        <5> QED
          BY <5>1 DEF OnItsWay
      <4>3. CASE ~Owed(r, p)
        <5>1. ~Cutting(r, p)
          BY <2>0 DEF Cutting
        <5> QED
          BY <1>a, <2>0, <4>1, <4>3, <5>1
      <4> QED
        BY <4>2, <4>3
    <3> QED
      BY <3>1, <3>2
  <2> QED
    BY <2>1, <2>2, <2>3
<1>11. ASSUME NEW r \in PermRequests, SettingsCut(r) PROVE OnItsWay(p)'
  <2>0. /\ request[r].op = "cut"
        /\ \A q \in PermRequests \ {r} : request'[q] = request[q]
        /\ UNCHANGED <<lockRow, present, perm>>
    BY <1>0, <1>11, CutEffect
  <2>1. CASE /\ request[r].now.p \notin present
             /\ excused' = excused \cup {y.p : y \in request[r].todo}
             /\ UNCHANGED live
    <3>1. ~Owed(r, p) /\ ~Cutting(r, p)
      BY <2>0, <2>1 DEF Owed, Cutting
    <3> QED
      BY <1>a, <2>0, <2>1, <3>1
  <2>2. CASE /\ request'[r].op = "settings"
             /\ request'[r].step = "push"
             /\ request'[r].row = request[r].row
             /\ request'[r].todo = request[r].todo
             /\ live' = [live EXCEPT ![request[r].now.p] = @ \ {s \in request[r].now.live : request[r].row[s]}]
             /\ UNCHANGED <<excused, metaBehind>>
    <3>0. p \in present /\ p \notin excused /\ live'[p] \subseteq live[p]
      BY <1>0, <2>0, <2>2
    <3>1. CASE Owed(r, p)
      <4>1. Owed(r, p)'
        BY <2>0, <2>2, <3>1 DEF Owed, Fresh
      <4> QED
        BY <4>1 DEF OnItsWay
    <3>2. CASE RightsHold(p) /\ Cutting(r, p)
      <4>1. /\ live'[p] = live[p] \ {s \in request[r].now.live : request[r].row[s]}
            /\ request[r].row = lockRow
            /\ live[p] \subseteq request[r].now.live \cup Unlocked(lockRow)
        BY <1>0, <2>2, <3>2 DEF Cutting, Fresh
      <4>2. live'[p] \subseteq Unlocked(lockRow)
        BY <1>0, <4>1 DEF Unlocked
      <4>3. RightsHold(p)' /\ SoundHolds(p)'
        BY <2>0, <3>2, <4>2 DEF RightsHold, SoundHolds, Unlocked
      <4> QED
        BY <4>3 DEF OnItsWay
    <3>3. CASE ~Owed(r, p) /\ ~Cutting(r, p)
      BY <1>a, <2>0, <3>0, <3>3
    <3>4. CASE ~Owed(r, p) /\ ~RightsHold(p)
      <4>1. PICK q \in PermRequests : Owed(q, p)
        BY <1>0, <3>0, <3>4 DEF OnItsWay
      <4>2. request'[q] = request[q]
        BY <2>0, <3>4, <4>1
      <4>3. Owed(q, p)'
        BY <2>0, <4>1, <4>2 DEF Owed, Fresh
      <4> QED
        BY <4>3 DEF OnItsWay
    <3> QED
      BY <3>1, <3>2, <3>3, <3>4
  <2> QED
    BY <1>0, <1>11, <2>1, <2>2, CutEffect
<1>12. ASSUME NEW r \in PermRequests, SettingsSync(r) PROVE OnItsWay(p)'
  <2>1. ~Owed(r, p) /\ ~Cutting(r, p)
    BY <1>12 DEF SettingsSync, Owed, Cutting
  <2> QED
    BY <1>0, <1>12, <1>a, <2>1, EndsEffect DEF SettingsSync
<1>13. ASSUME NEW r \in PermRequests, PublishSourcesWrite(r) PROVE OnItsWay(p)'
  <2>0. /\ request[r].op = "grant" /\ present' = present /\ live' = live /\ lockRow' = lockRow
        /\ p \notin excused
        /\ \A q \in PermRequests \ {r} : request'[q] = request[q]
    BY <1>0, <1>13, EndsEffect DEF PublishSourcesWrite
  <2>1. perm'[p] \cap Governed \subseteq perm[p]
    <3>1. CASE request[r].seen.p # p
      BY <1>0, <1>13, <3>1 DEF PublishSourcesWrite
    <3>2. CASE request[r].seen.p = p
      <4>1. /\ perm'[p] = NewSources(request[r])
            /\ request[r].seen.perm = perm[p]
            /\ ~(request[r].give /\ "mic" \in request[r].sources)
        BY <1>0, <1>13, <2>0, <3>2 DEF PublishSourcesWrite
      <4>2. "cam" \notin request[r].sources
        BY <1>0, <2>0 DEF CameraNotGranted
      <4> QED
        BY <4>1, <4>2 DEF NewSources, Governed
    <3> QED
      BY <3>1, <3>2
  <2> QED
    BY <1>a, <2>0, <2>1, OnlySettingsOwe
<1>14. ASSUME NEW r \in PermRequests, MuteAllCut(r) PROVE OnItsWay(p)'
  BY <1>0, <1>14, <1>a, MuteEffect, OnlySettingsOwe DEF MuteAllCut
<1>15. CASE UNCHANGED permVars
  BY <1>15, <1>b DEF permVars
<1> QED
  BY <1>1, <1>2, <1>3, <1>4, <1>5, <1>6, <1>7, <1>8, <1>9, <1>10, <1>11, <1>12, <1>13, <1>14, <1>15 DEF PermNext

-----------------------------------------------------------------------------
(* The metadata                                                             *)

\* A step that writes no metadata, excuses nobody anew and goes on with its push.
LEMMA MetaKept ==
  ASSUME MetaOnItsWay, UNCHANGED <<metaBehind, lockRow, roomMeta>>,
         \A p \in present' \ excused' : p \in present \ excused /\ pass'[p] = pass[p],
         \A r \in PermRequests : Fresh(r) => Fresh(r)'
  PROVE MetaOnItsWay'
BY DEF MetaOnItsWay, Meta

LEMMA MetaStep == IInv /\ [PermNext]_permVars => MetaOnItsWay'
<1> SUFFICES ASSUME IInv, [PermNext]_permVars PROVE MetaOnItsWay'
  OBVIOUS
<1>0. /\ PermTypeOK /\ RoomUp /\ OneToken /\ MetaOnItsWay
      /\ pass \in [Participants -> SUBSET Locks] /\ present \subseteq Participants
      /\ request \in [PermRequests -> PermRequest] /\ lockRow \in Locks
  BY DEF IInv, PermTypeOK
<1> USE DEF people, blame, livekitRoom
<1>a. ASSUME UNCHANGED <<metaBehind, lockRow, roomMeta>>,
             \A p \in present' \ excused' : p \in present \ excused /\ pass'[p] = pass[p],
             NEW r \in PermRequests, ~Fresh(r), \A q \in PermRequests \ {r} : request'[q] = request[q]
      PROVE MetaOnItsWay'
  <2>1. \A q \in PermRequests : Fresh(q) => Fresh(q)'
    BY <1>a DEF Fresh
  <2> QED
    BY <1>0, <1>a, <2>1, MetaKept
<1>b. ASSUME NEW r \in PermRequests, request'[r].op \in {"settings", "cut"}, request'[r].row = lockRow'
      PROVE MetaOnItsWay'
  BY <1>b DEF MetaOnItsWay, Fresh
<1>c. \A k \in Locks : k.chat = lockRow.chat => Meta(k) = Meta(lockRow)
  BY DEF Meta
<1>1. CASE RoomGone
  BY <1>1 DEF RoomGone, MetaOnItsWay
<1>2. ASSUME NEW p \in Participants, Connect(p) PROVE MetaOnItsWay'
  <2>1. PICK k \in pass[p] : excused' = IF k = lockRow THEN excused \ {p} ELSE excused \cup {p}
    BY <1>2 DEF Connect
  <2>2. /\ UNCHANGED <<metaBehind, lockRow, roomMeta, request, pass>>
        /\ present' = present \cup {p}
    BY <1>2 DEF Connect
  <2>3. \A q \in present' \ excused' : q \in present \ excused \/ (q = p /\ \A l \in pass[p] : l = lockRow)
    BY <1>0, <2>1, <2>2 DEF OneToken
  <2>4. (\E r \in PermRequests : Fresh(r)) => (\E r \in PermRequests : Fresh(r)')
    BY <2>2 DEF Fresh
  <2> QED
    BY <1>0, <2>2, <2>3, <2>4 DEF MetaOnItsWay, Meta
<1>3. ASSUME NEW p \in Participants, Leave(p) PROVE MetaOnItsWay'
  BY <1>0, <1>3, MetaKept DEF Leave, Fresh
<1>4. ASSUME NEW p \in Participants, NEW s \in Governed, PublishTrack(p, s) \/ MuteTrack(p, s)
      PROVE MetaOnItsWay'
  BY <1>0, <1>4, MetaKept DEF PublishTrack, MuteTrack, Fresh
<1>5. ASSUME NEW r \in PermRequests,
             \/ \E q \in Participants : JoinRoomRead(r, q)
             \/ \E q \in Participants, t \in Targets, give \in BOOLEAN : PublishSourcesRead(r, q, t, give)
             \/ \E s \in Governed : MuteAllList(r, s)
      PROVE MetaOnItsWay'
  <2>1. ~Fresh(r) /\ \E x : Goes(r, x)
    BY <1>5 DEF JoinRoomRead, PublishSourcesRead, MuteAllList, Free, Fresh
  <2>2. UNCHANGED <<metaBehind, lockRow, roomMeta, present, excused, pass>>
    BY <1>5 DEF JoinRoomRead, PublishSourcesRead, MuteAllList
  <2> QED
    BY <1>0, <1>a, <2>1, <2>2, GoesEffect
<1>6. ASSUME NEW r \in PermRequests, SyncOnJoin(r) PROVE MetaOnItsWay'
  <2>1. request[r].row \in Locks
    BY <1>0, <1>6 DEF SyncOnJoin, PermRequest
  <2> QED
    BY <1>0, <1>6, <1>c, <2>1 DEF SyncOnJoin, MetaOnItsWay, Meta
<1>7. ASSUME NEW r \in PermRequests, CreateRoomToken(r) PROVE MetaOnItsWay'
  <2>1. request[r].who \notin present /\ ~Fresh(r)
    BY <1>0, <1>7 DEF CreateRoomToken, OneToken, Fresh
  <2>2. \A p \in present : pass'[p] = pass[p]
    BY <1>0, <1>7, <2>1 DEF CreateRoomToken
  <2> QED
    BY <1>0, <1>7, <1>a, <2>1, <2>2, EndsEffect DEF CreateRoomToken
<1>8. ASSUME NEW r \in PermRequests, NEW lock \in {"mic", "cam", "chat"}, SettingsWrite(r, lock)
      PROVE MetaOnItsWay'
  <2> DEFINE y == [op |-> "settings", step |-> "list", row |-> lockRow', todo |-> {}]
  <2>1. request'[r] = y
    BY <1>0, <1>8, GoesEffect DEF SettingsWrite
  <2>2. y.op = "settings" /\ y.row = lockRow'
    OBVIOUS
  <2> HIDE DEF y
  <2> QED
    BY <1>b, <2>1, <2>2
<1>9. ASSUME NEW r \in PermRequests, SettingsList(r) PROVE MetaOnItsWay'
  <2>1. UNCHANGED <<metaBehind, lockRow, roomMeta, present, excused, pass>>
    BY <1>9 DEF SettingsList
  <2>2. CASE Fresh(r)
    BY <1>0, <1>9, <1>b, <2>1, <2>2, ListEffect DEF Fresh
  <2>3. CASE ~Fresh(r)
    BY <1>0, <1>9, <1>a, <2>1, <2>3, ListEffect
  <2> QED
    BY <2>2, <2>3
<1>10. ASSUME NEW r \in PermRequests, SettingsPush(r) PROVE MetaOnItsWay'
  <2>1. CASE Fresh(r) /\ request'[r].op = "cut"
    BY <1>0, <1>10, <1>b, <2>1, PushEffect DEF Fresh
  <2>2. CASE ~Fresh(r) /\ request'[r].op = "cut"
    <3>1. request[r].row # lockRow
      BY <1>0, <1>10, <2>2, PushEffect DEF Fresh
    <3>2. \E q \in Participants : excused' = excused \cup {q} /\ UNCHANGED metaBehind
      BY <1>0, <1>10, <2>2, <3>1, PushEffect
    <3> QED
      BY <1>0, <1>10, <1>a, <2>2, <3>2, PushEffect
  <2>3. CASE metaBehind'
    BY <2>3 DEF MetaOnItsWay
  <2> QED
    BY <1>0, <1>10, <2>1, <2>2, <2>3, PushEffect
<1>11. ASSUME NEW r \in PermRequests, SettingsCut(r) PROVE MetaOnItsWay'
  <2>1. CASE Fresh(r) /\ request'[r].op = "settings"
    BY <1>0, <1>11, <1>b, <2>1, CutEffect DEF Fresh
  <2>2. CASE ~Fresh(r) /\ request'[r].op = "settings"
    BY <1>0, <1>11, <1>a, <2>2, CutEffect
  <2>3. CASE metaBehind'
    BY <2>3 DEF MetaOnItsWay
  <2> QED
    BY <1>0, <1>11, <2>1, <2>2, <2>3, CutEffect
<1>12. ASSUME NEW r \in PermRequests, SettingsSync(r) PROVE MetaOnItsWay'
  <2>1. CASE livekitUp
    <3>1. request[r].row \in Locks
      BY <1>0, <1>12 DEF SettingsSync, PermRequest
    <3> QED
      BY <1>0, <1>12, <1>c, <2>1, <3>1 DEF SettingsSync, MetaOnItsWay, Meta
  <2>2. CASE ~livekitUp
    BY <1>0, <1>12, <2>2 DEF SettingsSync, RoomUp, MetaOnItsWay
  <2> QED
    BY <2>1, <2>2
<1>13. ASSUME NEW r \in PermRequests, PublishSourcesWrite(r) PROVE MetaOnItsWay'
  <2>1. ~Fresh(r) /\ excused \subseteq excused' /\ UNCHANGED <<metaBehind, lockRow, roomMeta, present, pass>>
    BY <1>13 DEF PublishSourcesWrite, Fresh
  <2> QED
    BY <1>0, <1>13, <1>a, <2>1, EndsEffect DEF PublishSourcesWrite
<1>14. ASSUME NEW r \in PermRequests, MuteAllCut(r) PROVE MetaOnItsWay'
  BY <1>0, <1>14, <1>a, MuteEffect DEF MuteAllCut, Fresh
<1>15. CASE UNCHANGED permVars
  BY <1>0, <1>15, MetaKept DEF permVars, Fresh
<1> QED
  BY <1>1, <1>2, <1>3, <1>4, <1>5, <1>6, <1>7, <1>8, <1>9, <1>10, <1>11, <1>12, <1>13, <1>14, <1>15 DEF PermNext

-----------------------------------------------------------------------------
(* The theorems                                                             *)

LEMMA IndStep == IInv /\ [PermNext]_permVars => IInv'
BY TypeStep, RoomUpStep, SilentStep, TokenStep, TargetsStep, CameraStep, GrantedStep, LocksStep, MetaStep DEF IInv

LEMMA Inductive == PermSpec => []IInv
BY IndInit, IndStep, PTL DEF PermSpec

LEMMA InvHonours == IInv => LocksHonoured
<1> SUFFICES ASSUME IInv PROVE LocksHonoured
  OBVIOUS
<1>1. LocksHold
  <2>1. ~Pushing => \A p : \A r \in PermRequests : ~Owed(r, p) /\ ~Cutting(r, p)
    BY DEF Pushing, Owed, Cutting, Fresh
  <2> QED
    BY <2>1 DEF IInv, LocksOnTheirWay, OnItsWay, LocksHold, RightsHold, SoundHolds
<1>2. InteractionLocksShown
  <2> SUFFICES ASSUME ~Pushing, ~metaBehind, NEW p \in present \ excused
               PROVE ShownLock(p) = {Meta(lockRow)}
    BY DEF InteractionLocksShown
  <2>1. ~\E r \in PermRequests : Fresh(r)
    BY DEF Pushing, Fresh
  <2>2. Meta(lockRow) # "none"
    BY DEF Meta
  <2>3. CASE roomMeta = Meta(lockRow)
    BY <2>2, <2>3 DEF ShownLock
  <2>4. CASE roomMeta = "none" /\ \A k \in pass[p] : k = lockRow
    <3>1. pass[p] = {lockRow}
      BY <2>4 DEF IInv, OneToken
    <3> QED
      BY <2>4, <3>1 DEF ShownLock
  <2> QED
    BY <2>1, <2>3, <2>4 DEF IInv, MetaOnItsWay
<1>3. CameraNeedsUnlock
  BY DEF IInv, CameraClosed, NoCameraHeld, CameraNeedsUnlock
<1> QED
  BY <1>1, <1>2, <1>3 DEF LocksHonoured

\* In every reachable state the locks of the room are honoured: once no push is
\* under way, nobody but those excused holds or publishes a locked source, or is
\* shown other locks than the row's, and no viewer has a camera before it is unlocked.
THEOREM LocksAreHonoured == PermSpec => []LocksHonoured
BY Inductive, InvHonours, PTL

\* No push, cut or general mute changes the rights or tracks of a moderator or a stream.
THEOREM ModeratorsAreSpared == PermSpec => ModeratorsSpared
<1> DEFINE Spared == \A r \in PermRequests :
                       (request[r].op \in {"settings", "cut", "muteAll"} /\ request'[r] # request[r])
                         => \A p \in Exempt : perm'[p] = perm[p] /\ live'[p] = live[p]
<1>1. IInv /\ [PermNext]_permVars => [Spared]_permVars
  <2> SUFFICES ASSUME IInv, [PermNext]_permVars, NEW r \in PermRequests, NEW p \in Exempt,
                      request[r].op \in {"settings", "cut", "muteAll"}, request'[r] # request[r]
               PROVE perm'[p] = perm[p] /\ live'[p] = live[p]
    OBVIOUS
  <2>0. /\ PermTypeOK /\ OnlyViewersTargeted /\ p \in Participants
        /\ perm \in [Participants -> SUBSET Source] /\ live \in [Participants -> SUBSET Governed]
    BY DEF IInv, PermTypeOK, Participants
  <2> USE DEF people
  <2>1. ASSUME NEW q \in PermRequests, request[q].op \in {"join", "idle", "grant"},
               \A o \in PermRequests \ {q} : request'[o] = request[o]
        PROVE FALSE
    BY <2>1
  <2>2. ASSUME NEW q \in PermRequests,
               \/ \E o \in Participants : JoinRoomRead(q, o)
               \/ CreateRoomToken(q) \/ PublishSourcesWrite(q)
               \/ \E lock \in {"mic", "cam", "chat"} : SettingsWrite(q, lock)
               \/ \E o \in Participants, t \in Targets, give \in BOOLEAN : PublishSourcesRead(q, o, t, give)
               \/ \E s \in Governed : MuteAllList(q, s)
        PROVE FALSE
    <3>1. request[q].op \in {"join", "idle", "grant"} /\ \E x : Goes(q, x)
      BY <2>2 DEF JoinRoomRead, CreateRoomToken, PublishSourcesWrite, SettingsWrite, PublishSourcesRead,
                  MuteAllList, Free, Ends
    <3> QED
      BY <2>0, <2>1, <3>1, GoesEffect
  <2>3. ASSUME NEW q \in PermRequests, SyncOnJoin(q) PROVE FALSE
    BY <2>0, <2>1, <2>3, SyncJoinEffect
  <2>4. ASSUME NEW q \in PermRequests, SettingsList(q) \/ SettingsSync(q)
        PROVE perm'[p] = perm[p] /\ live'[p] = live[p]
    BY <2>4 DEF SettingsList, SettingsSync
  <2>5. ASSUME NEW q \in PermRequests, SettingsPush(q) PROVE perm'[p] = perm[p] /\ live'[p] = live[p]
    BY <2>0, <2>5, PushEffect DEF OnlyViewersTargeted
  <2>6. ASSUME NEW q \in PermRequests, SettingsCut(q) PROVE perm'[p] = perm[p] /\ live'[p] = live[p]
    BY <2>0, <2>6, CutEffect DEF OnlyViewersTargeted
  <2>7. ASSUME NEW q \in PermRequests, MuteAllCut(q) PROVE perm'[p] = perm[p] /\ live'[p] = live[p]
    <3>1. p \notin request[q].todo
      BY <2>0, <2>7, MuteEffect DEF OnlyViewersTargeted
    <3> QED
      BY <2>0, <2>7, <3>1, MuteEffect DEF MuteAllCut
  <2>8. CASE UNCHANGED request
    BY <2>8
  <2> QED
    BY <2>2, <2>3, <2>4, <2>5, <2>6, <2>7, <2>8
       DEF PermNext, permVars, RoomGone, Connect, Leave, PublishTrack, MuteTrack
<1> QED
  BY <1>1, Inductive, PTL DEF PermSpec, ModeratorsSpared
=============================================================================
