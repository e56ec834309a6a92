---------------------------- MODULE Permissions ----------------------------
(***************************************************************************)
(* Publishing rights in a live room: what the token grants on entry, what  *)
(* a manager grants or takes back afterwards, and the locks of the room,   *)
(* which RoomsService.updateSettings writes in the row and then pushes to  *)
(* everyone connected, one LiveKit call at a time.  Every await of a       *)
(* handler is a step of its own; several requests run at once.             *)
(*                                                                         *)
(* Sources: "screen" stands for SCREEN_SHARE and SCREEN_SHARE_AUDIO, which *)
(* the code always grants together; the lock "chat" stands for the three   *)
(* interaction locks, which travel together in the room's metadata.        *)
(***************************************************************************)
EXTENDS Naturals, FiniteSets

CONSTANTS
  Viewers,      \* participants without moderation rights
  Exempt,       \* moderators, and the participants an OBS stream creates
  PermRequests, \* slots for the HTTP requests in flight
  MaxActs       \* bound on requests, departures and mutes, together

\* Exempt from the locks is exactly who is not a plain viewer.
ASSUME PermAssumption == MaxActs \in Nat /\ Viewers \cap Exempt = {}

VARIABLES
  lockRow,      \* the locks in the room's row
  livekitUp,    \* the room exists in LiveKit
  roomMeta,     \* the metadata of that room: "none", or the chat lock
  pass,         \* pass[p]: the row p's token was made from, none without a token
  present,      \* who is connected
  perm,         \* perm[p]: canPublishSources
  live,         \* live[p]: the microphone and camera p publishes unmuted
  request,      \* the requests in flight
  acts,         \* how many of these there were
  excused,      \* whose rights may differ from the locks, and metaBehind: the
  metaBehind,   \*   metadata may differ from the row; why is said where they grow
  cameraOpened  \* the camera lock was lifted at least once

permVars == <<lockRow, livekitUp, roomMeta, pass, present, perm, live, request,
              acts, excused, metaBehind, cameraOpened>>
livekitRoom == <<livekitUp, roomMeta>>
people      == <<pass, present, perm, live>>
blame       == <<excused, metaBehind, cameraOpened>>

Participants == Viewers \cup Exempt
Source   == {"mic", "cam", "screen"}
Governed == {"mic", "cam"}   \* the sources a lock of the room governs
Locks   == [mic : BOOLEAN, cam : BOOLEAN, chat : BOOLEAN]
Snapshot == [p : Participants, perm : SUBSET Source, live : SUBSET Governed]
Meta(locks) == IF locks.chat THEN "locked" ELSE "open"

PermRequest ==
  [op : {"idle"}]
    \cup [op : {"join"}, who : Participants, row : Locks, synced : BOOLEAN]
    \cup [op : {"settings"}, step : {"list", "push", "sync"}, row : Locks, todo : SUBSET Snapshot]
    \cup [op : {"cut"}, row : Locks, now : Snapshot, todo : SUBSET Snapshot]
    \cup [op : {"grant"}, seen : Snapshot, sources : SUBSET Source, give : BOOLEAN]
    \cup [op : {"muteAll"}, source : Governed, todo : SUBSET Participants]

PermTypeOK ==
  /\ lockRow \in Locks
  /\ livekitUp \in BOOLEAN
  /\ roomMeta \in {"none", "open", "locked"}
  /\ pass \in [Participants -> SUBSET Locks]
  /\ present \subseteq Participants
  /\ perm \in [Participants -> SUBSET Source]
  /\ live \in [Participants -> SUBSET Governed]
  /\ request \in [PermRequests -> PermRequest]
  /\ acts \in 0..MaxActs
  /\ excused \subseteq Participants
  /\ metaBehind \in BOOLEAN
  /\ cameraOpened \in BOOLEAN

PermInit ==
  /\ lockRow = [mic |-> TRUE, cam |-> TRUE, chat |-> FALSE]
  /\ livekitUp = FALSE
  /\ roomMeta = "none"
  /\ pass = [p \in Participants |-> {}]
  /\ present = {}
  /\ perm = [p \in Participants |-> {}]
  /\ live = [p \in Participants |-> {}]
  /\ request = [r \in PermRequests |-> [op |-> "idle"]]
  /\ acts = 0
  /\ excused = {}
  /\ metaBehind = FALSE
  /\ cameraOpened = FALSE

Free(r)  == request[r].op = "idle"
Goes(r, x) == request' = [request EXCEPT ![r] = x]
Ends(r)  == Goes(r, [op |-> "idle"])

Act == acts < MaxActs /\ acts' = acts + 1

\* The buttons of the participants' list: the floor and the screen are offered for
\* neither moderators nor OBS streams.
Offered(p) == p \notin Exempt

\* What a lock policy leaves to a participant.
Unlocked(locks) == {s \in Governed : ~locks[s]}
PolicyOnlyAdds(sources, locks) == sources \cup Unlocked(locks)   \* mutant: a lock takes nothing back
Policy(sources, locks) == (sources \ Governed) \cup Unlocked(locks)

-----------------------------------------------------------------------------
(* Entering and leaving.  The token is made from the row read at the start  *)
(* of the request, and used when the browser connects.                      *)

JoinRoomRead(r, p) ==
  /\ Free(r)
  /\ Act
  /\ p \notin present
  /\ pass[p] = {}
  /\ \A q \in PermRequests : request[q].op = "join" => request[q].who # p
  /\ Goes(r, [op |-> "join", who |-> p, row |-> lockRow, synced |-> FALSE])
  /\ UNCHANGED <<lockRow, livekitRoom, people, blame>>

\* A moderator's join creates the LiveKit room if need be and writes in it the
\* locks of the row it has read, which may have changed since.
SyncOnJoin(r) ==
  /\ request[r].op = "join"
  /\ request[r].who \in Exempt
  /\ ~request[r].synced
  /\ livekitUp' = TRUE
  /\ roomMeta' = Meta(request[r].row)
  /\ metaBehind' = (request[r].row.chat # lockRow.chat)
  /\ Goes(r, [request[r] EXCEPT !.synced = TRUE])
  /\ UNCHANGED <<lockRow, people, acts, excused, cameraOpened>>

CreateRoomToken(r) ==
  /\ request[r].op = "join"
  /\ request[r].who \in Exempt => request[r].synced
  /\ pass' = [pass EXCEPT ![request[r].who] = {request[r].row}]
  /\ Ends(r)
  /\ UNCHANGED <<lockRow, livekitRoom, present, perm, live, acts, blame>>

\* A moderator's token carries no list of sources, which means no restriction.
TokenOfAllLocks(p, locks) == {s \in DOMAIN locks : ~locks[s]}   \* mutant: a lock that is no source
TokenSources(p, locks) == IF p \in Exempt THEN Source ELSE Unlocked(locks)

\* The browser connects; LiveKit creates the room if it is gone.  Excused: the
\* token was made from locks that are no longer those of the row.
Connect(p) ==
  /\ p \notin present
  /\ \E locks \in pass[p] :
       /\ perm' = [perm EXCEPT ![p] = TokenSources(p, locks)]
       /\ excused' = IF locks = lockRow THEN excused \ {p} ELSE excused \cup {p}
  /\ present' = present \cup {p}
  /\ livekitUp' = TRUE
  /\ UNCHANGED <<lockRow, roomMeta, pass, live, request, acts, metaBehind, cameraOpened>>

Leave(p) ==
  /\ p \in present
  /\ Act
  /\ present' = present \ {p}
  /\ pass' = [pass EXCEPT ![p] = {}]
  /\ perm' = [perm EXCEPT ![p] = {}]
  /\ live' = [live EXCEPT ![p] = {}]
  /\ UNCHANGED <<lockRow, livekitRoom, request, blame>>

RoomGone ==
  /\ livekitUp
  /\ present = {}
  /\ livekitUp' = FALSE
  /\ roomMeta' = "none"
  /\ metaBehind' = FALSE
  /\ UNCHANGED <<lockRow, people, request, acts, excused, cameraOpened>>

\* Excused: a track that starts after a lock being pushed has listed the tracks.
PublishTrack(p, s) ==
  /\ p \in present
  /\ s \in perm[p] \ live[p]
  /\ live' = [live EXCEPT ![p] = @ \cup {s}]
  /\ excused' = IF \E r \in PermRequests :
                     /\ request[r].op \in {"settings", "cut"}
                     /\ request[r].row[s]
                   THEN excused \cup {p} ELSE excused
  /\ UNCHANGED <<lockRow, livekitRoom, pass, present, perm, request, acts,
                 metaBehind, cameraOpened>>

-----------------------------------------------------------------------------
(* updateSettings                                                           *)

SettingsWrite(r, lock) ==
  /\ Free(r)
  /\ Act
  /\ lockRow' = [lockRow EXCEPT ![lock] = ~@]
  /\ cameraOpened' = (cameraOpened \/ ~lockRow'.cam)
  /\ Goes(r, [op |-> "settings", step |-> "list", row |-> lockRow', todo |-> {}])
  /\ UNCHANGED <<livekitRoom, people, excused, metaBehind>>

\* applySettingsToConnectedParticipants lists the room once; a room LiveKit does
\* not know has nobody to push to.
SettingsList(r) ==
  /\ request[r].op = "settings"
  /\ request[r].step = "list"
  /\ Goes(r, [request[r] EXCEPT
                !.step = IF livekitUp THEN "push" ELSE "sync",
                !.todo = {[p |-> p, perm |-> perm[p], live |-> live[p]] : p \in present \ Exempt}])
  /\ UNCHANGED <<lockRow, livekitRoom, people, acts, blame>>

\* A call about somebody who has left is an error, which ends the request: those
\* not reached keep their rights and the metadata are not written.
SettingsFail(r, gone, unreached) ==
  /\ gone \notin present
  /\ Ends(r)
  /\ excused' = excused \cup unreached
  /\ metaBehind' = TRUE
  /\ UNCHANGED <<lockRow, livekitRoom, people, acts, cameraOpened>>

\* Excused: the lock pushed is no longer that of the row.
SettingsPush(r) ==
  /\ request[r].op = "settings"
  /\ request[r].step = "push"
  /\ \E x \in request[r].todo :
       \/ SettingsFail(r, x.p, {y.p : y \in request[r].todo})
       \/ /\ x.p \in present
          /\ perm' = [perm EXCEPT ![x.p] = Policy(x.perm, request[r].row)]
          /\ Goes(r, [op |-> "cut", row |-> request[r].row, now |-> x,
                      todo |-> request[r].todo \ {x}])
          /\ excused' = IF request[r].row = lockRow /\ live[x.p] \subseteq x.live
                          THEN excused \ {x.p} ELSE excused \cup {x.p}
          /\ UNCHANGED <<lockRow, livekitRoom, pass, present, live, acts,
                         metaBehind, cameraOpened>>

\* The tracks muted are those of the list, not those of the moment.
SettingsCut(r) ==
  /\ request[r].op = "cut"
  /\ LET x == request[r].now
         locked == {s \in x.live : request[r].row[s]}
         next == [op |-> "settings", step |-> "push", row |-> request[r].row,
                  todo |-> request[r].todo]
     IN \/ /\ locked # {}
           /\ SettingsFail(r, x.p, {y.p : y \in request[r].todo})
        \/ /\ locked # {} => x.p \in present
           /\ live' = [live EXCEPT ![x.p] = @ \ locked]
           /\ Goes(r, next)
           /\ UNCHANGED <<lockRow, livekitRoom, pass, present, perm, acts, blame>>

\* syncRoomMetadata swallows the error of a room that does not exist.
SettingsSync(r) ==
  /\ request[r].op = "settings"
  /\ \/ request[r].step = "sync"
     \/ request[r].step = "push" /\ request[r].todo = {}
  /\ roomMeta' = IF livekitUp THEN Meta(request[r].row) ELSE roomMeta
  /\ metaBehind' = (livekitUp /\ request[r].row.chat # lockRow.chat)
  /\ Ends(r)
  /\ UNCHANGED <<lockRow, livekitUp, people, acts, excused, cameraOpened>>

-----------------------------------------------------------------------------
(* Individual rights and mutes                                              *)

\* setSpeakerPermission and setPresenterPermission.
Targets == {{"mic"}, {"screen"}}

PublishSourcesRead(r, p, sources, give) ==
  /\ Free(r)
  /\ Act
  /\ p \in present
  /\ Offered(p)
  /\ Goes(r, [op |-> "grant", seen |-> [p |-> p, perm |-> perm[p], live |-> live[p]],
              sources |-> sources, give |-> give])
  /\ UNCHANGED <<lockRow, livekitRoom, people, blame>>

NewSources(x) == IF x.give THEN x.seen.perm \cup x.sources ELSE x.seen.perm \ x.sources

\* Excused: the floor is given in spite of the lock, or the rights written back
\* are not those of the moment.
PublishSourcesWrite(r) ==
  /\ request[r].op = "grant"
  /\ LET x == request[r]
         p == x.seen.p
     IN /\ Ends(r)
        /\ perm' = IF p \in present THEN [perm EXCEPT ![p] = NewSources(x)] ELSE perm
        /\ excused' = IF (x.give /\ "mic" \in x.sources) \/ x.seen.perm # perm[p]
                        THEN excused \cup {p} ELSE excused
  /\ UNCHANGED <<lockRow, livekitRoom, pass, present, live, acts, metaBehind, cameraOpened>>

\* Somebody mutes a track of p: p himself, or a manager (muteParticipant).
MuteTrack(p, s) ==
  /\ Act
  /\ s \in live[p]
  /\ live' = [live EXCEPT ![p] = @ \ {s}]
  /\ UNCHANGED <<lockRow, livekitRoom, pass, present, perm, request, blame>>

\* Mutant: everybody connected is muted.
MuteAllWithoutExemption(r, s) ==
  /\ Free(r)
  /\ Act
  /\ livekitUp
  /\ Goes(r, [op |-> "muteAll", source |-> s, todo |-> {p \in present : s \in live[p]}])
  /\ UNCHANGED <<lockRow, livekitRoom, people, blame>>

\* muteAllParticipants (the microphones) and muteAllCameras.
MuteAllList(r, s) ==
  /\ Free(r)
  /\ Act
  /\ livekitUp
  /\ Goes(r, [op |-> "muteAll", source |-> s,
              todo |-> {p \in present \ Exempt : s \in live[p]}])
  /\ UNCHANGED <<lockRow, livekitRoom, people, blame>>

MuteAllCut(r) ==
  /\ request[r].op = "muteAll"
  /\ \/ /\ request[r].todo = {}
        /\ Ends(r)
        /\ UNCHANGED live
     \/ \E p \in request[r].todo :
          /\ live' = [live EXCEPT ![p] = @ \ {request[r].source}]
          /\ IF p \in present THEN Goes(r, [request[r] EXCEPT !.todo = @ \ {p}]) ELSE Ends(r)
  /\ UNCHANGED <<lockRow, livekitRoom, pass, present, perm, acts, blame>>

PermNext ==
  \/ RoomGone
  \/ \E p \in Participants : Connect(p) \/ Leave(p)
  \/ \E p \in Participants, s \in Governed : PublishTrack(p, s) \/ MuteTrack(p, s)
  \/ \E r \in PermRequests :
       \/ \E p \in Participants : JoinRoomRead(r, p)
       \/ SyncOnJoin(r) \/ CreateRoomToken(r)
       \/ \E lock \in {"mic", "cam", "chat"} : SettingsWrite(r, lock)
       \/ SettingsList(r) \/ SettingsPush(r) \/ SettingsCut(r) \/ SettingsSync(r)
       \/ \E p \in Participants, t \in Targets, give \in BOOLEAN : PublishSourcesRead(r, p, t, give)
       \/ PublishSourcesWrite(r)
       \/ \E s \in Governed : MuteAllList(r, s)
       \/ MuteAllCut(r)

PermSpec == PermInit /\ [][PermNext]_permVars

-----------------------------------------------------------------------------
(* Properties                                                               *)

Pushing == \E r \in PermRequests : request[r].op \in {"settings", "cut"}

\* A lock is a hard constraint (the comment above applySettingsToConnected-
\* Participants): when no push is under way, nobody holds or publishes a locked
\* source, whoever came in while the lock was being pushed.  The exceptions are
\* those recorded in excused: a token older than the lock, a floor given in spite
\* of it, rights written back from a stale read, a push that an error cut short.
LocksHold ==
  ~Pushing => \A p \in (present \cap Viewers) \ excused :
                (perm[p] \cup live[p]) \cap Governed \subseteq Unlocked(lockRow)

\* What useRoomLocks shows to p: the metadata of the LiveKit room, and until
\* there are any the room as the API described it when p joined.
ShownLock(p) == IF roomMeta # "none" THEN {roomMeta} ELSE {Meta(locks) : locks \in pass[p]}

\* Once the pushes are over, everybody sees the interaction locks of the row,
\* unless the last metadata were written from an older row, or not at all.
InteractionLocksShown ==
  (~Pushing /\ ~metaBehind) => \A p \in present \ excused : ShownLock(p) = {Meta(lockRow)}

\* The camera is never given individually: as long as the lock has not been
\* lifted for the whole room, no order of tokens, grants and pushes lets a viewer
\* publish one (the comment above setSpeakerPermission).
CameraNeedsUnlock ==
  ~cameraOpened => \A p \in Viewers : "cam" \notin perm[p] \cup live[p]

\* Whatever is pushed or muted for everybody spares moderators and OBS streams.
ModeratorsSpared ==
  [][\A r \in PermRequests :
        (request[r].op \in {"settings", "cut", "muteAll"} /\ request'[r] # request[r])
          => \A p \in Exempt : perm'[p] = perm[p] /\ live'[p] = live[p]]_permVars

\* The locks of a room are honoured, in what participants may publish and in what they are shown.
LocksHonoured == LocksHold /\ InteractionLocksShown /\ CameraNeedsUnlock
=============================================================================
