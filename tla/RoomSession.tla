---------------------------- MODULE RoomSession ----------------------------
(***************************************************************************)
(* The life of a room and the attendance sheet of its meetings:             *)
(* RoomsService.join, close and remove, RoomsReconciliationService, the     *)
(* room_* and participant_* branches of LiveKitWebhookController and        *)
(* AttendanceService.                                                       *)
(*                                                                          *)
(* A room (a row of Postgres) outlives its meetings: LiveKit opens one      *)
(* session after another under the same room name, and tells the backend    *)
(* about them by webhooks only.  As in Recordings, an action is the code    *)
(* between two awaits.  One room is modelled: rooms share nothing but the   *)
(* list the cron loops on.                                                  *)
(*                                                                          *)
(* Times are represented by what tells them apart.  Each write of startedAt *)
(* is `new Date()': its value is the number of writes so far, 0 for null.   *)
(* Connections are numbered in the order of their joinedAt.                 *)
(***************************************************************************)
EXTENDS Integers, FiniteSets, Sequences

CONSTANTS
    Manager,      \* those for whom canManageRoom holds: creator, co-moderators, admins
    Viewer,       \* the others, enrolled
    Request,      \* slots for concurrent HTTP requests of users
    Courier,      \* slots for concurrent POSTs of webhooks
    Cron,         \* the slot of the reconciliation cron
    InOrder,      \* LiveKit posts webhooks in order and awaits each answer
    Outages,      \* whether listRooms may fail and the process restart
    MaxSession,   \* bound: sessions LiveKit opens
    MaxConn       \* bound: connections to LiveKit

Person == Manager \cup Viewer
Slot   == Request \cup Courier \cup {Cron}

ASSUME SlotsAreDistinct == /\ Manager \cap Viewer = {}
                           /\ Request \cap Courier = {}
                           /\ Cron \notin Request \cup Courier
ASSUME CouriersAreFinite == IsFiniteSet(Courier)
ASSUME BoundsAreNat == {MaxSession, MaxConn} \subseteq Nat
ASSUME FlagsAreBoolean == InOrder \in BOOLEAN /\ Outages \in BOOLEAN

VARIABLES
    status,     \* rooms.status, "REMOVED" once the row is gone
    startedAt,  \* rooms.startedAt
    board,      \* the session the whiteboard snapshot was drawn in, 0 if there is none
    sheet,      \* the attendance row of each connection
    open,       \* LiveKit has the room
    session,    \* LiveKit's sessions of the room so far
    conns,      \* the connections so far, oldest first
    inside,     \* those that are still up
    hooks,      \* webhooks LiveKit has to post, oldest first
    ticket,     \* persons with a token they have not used yet
    task        \* the handlers in flight

dbVars == <<status, startedAt, board, sheet>>
lkVars == <<open, session, conns, inside, hooks>>
vars   == <<dbVars, lkVars, ticket, task>>

Conn       == 1 .. MaxConn
RoomStatus == {"SCHEDULED", "LIVE", "ENDED", "REMOVED"}
RowState   == {"none", "open", "left", "deleted"}
Hook       == [event : {"room_started", "room_finished",
                        "participant_joined", "participant_left"},
               conn  : 0 .. MaxConn]     \* 0 for the events of the room

TaskState  == [op   : {"none", "join", "enter", "close", "remove", "joined", "left"},
               at   : {"idle", "create", "wipe", "reset", "presence", "list", "kill",
                       "end", "drop", "look", "record", "leave"},
               who  : Person \cup {"nobody"},
               seen : RoomStatus \cup {"none"},   \* the status the handler read
               conn : 0 .. MaxConn,               \* the connection a webhook is about
               stamp : Int]                       \* the startedAt it read

Idle == [op |-> "none", at |-> "idle", who |-> "nobody", seen |-> "none",
         conn |-> 0, stamp |-> 0]

At(t, op, at) == task[t].op = op /\ task[t].at = at
Free(t)       == task[t].at = "idle"
Go(t, s)      == task' = [task EXCEPT ![t] = s]
Done(t)       == Go(t, Idle)
Exists        == status # "REMOVED"

About(event, c) == [event |-> event, conn |-> c]
RoomEvent(event) == <<About(event, 0)>>

(* The participant_left webhooks of a set of connections, in any order.     *)
Lefts(C) == {s \in [1 .. Cardinality(C) -> {About("participant_left", c) : c \in C}] :
                \A c \in C : \E i \in DOMAIN s : s[i].conn = c}

TypeOK ==
    /\ status    \in RoomStatus
    /\ startedAt \in Nat
    /\ board     \in 0 .. MaxSession
    /\ sheet     \in [Conn -> [row : RowState, stamp : Int]]
    /\ open      \in BOOLEAN
    /\ session   \in 0 .. MaxSession
    /\ conns     \in Seq([who : Person, session : 1 .. MaxSession])
    /\ inside    \in SUBSET DOMAIN conns
    /\ hooks     \in Seq(Hook)
    /\ ticket    \in SUBSET Person
    /\ task      \in [Slot -> TaskState]
    /\ open \/ inside = {}

(* RoomsService.create: the room exists at LiveKit before its row does.     *)
Init ==
    /\ status = "SCHEDULED" /\ startedAt = 0 /\ board = 0
    /\ sheet = [c \in Conn |-> [row |-> "none", stamp |-> 0]]
    /\ open = FALSE /\ session = 0
    /\ conns = <<>> /\ inside = {} /\ hooks = <<>> /\ ticket = {}
    /\ task = [t \in Slot |-> Idle]

-----------------------------------------------------------------------------
(* LiveKit, as far as the backend relies on it.                             *)

(* The room is opened if it is not: a new session.                          *)
Opens(sent) ==
    /\ open' = TRUE
    /\ IF open THEN /\ session' = session
                    /\ hooks' = hooks \o sent
               ELSE /\ session < MaxSession
                    /\ session' = session + 1
                    /\ hooks' = hooks \o RoomEvent("room_started") \o sent

(* The room is closed, and everybody in it disconnected.                    *)
Closes ==
    /\ open' = FALSE
    /\ inside' = {}
    /\ \E lefts \in Lefts(inside) :
         hooks' = hooks \o lefts \o RoomEvent("room_finished")
    /\ UNCHANGED <<session, conns>>

(* A participant uses the token of join().  LiveKit creates the room if     *)
(* need be, and drops the connection the same identity already has.         *)
Connect(p) ==
    LET c == Len(conns) + 1
        old == {d \in inside : conns[d].who = p}
        joined == <<About("participant_joined", c)>>
    IN
    /\ p \in ticket /\ c \in Conn
    /\ \E lefts \in Lefts(old) :
         Opens(lefts \o joined) \/ (old # {} /\ Opens(joined \o lefts))
    /\ conns' = Append(conns, [who |-> p, session |-> session'])
    /\ inside' = (inside \ old) \cup {c}
    /\ ticket' = ticket \ {p}
    /\ UNCHANGED <<dbVars, task>>

(* The browser is closed, or the network is lost.                           *)
Leave(c) ==
    /\ c \in inside
    /\ inside' = inside \ {c}
    /\ hooks' = Append(hooks, About("participant_left", c))
    /\ UNCHANGED <<dbVars, open, session, conns, ticket, task>>

(* emptyTimeout: nobody has been in the room for a while.                   *)
EmptyTimeout ==
    /\ open /\ inside = {}
    /\ Closes
    /\ UNCHANGED <<dbVars, ticket, task>>

(* A participant draws, and the client saves the whiteboard.                *)
SaveBoard(c) ==
    /\ c \in inside /\ Exists
    /\ board' = conns[c].session
    /\ UNCHANGED <<status, startedAt, sheet, lkVars, ticket, task>>

-----------------------------------------------------------------------------
(* RoomsService.join, by a manager: the meeting is (re)started.  A bound:   *)
(* nobody joins while they have a token left to use.                        *)

JoinAsManager(t, p) ==
    /\ Free(t) /\ p \notin ticket
    /\ Exists
    /\ Go(t, [Idle EXCEPT !.op = "join", !.at = "create", !.who = p, !.seen = status])
    /\ UNCHANGED <<dbVars, lkVars, ticket>>

(* createRoom and syncRoomMetadata; createToken follows unless the room was *)
(* read as ended.                                                           *)
JoinCreates(t) ==
    /\ At(t, "join", "create")
    /\ Opens(<<>>)
    /\ IF task[t].seen = "ENDED"
       THEN Go(t, [task[t] EXCEPT !.at = "wipe"]) /\ UNCHANGED ticket
       ELSE Done(t) /\ ticket' = ticket \cup {task[t].who}
    /\ UNCHANGED <<dbVars, conns, inside>>

(* The whiteboard of the previous meeting is deleted.                       *)
JoinWipes(t) ==
    /\ At(t, "join", "wipe")
    /\ board' = 0
    /\ Go(t, [task[t] EXCEPT !.at = "reset"])
    /\ UNCHANGED <<status, startedAt, sheet, lkVars, ticket>>

(* The row is SCHEDULED again, whatever it has become since it was read.    *)
JoinResets(t) ==
    /\ At(t, "join", "reset")
    /\ IF Exists THEN status' = "SCHEDULED" /\ ticket' = ticket \cup {task[t].who}
                 ELSE UNCHANGED <<status, ticket>>
    /\ Done(t)
    /\ UNCHANGED <<startedAt, board, sheet, lkVars>>

(* By a viewer: a moderator must be connected.                              *)
JoinAsViewer(t, p) ==
    /\ Free(t) /\ p \notin ticket
    /\ Exists
    /\ Go(t, [Idle EXCEPT !.op = "enter", !.at = "presence", !.who = p])
    /\ UNCHANGED <<dbVars, lkVars, ticket>>

HasActiveModerator(t) ==
    /\ At(t, "enter", "presence")
    /\ ticket' = IF \E c \in inside : conns[c].who \in Manager
                 THEN ticket \cup {task[t].who} ELSE ticket
    /\ Done(t)
    /\ UNCHANGED <<dbVars, lkVars>>

-----------------------------------------------------------------------------
(* RoomsService.close, by a manager or by the cron.                         *)

CloseRequest(t) ==
    /\ Free(t) /\ Exists
    /\ Go(t, [Idle EXCEPT !.op = "close", !.at = "kill"])
    /\ UNCHANGED <<dbVars, lkVars, ticket>>

(* Mutant: an error of deleteRoom ends close().                             *)
CloseKills_Propagates(t) ==
    /\ At(t, "close", "kill")
    /\ IF open THEN Closes /\ Go(t, [task[t] EXCEPT !.at = "end"])
               ELSE Done(t) /\ UNCHANGED lkVars
    /\ UNCHANGED <<dbVars, ticket>>

(* deleteRoom; that the room is already gone does not matter.  The          *)
(* breakouts, presentations and the OBS entry are cleaned up next to it.    *)
CloseKills(t) ==
    /\ At(t, "close", "kill")
    /\ IF open THEN Closes ELSE UNCHANGED lkVars
    /\ Go(t, [task[t] EXCEPT !.at = "end"])
    /\ UNCHANGED <<dbVars, ticket>>

CloseEnds(t) ==
    /\ At(t, "close", "end")
    /\ status' = IF Exists THEN "ENDED" ELSE status
    /\ Done(t)
    /\ UNCHANGED <<startedAt, board, sheet, lkVars, ticket>>

(* RoomsReconciliationService: the LIVE rows ...                            *)
CronRead ==
    /\ Free(Cron)
    /\ status = "LIVE"
    /\ Go(Cron, [Idle EXCEPT !.op = "close", !.at = "list"])
    /\ UNCHANGED <<dbVars, lkVars, ticket>>

(* ... are compared with the rooms LiveKit has.                             *)
CronLists ==
    /\ At(Cron, "close", "list")
    /\ IF open THEN Done(Cron) ELSE Go(Cron, [task[Cron] EXCEPT !.at = "kill"])
    /\ UNCHANGED <<dbVars, lkVars, ticket>>

CronListFails ==
    /\ Outages
    /\ At(Cron, "close", "list")
    /\ Done(Cron)
    /\ UNCHANGED <<dbVars, lkVars, ticket>>

(* RoomsService.remove: refused when the row is LIVE.                       *)
RemoveRequest(t) ==
    /\ Free(t) /\ Exists
    /\ status # "LIVE"
    /\ Go(t, [Idle EXCEPT !.op = "remove", !.at = "drop"])
    /\ UNCHANGED <<dbVars, lkVars, ticket>>

(* The row goes, and by cascade its whiteboard and its attendance rows.     *)
RemoveDrops(t) ==
    /\ At(t, "remove", "drop")
    /\ status' = "REMOVED"
    /\ board' = 0
    /\ sheet' = [c \in Conn |-> [row |-> "none", stamp |-> 0]]
    /\ Done(t)
    /\ UNCHANGED <<startedAt, lkVars, ticket>>

-----------------------------------------------------------------------------
(* The webhooks.                                                            *)

(* Webhook number i is posted.  In order, one at a time; or else in any     *)
(* order, concurrently, or never.                                           *)
Post(t, i, event) ==
    /\ Free(t) /\ t \in Courier
    /\ InOrder => i = 1 /\ \A u \in Courier : Free(u)
    /\ hooks[i].event = event
    /\ hooks' = [j \in 1 .. Len(hooks) - 1 |-> hooks[IF j < i THEN j ELSE j + 1]]
    /\ UNCHANGED <<open, session, conns, inside, ticket>>

Starts == status' = "LIVE" /\ startedAt' = startedAt + 1

(* Mutant: an ENDED room is revived with the startedAt it had.              *)
RoomStarted_KeepsStart(t, i) ==
    /\ Post(t, i, "room_started")
    /\ IF status = "SCHEDULED" THEN Starts
       ELSE /\ status' = IF status = "ENDED" THEN "LIVE" ELSE status
            /\ UNCHANGED startedAt
    /\ UNCHANGED <<board, sheet, task>>

RoomStarted(t, i) ==
    /\ Post(t, i, "room_started")
    /\ IF status \in {"SCHEDULED", "ENDED"} THEN Starts ELSE UNCHANGED <<status, startedAt>>
    /\ UNCHANGED <<board, sheet, task>>

(* Mutant: the name of the event is stored.                                 *)
RoomFinished_AsIs(t, i) ==
    /\ Post(t, i, "room_finished")
    /\ status' = IF status = "LIVE" THEN "FINISHED" ELSE status
    /\ UNCHANGED <<startedAt, board, sheet, task>>

RoomFinished(t, i) ==
    /\ Post(t, i, "room_finished")
    /\ status' = IF status = "LIVE" THEN "ENDED" ELSE status
    /\ UNCHANGED <<startedAt, board, sheet, task>>

(* participant_joined stands in for a room_started that got lost ...        *)
ParticipantJoined(t, i) ==
    /\ Post(t, i, "participant_joined")
    /\ IF status = "SCHEDULED" THEN Starts ELSE UNCHANGED <<status, startedAt>>
    /\ Go(t, [Idle EXCEPT !.op = "joined", !.at = "look", !.conn = hooks[i].conn])
    /\ UNCHANGED <<board, sheet>>

(* ... then recordJoin reads the room, for the session the row belongs to,  *)
RecordJoinReads(t) ==
    /\ At(t, "joined", "look")
    /\ IF Exists
       THEN Go(t, [task[t] EXCEPT !.at = "record",
                     !.stamp = IF startedAt = 0 THEN - task[t].conn ELSE startedAt])
       ELSE Done(t)
    /\ UNCHANGED <<dbVars, lkVars, ticket>>

(* and creates it.                                                          *)
RecordJoin(t) ==
    LET c == task[t].conn IN
    /\ At(t, "joined", "record")
    /\ sheet' = IF Exists
                THEN [sheet EXCEPT ![c] = [row |-> "open", stamp |-> task[t].stamp]]
                ELSE sheet
    /\ Done(t)
    /\ UNCHANGED <<status, startedAt, board, lkVars, ticket>>

(* The open rows of a person.                                               *)
OpenRows(p) == {c \in DOMAIN conns : conns[c].who = p /\ sheet[c].row = "open"}

(* Mutant: a room that is not LIVE is left alone.                           *)
ParticipantLeft_LiveOnly(t, i) ==
    LET rows == IF status = "LIVE" THEN OpenRows(conns[hooks[i].conn].who) ELSE {} IN
    /\ Post(t, i, "participant_left")
    /\ IF rows = {} THEN UNCHANGED task
       ELSE \E c \in rows :
              /\ \A d \in rows : d <= c
              /\ Go(t, [Idle EXCEPT !.op = "left", !.at = "leave", !.conn = c])
    /\ UNCHANGED dbVars

(* recordLeave looks for the most recent open row of the identity; the row  *)
(* of the connection itself is not known to it.                             *)
ParticipantLeft(t, i) ==
    LET rows == OpenRows(conns[hooks[i].conn].who) IN
    /\ Post(t, i, "participant_left")
    /\ IF rows = {} THEN UNCHANGED task
       ELSE \E c \in rows :
              /\ \A d \in rows : d <= c
              /\ Go(t, [Idle EXCEPT !.op = "left", !.at = "leave", !.conn = c])
    /\ UNCHANGED dbVars

(* update by id: on a row deleted meanwhile it throws.                      *)
RecordLeave(t) ==
    LET c == task[t].conn IN
    /\ At(t, "left", "leave")
    /\ sheet' = IF sheet[c].row \in {"open", "left"}
                THEN [sheet EXCEPT ![c].row = "left"] ELSE sheet
    /\ Done(t)
    /\ UNCHANGED <<status, startedAt, board, lkVars, ticket>>

(* AttendanceService.deleteSession: the rows with one sessionStartedAt.     *)
DeleteSession ==
    \E stamp \in {sheet[c].stamp : c \in {d \in Conn : sheet[d].row \in {"open", "left"}}} :
        /\ sheet' = [c \in Conn |->
                       IF sheet[c].row \in {"open", "left"} /\ sheet[c].stamp = stamp
                       THEN [sheet[c] EXCEPT !.row = "deleted"] ELSE sheet[c]]
        /\ UNCHANGED <<status, startedAt, board, lkVars, ticket, task>>

(* The process restarts.  The handlers in flight are gone; the webhooks     *)
(* they had not answered are posted again.                                  *)
Restart ==
    LET again == {t \in Courier : ~Free(t)} IN
    /\ Outages
    /\ \E t \in Slot : ~Free(t)
    /\ task' = [t \in Slot |-> Idle]
    /\ \E s \in [1 .. Cardinality(again) -> again] :
         /\ \A t \in again : \E i \in DOMAIN s : s[i] = t
         /\ hooks' = [i \in DOMAIN s |->
                        About(IF task[s[i]].op = "joined" THEN "participant_joined"
                              ELSE "participant_left", task[s[i]].conn)] \o hooks
    /\ UNCHANGED <<dbVars, open, session, conns, inside, ticket>>

-----------------------------------------------------------------------------
LiveKitMoves ==
    \/ \E p \in Person : Connect(p)
    \/ \E c \in inside : Leave(c) \/ SaveBoard(c)
    \/ EmptyTimeout

Arrives(t) ==
    \/ \E p \in Manager : JoinAsManager(t, p)
    \/ \E p \in Viewer : JoinAsViewer(t, p)
    \/ CloseRequest(t) \/ RemoveRequest(t)

Delivers(t, i) ==
    \/ RoomStarted(t, i) \/ RoomFinished(t, i)
    \/ ParticipantJoined(t, i) \/ ParticipantLeft(t, i)

Continues(t) ==
    \/ JoinCreates(t) \/ JoinWipes(t) \/ JoinResets(t) \/ HasActiveModerator(t)
    \/ CloseKills(t) \/ CloseEnds(t) \/ RemoveDrops(t)
    \/ RecordJoinReads(t) \/ RecordJoin(t) \/ RecordLeave(t)

Next ==
    \/ LiveKitMoves
    \/ \E t \in Request : Arrives(t)
    \/ \E t \in Courier, i \in DOMAIN hooks : Delivers(t, i)
    \/ \E t \in Slot : Continues(t)
    \/ CronRead \/ CronLists \/ CronListFails
    \/ DeleteSession
    \/ Restart

Spec == Init /\ [][Next]_vars

(* A handler goes on when what it awaits is answered; the cron runs every   *)
(* two minutes, and LiveKit answers it from time to time.  No webhook need  *)
(* ever be delivered and nobody need do anything.                           *)
FairSpec ==
    /\ Spec
    /\ \A t \in Slot : WF_vars(Continues(t))
    /\ WF_vars(CronRead)
    /\ SF_vars(CronLists)

-----------------------------------------------------------------------------
(* Properties                                                               *)

Quiet == hooks = <<>> /\ \A t \in Courier : Free(t)

InsideOf(p) == {c \in inside : conns[c].who = p}

(* Two meetings held in the same room never share a sessionStartedAt, which *)
(* is what the attendance sheets are grouped by, as long as LiveKit posts   *)
(* the webhooks of a room in order, whatever join, close, remove, the cron  *)
(* and a restart do between them.                                           *)
SessionsNotMixed ==
    \A c, d \in DOMAIN conns :
        sheet[c].row # "none" /\ sheet[d].row # "none"
            /\ conns[c].session # conns[d].session
                => sheet[c].stamp # sheet[d].stamp

(* When every webhook has been handled, in order, the sheet has exactly one *)
(* open row for each connection that is up: nobody's time goes on counting  *)
(* after they left, and nobody present is missed, unless somebody deleted   *)
(* rows of theirs.                                                          *)
PresenceIsExact ==
    Quiet /\ Exists =>
        \A p \in Person :
            /\ Cardinality(OpenRows(p)) <= Cardinality(InsideOf(p))
            /\ \/ Cardinality(OpenRows(p)) = Cardinality(InsideOf(p))
               \/ \E c \in DOMAIN conns : conns[c].who = p /\ sheet[c].row = "deleted"

(* From some point on the process is not restarted.                         *)
StaysUp == <>[][~Restart]_vars

(* The repair of the cron: once LiveKit has no session of the room any      *)
(* more, the room does not stay LIVE for ever, though the room_finished     *)
(* webhook was lost, the process restarted, or a late room_started revived  *)
(* the row.                                                                 *)
StaleLiveIsClosed == StaysUp /\ <>[](~open) => <>[](status # "LIVE")

(* "Une nouvelle session repart d'un tableau blanc vierge" (join): nobody   *)
(* finds the drawings of an earlier meeting on the whiteboard.              *)
BoardIsFresh == \A c \in inside : board \in {0, conns[c].session}

=============================================================================
