------------------------- MODULE RoomSessionProofs -------------------------
(***************************************************************************)
(* The attendance sheets of two meetings of a room are never mixed up when *)
(* LiveKit posts the webhooks in order, for any number of persons,         *)
(* handlers, meetings and connections; and when all of them have been      *)
(* handled, the sheet has one open row for each person who is connected.   *)
(***************************************************************************)
EXTENDS RoomSession, SequenceTheorems, FiniteSetTheorems, TLAPS

LEMMA Bounds == MaxSession \in Nat /\ MaxConn \in Nat /\ 0 \in 0 .. MaxConn
BY BoundsAreNat

USE SlotsAreDistinct, CouriersAreFinite, Bounds

Connection == [who : Person, session : 1 .. MaxSession]

\* The types, and what keeps them: a room that is open has a session, connections are
\* numbered within the bound, and a join is somebody's.
TypeInv ==
  /\ TypeOK
  /\ open => session >= 1
  /\ Len(conns) <= MaxConn
  /\ \A t \in Slot : task[t].op \in {"join", "enter"} => task[t].who \in Person

-----------------------------------------------------------------------------
(* Webhooks as sequences                                                    *)

LEMMA OneEvent ==
  ASSUME NEW event \in {"room_started", "room_finished", "participant_joined", "participant_left"},
         NEW c \in 0 .. MaxConn
  PROVE  /\ About(event, c) \in Hook
         /\ <<About(event, c)>> \in Seq(Hook)
         /\ Len(<<About(event, c)>>) = 1
         /\ <<About(event, c)>>[1] = About(event, c)
<1>1. About(event, c) \in Hook
  BY DEF About, Hook
<1> QED
  BY <1>1

LEMMA LeftsAreHooks ==
  ASSUME NEW C \in SUBSET Conn, NEW s \in Lefts(C)
  PROVE  /\ s \in Seq(Hook)
         /\ \A j \in DOMAIN s : s[j].event = "participant_left"
<1>1. IsFiniteSet(Conn) /\ IsFiniteSet(C)
  <2>1. IsFiniteSet(1 .. MaxConn)
    BY FS_Interval
  <2> QED
    BY <2>1, FS_Subset DEF Conn
<1>2. Cardinality(C) \in Nat
  BY <1>1, FS_CardinalityType
<1>3. s \in [1 .. Cardinality(C) -> {About("participant_left", c) : c \in C}]
  BY DEF Lefts
<1>4. \A c \in C : About("participant_left", c) \in Hook /\ About("participant_left", c).event = "participant_left"
  BY DEF About, Hook, Conn
<1>5. {About("participant_left", c) : c \in C} \subseteq Hook
  BY <1>4
<1>6. s \in [1 .. Cardinality(C) -> Hook]
  BY <1>3, <1>5
<1>7. s \in Seq(Hook)
  BY <1>2, <1>6, SeqDef
<1>8. \A j \in DOMAIN s : s[j].event = "participant_left"
  BY <1>3, <1>4
<1> QED
  BY <1>7, <1>8

\* The tasks stay tasks.
TasksOK ==
  /\ task \in [Slot -> TaskState]
  /\ \A t \in Slot : task[t].op \in {"join", "enter"} => task[t].who \in Person

LEMMA GoSets ==
  ASSUME TasksOK, NEW t \in Slot, NEW x, Go(t, x)
  PROVE  /\ task'[t] = x
         /\ \A u \in Slot \ {t} : task'[u] = task[u]
BY DEF Go, TasksOK

LEMMA GoTypes ==
  ASSUME TasksOK, NEW t \in Slot, NEW x \in TaskState, Go(t, x),
         x.op \in {"join", "enter"} => x.who \in Person
  PROVE  TasksOK'
<1>1. task' \in [Slot -> TaskState]
  BY DEF Go, TasksOK
<1>2. task'[t] = x /\ \A u \in Slot \ {t} : task'[u] = task[u]
  BY GoSets
<1> QED
  BY <1>1, <1>2 DEF TasksOK

LEMMA IdleType == Idle \in TaskState /\ Idle.op = "none"
BY DEF Idle, TaskState

LEMMA DoneTypes ==
  ASSUME TasksOK, NEW t \in Slot, Done(t)
  PROVE  TasksOK'
BY IdleType, GoTypes DEF Done

\* LiveKit opens the room with something to tell.
LEMMA OpensTypes ==
  ASSUME TypeInv, NEW s \in Seq(Hook), Opens(s)
  PROVE  /\ open' = TRUE /\ session' \in 1 .. MaxSession /\ hooks' \in Seq(Hook)
<1>1. RoomEvent("room_started") \in Seq(Hook)
  BY OneEvent DEF RoomEvent
<1>2. hooks \in Seq(Hook) /\ session \in 0 .. MaxSession /\ (open => session >= 1)
  BY DEF TypeInv, TypeOK
<1>3. CASE open
  <2>1. session' = session /\ hooks' = hooks \o s /\ open' = TRUE
    BY <1>3 DEF Opens
  <2> QED
    BY <1>2, <1>3, <2>1
<1>4. CASE ~open
  <2>1. /\ session < MaxSession /\ session' = session + 1 /\ open' = TRUE
        /\ hooks' = hooks \o RoomEvent("room_started") \o s
    BY <1>4 DEF Opens
  <2> QED
    BY <1>1, <1>2, <2>1
<1> QED
  BY <1>3, <1>4

LEMMA ClosesTypes ==
  ASSUME TypeInv, Closes
  PROVE  /\ open' = FALSE /\ inside' = {} /\ session' = session /\ conns' = conns
         /\ hooks' \in Seq(Hook)
<1>1. inside \in SUBSET Conn
  BY DEF TypeInv, TypeOK, Conn
<1>2. PICK s \in Lefts(inside) : hooks' = hooks \o s \o RoomEvent("room_finished")
  BY DEF Closes
<1>3. s \in Seq(Hook)
  BY <1>1, LeftsAreHooks
<1>4. RoomEvent("room_finished") \in Seq(Hook)
  BY OneEvent DEF RoomEvent
<1>5. hooks' \in Seq(Hook)
  BY <1>2, <1>3, <1>4 DEF TypeInv, TypeOK
<1> QED
  BY <1>5 DEF Closes

\* A webhook is posted: the others keep their order.
LEMMA PostTypes ==
  ASSUME TypeInv, NEW t, NEW i \in DOMAIN hooks, NEW event, Post(t, i, event)
  PROVE  /\ hooks' \in Seq(Hook)
         /\ hooks[i] \in Hook /\ hooks[i].event = event
         /\ UNCHANGED <<open, session, conns, inside, ticket>>
<1>1. hooks \in Seq(Hook) /\ Len(hooks) \in Nat /\ i \in 1 .. Len(hooks)
  BY DEF TypeInv, TypeOK
<1>2. hooks' = [j \in 1 .. Len(hooks) - 1 |-> hooks[IF j < i THEN j ELSE j + 1]]
  BY DEF Post
<1>3. \A j \in 1 .. Len(hooks) - 1 : hooks[IF j < i THEN j ELSE j + 1] \in Hook
  BY <1>1
<1>4. Len(hooks) - 1 \in Nat
  BY <1>1
<1>5. hooks' \in [1 .. Len(hooks) - 1 -> Hook]
  BY <1>2, <1>3
<1>6. hooks' \in Seq(Hook)
  BY <1>4, <1>5, SeqDef
<1> QED
  BY <1>1, <1>6 DEF Post

-----------------------------------------------------------------------------
(* Types                                                                    *)

LEMMA TypeInvInit == Init => TypeInv
<1> SUFFICES ASSUME Init PROVE TypeInv
  OBVIOUS
<1>1. /\ conns = <<>> /\ Len(conns) = 0 /\ conns \in Seq(Connection)
      /\ hooks = <<>> /\ hooks \in Seq(Hook)
  BY DEF Init
<1>2. TasksOK
  BY IdleType DEF Init, TasksOK
<1>3. sheet \in [Conn -> [row : RowState, stamp : Int]]
  BY DEF Init, RowState
<1> QED
  <2>0. board = 0 /\ session = 0 /\ startedAt = 0 /\ 0 \in 0 .. MaxSession
    BY DEF Init
  <2>1. /\ status \in RoomStatus /\ startedAt \in Nat /\ board \in 0 .. MaxSession
        /\ open \in BOOLEAN /\ session \in 0 .. MaxSession
        /\ inside \in SUBSET DOMAIN conns /\ ticket \in SUBSET Person
        /\ inside = {} /\ ~open
    <3>1. open \in BOOLEAN /\ ~open
      BY DEF Init
    <3>2. status \in RoomStatus
      BY DEF Init, RoomStatus
    <3>3. inside \in SUBSET DOMAIN conns /\ ticket \in SUBSET Person /\ inside = {}
      BY DEF Init
    <3> QED
      BY <2>0, <3>1, <3>2, <3>3
  <2>2. TypeOK
    BY <1>1, <1>2, <1>3, <2>1 DEF TypeOK, Connection, TasksOK
  <2>3. Len(conns) <= MaxConn
    BY <1>1
  <2> QED
    BY <1>2, <2>1, <2>2, <2>3 DEF TypeInv, TasksOK

LEMMA TypeInvStep == TypeInv /\ [Next]_vars => TypeInv'
<1> SUFFICES ASSUME TypeInv, [Next]_vars PROVE TypeInv'
  OBVIOUS
<1>0. /\ status \in RoomStatus /\ startedAt \in Nat /\ board \in 0 .. MaxSession
      /\ sheet \in [Conn -> [row : RowState, stamp : Int]]
      /\ open \in BOOLEAN /\ session \in 0 .. MaxSession
      /\ inside \in SUBSET DOMAIN conns /\ hooks \in Seq(Hook)
      /\ ticket \in SUBSET Person
      /\ (open \/ inside = {}) /\ (open => session >= 1)
  BY DEF TypeInv, TypeOK
<1>c. /\ conns \in Seq(Connection) /\ Len(conns) \in Nat /\ Len(conns) <= MaxConn
      /\ DOMAIN conns = 1 .. Len(conns) /\ DOMAIN conns \subseteq Conn
      /\ \A c \in DOMAIN conns : conns[c] \in Connection
  <2>1. conns \in Seq(Connection) /\ Len(conns) <= MaxConn
    BY DEF TypeInv, TypeOK, Connection
  <2>2. Len(conns) \in Nat /\ DOMAIN conns = 1 .. Len(conns) /\ \A c \in 1 .. Len(conns) : conns[c] \in Connection
    BY <2>1, LenProperties, ElementOfSeq
  <2> QED
    BY <2>1, <2>2 DEF Conn
<1>t. TasksOK
  BY DEF TypeInv, TypeOK, TasksOK
<1>s. \A t \in Request \cup Courier : t \in Slot
  BY DEF Slot
<1>k. Cron \in Slot
  BY DEF Slot
<1>1. ASSUME NEW p \in Person, Connect(p) PROVE TypeInv'
  <2> DEFINE c == Len(conns) + 1
             old == {d \in inside : conns[d].who = p}
  <2>1. c \in Conn /\ c \in 0 .. MaxConn
    BY <1>1 DEF Connect, Conn
  <2>2. <<About("participant_joined", c)>> \in Seq(Hook)
    BY <2>1, OneEvent
  <2>3. old \in SUBSET Conn
    BY <1>0, <1>c
  <2>4. PICK s \in Seq(Hook) : Opens(s)
    <3>1. PICK l \in Lefts(old) : Opens(l \o <<About("participant_joined", c)>>)
                                  \/ Opens(<<About("participant_joined", c)>> \o l)
      BY <1>1 DEF Connect
    <3>2. l \in Seq(Hook)
      BY <2>3, LeftsAreHooks
    <3>3. l \o <<About("participant_joined", c)>> \in Seq(Hook) /\ <<About("participant_joined", c)>> \o l \in Seq(Hook)
      BY <2>2, <3>2, ConcatProperties
    <3> QED
      BY <3>1, <3>3
  <2>5. open' = TRUE /\ session' \in 1 .. MaxSession /\ hooks' \in Seq(Hook)
    BY <2>4, OpensTypes
  <2>6. /\ conns' = Append(conns, [who |-> p, session |-> session'])
        /\ inside' = (inside \ old) \cup {c} /\ ticket' = ticket \ {p}
        /\ UNCHANGED <<dbVars, task>>
    BY <1>1 DEF Connect
  <2>7. [who |-> p, session |-> session'] \in Connection
    BY <2>5 DEF Connection
  <2>8. conns' \in Seq(Connection) /\ Len(conns') = c /\ DOMAIN conns' = 1 .. c
    BY <1>c, <2>6, <2>7
  <2>9. inside' \in SUBSET DOMAIN conns'
    BY <1>0, <1>c, <2>6, <2>8
  <2>10. Len(conns') <= MaxConn
    BY <2>1, <2>8
  <2> QED
    BY <1>0, <1>t, <2>5, <2>6, <2>8, <2>9, <2>10 DEF TypeInv, TypeOK, Connection, dbVars
<1>2. ASSUME NEW c \in inside, Leave(c) PROVE TypeInv'
  <2>1. c \in Conn
    BY <1>0, <1>c
  <2>2. About("participant_left", c) \in Hook
    BY <2>1, OneEvent DEF Conn
  <2>3. hooks' \in Seq(Hook) /\ inside' \in SUBSET DOMAIN conns /\ (open \/ inside' = {})
    BY <1>0, <1>2, <2>2 DEF Leave
  <2> QED
    BY <1>0, <1>c, <1>t, <1>2, <2>3 DEF Leave, TypeInv, TypeOK, TasksOK, dbVars, Connection
<1>3. ASSUME NEW c \in inside, SaveBoard(c) PROVE TypeInv'
  <2>1. conns[c].session \in 0 .. MaxSession
    BY <1>0, <1>c DEF Connection
  <2> QED
    BY <1>0, <1>c, <1>t, <1>3, <2>1 DEF SaveBoard, TypeInv, TypeOK, TasksOK, lkVars, Connection
<1>4. ASSUME EmptyTimeout PROVE TypeInv'
  <2>1. Closes /\ UNCHANGED <<dbVars, ticket, task>>
    BY <1>4 DEF EmptyTimeout
  <2> QED
    BY <1>0, <1>c, <1>t, <2>1, ClosesTypes DEF TypeInv, TypeOK, TasksOK, dbVars, Connection
<1>5. ASSUME NEW t \in Slot, NEW x \in TaskState, Go(t, x), UNCHANGED <<lkVars, ticket>>,
             status' \in RoomStatus, startedAt' = startedAt, board' \in 0 .. MaxSession,
             sheet' \in [Conn -> [row : RowState, stamp : Int]],
             x.op \in {"join", "enter"} => x.who \in Person
      PROVE  TypeInv'
  <2>1. TasksOK'
    BY <1>t, <1>5, GoTypes
  <2> QED
    BY <1>0, <1>c, <1>5, <2>1 DEF TypeInv, TypeOK, TasksOK, lkVars, Connection
<1>6. ASSUME NEW t \in Request, NEW p \in Manager, JoinAsManager(t, p) PROVE TypeInv'
  <2> DEFINE x == [Idle EXCEPT !.op = "join", !.at = "create", !.who = p, !.seen = status]
  <2>1. x \in TaskState /\ x.who \in Person
    BY IdleType, <1>0 DEF TaskState, Person
  <2>2. Go(t, x) /\ UNCHANGED <<dbVars, lkVars, ticket>>
    BY <1>6 DEF JoinAsManager
  <2> HIDE DEF x
  <2> QED
    BY <1>0, <1>s, <1>5, <2>1, <2>2 DEF dbVars
<1>7. ASSUME NEW t \in Request, NEW p \in Viewer, JoinAsViewer(t, p) PROVE TypeInv'
  <2> DEFINE x == [Idle EXCEPT !.op = "enter", !.at = "presence", !.who = p]
  <2>1. x \in TaskState /\ x.who \in Person
    BY IdleType DEF TaskState, Person
  <2>2. Go(t, x) /\ UNCHANGED <<dbVars, lkVars, ticket>>
    BY <1>7 DEF JoinAsViewer
  <2> HIDE DEF x
  <2> QED
    BY <1>0, <1>s, <1>5, <2>1, <2>2 DEF dbVars
<1>8. ASSUME NEW t \in Request, CloseRequest(t) PROVE TypeInv'
  <2> DEFINE x == [Idle EXCEPT !.op = "close", !.at = "kill"]
  <2>1. x \in TaskState /\ x.op = "close"
    BY IdleType DEF TaskState
  <2>2. Go(t, x) /\ UNCHANGED <<dbVars, lkVars, ticket>>
    BY <1>8 DEF CloseRequest
  <2> HIDE DEF x
  <2> QED
    BY <1>0, <1>s, <1>5, <2>1, <2>2 DEF dbVars
<1>9. ASSUME NEW t \in Request, RemoveRequest(t) PROVE TypeInv'
  <2> DEFINE x == [Idle EXCEPT !.op = "remove", !.at = "drop"]
  <2>1. x \in TaskState /\ x.op = "remove"
    BY IdleType DEF TaskState
  <2>2. Go(t, x) /\ UNCHANGED <<dbVars, lkVars, ticket>>
    BY <1>9 DEF RemoveRequest
  <2> HIDE DEF x
  <2> QED
    BY <1>0, <1>s, <1>5, <2>1, <2>2 DEF dbVars
<1>10. ASSUME NEW t \in Courier, NEW i \in DOMAIN hooks, Delivers(t, i) PROVE TypeInv'
  <2>0. t \in Slot
    BY <1>s
  <2>1. PICK event : Post(t, i, event)
    BY <1>10 DEF Delivers, RoomStarted, RoomFinished, ParticipantJoined, ParticipantLeft
  <2>2. /\ hooks' \in Seq(Hook) /\ hooks[i] \in Hook
        /\ UNCHANGED <<open, session, conns, inside, ticket>>
    BY <2>1, PostTypes
  <2>3. /\ status' \in RoomStatus /\ startedAt' \in Nat /\ board' = board /\ sheet' = sheet
    <3>1. status' \in {status, "LIVE", "ENDED"} /\ startedAt' \in {startedAt, startedAt + 1}
      BY <1>10 DEF Delivers, RoomStarted, RoomFinished, ParticipantJoined, ParticipantLeft, Starts, dbVars
    <3>2. board' = board /\ sheet' = sheet
      BY <1>10 DEF Delivers, RoomStarted, RoomFinished, ParticipantJoined, ParticipantLeft, dbVars
    <3> QED
      BY <1>0, <3>1, <3>2 DEF RoomStatus
  <2> DEFINE look == [Idle EXCEPT !.op = "joined", !.at = "look", !.conn = hooks[i].conn]
             leave(c) == [Idle EXCEPT !.op = "left", !.at = "leave", !.conn = c]
  <2>4. look \in TaskState /\ look.op = "joined"
    BY IdleType, <2>2 DEF TaskState, Hook
  <2>5. \A c \in DOMAIN conns : leave(c) \in TaskState /\ leave(c).op = "left"
    <3> SUFFICES ASSUME NEW c \in DOMAIN conns PROVE leave(c) \in TaskState /\ leave(c).op = "left"
      OBVIOUS
    <3>1. c \in 0 .. MaxConn
      BY <1>c DEF Conn
    <3> QED
      BY IdleType, <3>1 DEF TaskState
  <2>6. UNCHANGED task \/ Go(t, look) \/ \E c \in DOMAIN conns : Go(t, leave(c))
    BY <1>10 DEF Delivers, RoomStarted, RoomFinished, ParticipantJoined, ParticipantLeft, OpenRows
  <2> HIDE DEF look, leave
  <2>7. TasksOK'
    <3>1. CASE UNCHANGED task
      BY <1>t, <3>1 DEF TasksOK
    <3>2. CASE Go(t, look)
      BY <1>t, <2>0, <2>4, <3>2, GoTypes
    <3>3. ASSUME NEW c \in DOMAIN conns, Go(t, leave(c)) PROVE TasksOK'
      BY <1>t, <2>0, <2>5, <3>3, GoTypes
    <3> QED
      BY <2>6, <3>1, <3>2, <3>3
  <2> QED
    BY <1>0, <1>c, <2>2, <2>3, <2>7 DEF TypeInv, TypeOK, TasksOK, Connection
<1>11. ASSUME NEW t \in Slot, JoinCreates(t) PROVE TypeInv'
  <2>1. <<>> \in Seq(Hook) /\ Opens(<<>>)
    BY <1>11 DEF JoinCreates
  <2>2. open' = TRUE /\ session' \in 1 .. MaxSession /\ hooks' \in Seq(Hook)
    BY <2>1, OpensTypes
  <2>3. task[t] \in TaskState /\ task[t].op = "join" /\ task[t].who \in Person
    BY <1>t, <1>11 DEF JoinCreates, At, TasksOK
  <2> DEFINE x == [task[t] EXCEPT !.at = "wipe"]
  <2>4. x \in TaskState /\ x.who \in Person
    BY <2>3 DEF TaskState
  <2>5. Go(t, x) \/ Done(t)
    BY <1>11 DEF JoinCreates
  <2> HIDE DEF x
  <2>6. TasksOK'
    BY <1>t, <2>4, <2>5, GoTypes, DoneTypes
  <2>7. ticket' \in SUBSET Person
    <3>1. ticket' = ticket \/ ticket' = ticket \cup {task[t].who}
      BY <1>11 DEF JoinCreates
    <3> QED
      BY <1>0, <2>3, <3>1
  <2> QED
    BY <1>0, <1>c, <1>11, <2>2, <2>6, <2>7 DEF JoinCreates, TypeInv, TypeOK, TasksOK, dbVars, Connection
<1>12. ASSUME NEW t \in Slot, JoinWipes(t) PROVE TypeInv'
  <2> DEFINE x == [task[t] EXCEPT !.at = "reset"]
  <2>1. task[t] \in TaskState /\ task[t].op = "join" /\ task[t].who \in Person
    BY <1>t, <1>12 DEF JoinWipes, At, TasksOK
  <2>2. x \in TaskState /\ x.who \in Person
    BY <2>1 DEF TaskState
  <2>3. Go(t, x) /\ board' = 0 /\ UNCHANGED <<status, startedAt, sheet, lkVars, ticket>>
    BY <1>12 DEF JoinWipes
  <2> HIDE DEF x
  <2> QED
    BY <1>0, <1>5, <2>2, <2>3
<1>13. ASSUME NEW t \in Slot, Done(t), UNCHANGED lkVars, ticket' \in SUBSET Person,
              status' \in RoomStatus, startedAt' = startedAt, board' \in 0 .. MaxSession,
              sheet' \in [Conn -> [row : RowState, stamp : Int]]
       PROVE  TypeInv'
  <2>1. TasksOK'
    BY <1>t, <1>13, DoneTypes
  <2> QED
    BY <1>0, <1>c, <1>13, <2>1 DEF TypeInv, TypeOK, TasksOK, lkVars, Connection
<1>14. ASSUME NEW t \in Slot, JoinResets(t) PROVE TypeInv'
  <2>1. task[t].who \in Person
    BY <1>t, <1>14 DEF JoinResets, At, TasksOK
  <2>2. status' \in RoomStatus /\ ticket' \in SUBSET Person
    BY <1>0, <1>14, <2>1 DEF JoinResets, RoomStatus
  <2> QED
    BY <1>0, <1>13, <1>14, <2>2 DEF JoinResets
<1>15. ASSUME NEW t \in Slot, HasActiveModerator(t) PROVE TypeInv'
  <2>1. task[t].who \in Person
    BY <1>t, <1>15 DEF HasActiveModerator, At, TasksOK
  <2>2. ticket' \in SUBSET Person
    BY <1>0, <1>15, <2>1 DEF HasActiveModerator
  <2> QED
    BY <1>0, <1>13, <1>15, <2>2 DEF HasActiveModerator, dbVars
<1>16. ASSUME NEW t \in Slot, CloseKills(t) PROVE TypeInv'
  <2> DEFINE x == [task[t] EXCEPT !.at = "end"]
  <2>1. task[t] \in TaskState /\ task[t].op = "close"
    BY <1>t, <1>16 DEF CloseKills, At, TasksOK
  <2>2. x \in TaskState /\ x.op = "close"
    BY <2>1 DEF TaskState
  <2>3. Go(t, x) /\ UNCHANGED <<dbVars, ticket>>
    BY <1>16 DEF CloseKills
  <2> HIDE DEF x
  <2>4. TasksOK'
    BY <1>t, <2>2, <2>3, GoTypes
  <2>5. Closes \/ UNCHANGED lkVars
    BY <1>16 DEF CloseKills
  <2>6. CASE UNCHANGED lkVars
    BY <1>0, <1>5, <2>2, <2>3, <2>6 DEF dbVars
  <2>7. CASE Closes
    BY <1>0, <1>c, <2>3, <2>4, <2>7, ClosesTypes DEF TypeInv, TypeOK, TasksOK, dbVars, Connection
  <2> QED
    BY <2>5, <2>6, <2>7
<1>17. ASSUME NEW t \in Slot, CloseEnds(t) PROVE TypeInv'
  BY <1>0, <1>13, <1>17 DEF CloseEnds, RoomStatus
<1>18. ASSUME NEW t \in Slot, RemoveDrops(t) PROVE TypeInv'
  <2>1. status' \in RoomStatus /\ board' \in 0 .. MaxSession
    BY <1>0, <1>18 DEF RemoveDrops, RoomStatus
  <2>2. sheet' \in [Conn -> [row : RowState, stamp : Int]]
    BY <1>18 DEF RemoveDrops, RowState
  <2> QED
    BY <1>0, <1>13, <1>18, <2>1, <2>2 DEF RemoveDrops
<1>19. ASSUME NEW t \in Slot, RecordJoinReads(t) PROVE TypeInv'
  <2> DEFINE x == [task[t] EXCEPT !.at = "record", !.stamp = IF startedAt = 0 THEN - task[t].conn ELSE startedAt]
  <2>1. task[t] \in TaskState /\ task[t].op = "joined" /\ task[t].conn \in 0 .. MaxConn
    BY <1>t, <1>19 DEF RecordJoinReads, At, TasksOK, TaskState
  <2>2. (IF startedAt = 0 THEN - task[t].conn ELSE startedAt) \in Int
    BY <1>0, <2>1
  <2>3. x \in TaskState /\ x.op = "joined"
    BY <2>1, <2>2 DEF TaskState
  <2>4. (Go(t, x) \/ Done(t)) /\ UNCHANGED <<dbVars, lkVars, ticket>>
    BY <1>19 DEF RecordJoinReads
  <2> HIDE DEF x
  <2>5. CASE Go(t, x)
    BY <1>0, <1>5, <2>3, <2>4, <2>5 DEF dbVars
  <2>6. CASE Done(t)
    BY <1>0, <1>13, <2>4, <2>6 DEF dbVars
  <2> QED
    BY <2>4, <2>5, <2>6
<1>20. ASSUME NEW t \in Slot, RecordJoin(t) PROVE TypeInv'
  <2>1. task[t].stamp \in Int
    BY <1>t DEF TasksOK, TaskState
  <2>2. [row |-> "open", stamp |-> task[t].stamp] \in [row : RowState, stamp : Int]
    BY <2>1 DEF RowState
  <2>3. sheet' \in [Conn -> [row : RowState, stamp : Int]]
    BY <1>0, <1>20, <2>2 DEF RecordJoin
  <2> QED
    BY <1>0, <1>13, <1>20, <2>3 DEF RecordJoin
<1>21. ASSUME NEW t \in Slot, RecordLeave(t) PROVE TypeInv'
  <2>1. sheet' \in [Conn -> [row : RowState, stamp : Int]]
    BY <1>0, <1>21 DEF RecordLeave, RowState
  <2> QED
    BY <1>0, <1>13, <1>21, <2>1 DEF RecordLeave
<1>22. CASE CronRead
  <2> DEFINE x == [Idle EXCEPT !.op = "close", !.at = "list"]
  <2>1. x \in TaskState /\ x.op = "close"
    BY IdleType DEF TaskState
  <2>2. Go(Cron, x) /\ UNCHANGED <<dbVars, lkVars, ticket>>
    BY <1>22 DEF CronRead
  <2> HIDE DEF x
  <2> QED
    BY <1>0, <1>k, <1>5, <2>1, <2>2 DEF dbVars
<1>23. CASE CronLists
  <2> DEFINE x == [task[Cron] EXCEPT !.at = "kill"]
  <2>1. task[Cron] \in TaskState /\ task[Cron].op = "close"
    BY <1>t, <1>k, <1>23 DEF CronLists, At, TasksOK
  <2>2. x \in TaskState /\ x.op = "close"
    BY <2>1 DEF TaskState
  <2>3. (Go(Cron, x) \/ Done(Cron)) /\ UNCHANGED <<dbVars, lkVars, ticket>>
    BY <1>23 DEF CronLists
  <2> HIDE DEF x
  <2>4. CASE Go(Cron, x)
    BY <1>0, <1>k, <1>5, <2>2, <2>3, <2>4 DEF dbVars
  <2>5. CASE Done(Cron)
    BY <1>0, <1>k, <1>13, <2>3, <2>5 DEF dbVars
  <2> QED
    BY <2>3, <2>4, <2>5
<1>24. CASE CronListFails
  BY <1>0, <1>k, <1>13, <1>24 DEF CronListFails, dbVars
<1>25. CASE DeleteSession
  <2>1. PICK stamp : sheet' = [c \in Conn |->
                       IF sheet[c].row \in {"open", "left"} /\ sheet[c].stamp = stamp
                       THEN [sheet[c] EXCEPT !.row = "deleted"] ELSE sheet[c]]
    BY <1>25 DEF DeleteSession
  <2>2. \A c \in Conn : [sheet[c] EXCEPT !.row = "deleted"] \in [row : RowState, stamp : Int]
    BY <1>0 DEF RowState
  <2>3. sheet' \in [Conn -> [row : RowState, stamp : Int]]
    BY <1>0, <2>1, <2>2
  <2> QED
    BY <1>0, <1>c, <1>t, <1>25, <2>3 DEF DeleteSession, TypeInv, TypeOK, TasksOK, lkVars, Connection
<1>26. CASE Restart
  <2> DEFINE again == {t \in Courier : ~Free(t)}
             event(t) == IF task[t].op = "joined" THEN "participant_joined" ELSE "participant_left"
  <2>1. PICK s \in [1 .. Cardinality(again) -> again] :
             hooks' = [i \in DOMAIN s |-> About(event(s[i]), task[s[i]].conn)] \o hooks
    BY <1>26 DEF Restart
  <2>2. Cardinality(again) \in Nat
    <3>1. IsFiniteSet(again)
      BY FS_Subset
    <3> QED
      BY <3>1, FS_CardinalityType
  <2>3. \A t \in again : About(event(t), task[t].conn) \in Hook
    <3> SUFFICES ASSUME NEW t \in again PROVE About(event(t), task[t].conn) \in Hook
      OBVIOUS
    <3>1. task[t].conn \in 0 .. MaxConn
      BY <1>t, <1>s DEF TasksOK, TaskState
    <3> QED
      BY <3>1 DEF About, Hook
  <2>4. [i \in DOMAIN s |-> About(event(s[i]), task[s[i]].conn)] \in [1 .. Cardinality(again) -> Hook]
    BY <2>3
  <2>5. [i \in DOMAIN s |-> About(event(s[i]), task[s[i]].conn)] \in Seq(Hook)
    BY <2>2, <2>4, SeqDef
  <2>6. hooks' \in Seq(Hook)
    BY <1>0, <2>1, <2>5
  <2>7. task' = [t \in Slot |-> Idle] /\ UNCHANGED <<dbVars, open, session, conns, inside, ticket>>
    BY <1>26 DEF Restart
  <2>8. TasksOK'
    BY <2>7, IdleType DEF TasksOK
  <2> QED
    BY <1>0, <1>c, <2>6, <2>7, <2>8 DEF TypeInv, TypeOK, TasksOK, dbVars, Connection
<1>27. CASE UNCHANGED vars
  BY <1>0, <1>c, <1>t, <1>27 DEF vars, dbVars, lkVars, TypeInv, TypeOK, TasksOK, Connection
<1> QED
  BY <1>1, <1>2, <1>3, <1>4, <1>6, <1>7, <1>8, <1>9, <1>10, <1>11, <1>12, <1>14, <1>15, <1>16, <1>17,
     <1>18, <1>19, <1>20, <1>21, <1>22, <1>23, <1>24, <1>25, <1>26, <1>27
     DEF Next, LiveKitMoves, Arrives, Continues

\* Every variable keeps its type, in whatever order the webhooks come.
THEOREM RoomTypeCorrect == Spec => []TypeOK
<1>1. TypeInv => TypeOK
  BY DEF TypeInv
<1> QED
  BY <1>1, TypeInvInit, TypeInvStep, PTL DEF Spec

-----------------------------------------------------------------------------
(* Webhooks in order.  LiveKit announces a new meeting right after the end  *)
(* of the one before, so that the room is never LIVE when a room_started is *)
(* handled: every meeting that has rows gets a startedAt of its own.        *)

Handling(t)       == task[t].op \in {"joined", "left"}
Recorded(c)       == sheet[c].row # "none"

\* Of webhooks h, connections m and the last session s of LiveKit.
Starting(h, k)       == h[k].event = "room_started"
Joining(h, j, c)     == h[j].event = "participant_joined" /\ h[j].conn = c
SameMeeting(m, c, d) == m[c].session = m[d].session

\* A room_started is still to come before webhook j.
Announced(h, j) == \E k \in 1 .. Len(h) : k < j /\ Starting(h, k)

\* The joins of other meetings come after a room_started that is still to come, and so
\* would those of a meeting that has no webhook yet.
Behind(h, m, s, c) ==
  /\ \A j \in 1 .. Len(h) : \A d \in DOMAIN m : Joining(h, j, d) /\ ~SameMeeting(m, c, d) => Announced(h, j)
  /\ m[c].session # s => Announced(h, Len(h) + 1)

\* One webhook is handled at a time, and by couriers.
Handlers ==
  /\ \A t \in Courier : task[t] = Idle \/ (Handling(t) /\ ~Free(t))
  /\ \A t \in Slot : Handling(t) => t \in Courier
  /\ \A t, u \in Slot : Handling(t) /\ Handling(u) => t = u

HandledKnown == \A t \in Slot : Handling(t) => task[t].conn \in DOMAIN conns
JoinsKnown   == \A j \in 1 .. Len(hooks) : hooks[j].event = "participant_joined" => hooks[j].conn \in DOMAIN conns
RowsKnown    == \A c \in Conn : Recorded(c) => c \in DOMAIN conns /\ Exists /\ sheet[c].stamp <= startedAt

\* The queue of LiveKit: an end before every start but the first.
StartsFollow == \A k \in 2 .. Len(hooks) : Starting(hooks, k) => hooks[k - 1].event = "room_finished"
StartsFirst  == Len(hooks) > 0 /\ Starting(hooks, 1) => status # "LIVE" /\ \A t \in Slot : ~Handling(t)
ClosedTail   == ~open => \/ Len(hooks) = 0 /\ status # "LIVE" /\ \A t \in Slot : ~Handling(t)
                         \/ Len(hooks) > 0 /\ hooks[Len(hooks)].event = "room_finished"
QueueInv == StartsFollow /\ StartsFirst /\ ClosedTail

\* Between the joins of two meetings there is a start.
JoinsApart ==
  \A i, j \in 1 .. Len(hooks) : \A c, d \in DOMAIN conns :
     i < j /\ Joining(hooks, i, c) /\ Joining(hooks, j, d) /\ ~SameMeeting(conns, c, d) => \E k \in i + 1 .. j - 1 : Starting(hooks, k)
JoinsBehind ==
  \A i \in 1 .. Len(hooks) : \A c \in DOMAIN conns :
     Joining(hooks, i, c) /\ conns[c].session # session => \E k \in i + 1 .. Len(hooks) : Starting(hooks, k)
HandledBehind == \A t \in Slot : task[t].op = "joined" => Behind(hooks, conns, session, task[t].conn)
JoinsInv == JoinsApart /\ JoinsBehind /\ HandledBehind

\* A row has an older stamp than any new one, or the start of the next meeting is to come.
RowsBehind  == \A c \in Conn : Recorded(c) => sheet[c].stamp < startedAt \/ Behind(hooks, conns, session, c)
RowsOlder   == \A t \in Slot, c \in Conn :
                 task[t].op = "joined" /\ Recorded(c) /\ ~SameMeeting(conns, c, task[t].conn) => sheet[c].stamp < startedAt
StampIsNow  == \A t \in Slot : At(t, "joined", "record") /\ Exists => task[t].stamp = startedAt
StampsInv   == RowsBehind /\ RowsOlder /\ StampIsNow

\* Nobody joins a room that never started.
Unstarted == Exists /\ startedAt = 0
NoJoinYet == Unstarted => /\ session >= 1 => Announced(hooks, Len(hooks) + 1)
                          /\ \A j \in 1 .. Len(hooks) : hooks[j].event = "participant_joined" => Announced(hooks, j)
                          /\ \A t \in Slot : task[t].op # "joined"

KnownInv   == HandledKnown /\ JoinsKnown /\ RowsKnown
MeetingInv == TypeInv /\ Handlers /\ KnownInv /\ QueueInv /\ JoinsInv /\ StampsInv /\ NoJoinYet /\ SessionsNotMixed

LEMMA MeetingInvInit == Init => MeetingInv
<1> SUFFICES ASSUME Init PROVE MeetingInv
  OBVIOUS
<1>1. \A t \in Slot : task[t] = Idle /\ ~Handling(t) /\ task[t].op = "none"
  BY IdleType DEF Init, Handling
<1>2. \A c \in Conn : ~Recorded(c)
  BY DEF Init, Recorded
<1>3. Len(hooks) = 0 /\ session = 0 /\ status = "SCHEDULED" /\ conns = <<>>
  BY DEF Init
<1>4. Handlers
  BY <1>1 DEF Handlers, Slot
<1>5. KnownInv
  BY <1>1, <1>2, <1>3 DEF KnownInv, HandledKnown, JoinsKnown, RowsKnown
<1>6. QueueInv
  BY <1>1, <1>3 DEF QueueInv, StartsFollow, StartsFirst, ClosedTail
<1>7. JoinsInv
  BY <1>1, <1>3 DEF JoinsInv, JoinsApart, JoinsBehind, HandledBehind
<1>8. StampsInv
  BY <1>1, <1>2 DEF StampsInv, RowsBehind, RowsOlder, StampIsNow, At
<1>9. NoJoinYet
  BY <1>1, <1>3 DEF NoJoinYet
<1>10. SessionsNotMixed
  BY <1>3 DEF SessionsNotMixed
<1> QED
  BY <1>4, <1>5, <1>6, <1>7, <1>8, <1>9, <1>10, TypeInvInit DEF MeetingInv

\* A step that LiveKit has no part in: it posts nothing, writes no stamp and takes no webhook.
Aside ==
  /\ UNCHANGED <<hooks, conns, session, open, startedAt>>
  /\ \A t \in Slot : Handling(t)' => task'[t].op = task[t].op /\ task'[t].conn = task[t].conn
  /\ \A t \in Slot : At(t, "joined", "record")' /\ Exists' => task'[t] = task[t] \/ task'[t].stamp = startedAt
  /\ status' = "LIVE" => status = "LIVE"
  /\ Exists' => Exists
  /\ \A c \in Conn : Recorded(c)' => Recorded(c) /\ Exists' /\ sheet'[c].stamp = sheet[c].stamp

LEMMA Elsewhere ==
  ASSUME MeetingInv, Aside
  PROVE  KnownInv' /\ QueueInv' /\ JoinsInv' /\ StampsInv' /\ NoJoinYet' /\ SessionsNotMixed'
<1> USE DEF Aside
<1>1. \A t \in Slot : Handling(t)' => Handling(t)
  BY DEF Handling
<1>2. \A t \in Slot : task'[t].op = "joined" => task[t].op = "joined" /\ task'[t].conn = task[t].conn
  BY DEF Handling
<1>3. \A j \in 1 .. Len(hooks) + 1 : Announced(hooks', j) <=> Announced(hooks, j)
  BY DEF Announced, Starting
<1>4. \A c \in DOMAIN conns : Behind(hooks', conns', session', c) <=> Behind(hooks, conns, session, c)
  BY DEF Behind, Announced, Starting, Joining, SameMeeting
<1>5. KnownInv'
  BY <1>1 DEF MeetingInv, KnownInv, HandledKnown, JoinsKnown, RowsKnown, Handling
<1>6. QueueInv'
  BY <1>1 DEF MeetingInv, QueueInv, StartsFollow, StartsFirst, ClosedTail, Starting
<1>7. JoinsInv'
  <2>1. JoinsApart' /\ JoinsBehind'
    BY DEF MeetingInv, JoinsInv, JoinsApart, JoinsBehind, Joining, SameMeeting, Starting
  <2>2. HandledBehind'
    BY <1>2, <1>4 DEF MeetingInv, JoinsInv, HandledBehind, KnownInv, HandledKnown, Handling
  <2> QED
    BY <2>1, <2>2 DEF JoinsInv
<1>8. StampsInv'
  <2>1. RowsBehind'
    BY <1>4 DEF MeetingInv, StampsInv, RowsBehind, KnownInv, RowsKnown
  <2>2. RowsOlder'
    BY <1>2 DEF MeetingInv, StampsInv, RowsOlder, SameMeeting
  <2>3. StampIsNow'
    BY DEF MeetingInv, StampsInv, StampIsNow, At
  <2> QED
    BY <2>1, <2>2, <2>3 DEF StampsInv
<1>9. NoJoinYet'
  <2>1. Unstarted' => Unstarted
    BY DEF Unstarted
  <2> QED
    BY <1>2, <1>3, <2>1 DEF MeetingInv, NoJoinYet, Announced, Starting
<1>10. SessionsNotMixed'
  <2>1. DOMAIN conns \subseteq Conn
    BY LenProperties DEF MeetingInv, TypeInv, TypeOK, Conn
  <2> QED
    BY <2>1 DEF MeetingInv, SessionsNotMixed, Recorded
<1> QED
  BY <1>5, <1>6, <1>7, <1>8, <1>9, <1>10

\* In order, it is the oldest webhook that is posted, and no other is being handled.
LEMMA PostsFirst ==
  ASSUME InOrder, MeetingInv, NEW t \in Courier, NEW i \in DOMAIN hooks, NEW event, Post(t, i, event)
  PROVE  /\ i = 1 /\ hooks[1].event = event
         /\ Len(hooks) \in Nat \ {0} /\ Len(hooks') = Len(hooks) - 1
         /\ \A j \in 1 .. Len(hooks') : hooks'[j] = hooks[j + 1]
         /\ \A u \in Slot : ~Handling(u)
         /\ UNCHANGED <<open, session, conns, inside, ticket>>
<1>1. i = 1 /\ hooks[1].event = event /\ \A u \in Courier : Free(u)
  BY DEF Post
<1>2. hooks \in Seq(Hook) /\ Len(hooks) \in Nat \ {0}
  BY <1>1, LenProperties DEF MeetingInv, TypeInv, TypeOK
<1>3. hooks' = [j \in 1 .. Len(hooks) - 1 |-> hooks[IF j < 1 THEN j ELSE j + 1]]
  BY <1>1 DEF Post
<1>4. \A j \in 1 .. Len(hooks) - 1 : hooks'[j] = hooks[j + 1]
  BY <1>2, <1>3
<1>5. hooks' \in Seq(Hook)
  BY PostTypes DEF MeetingInv
<1>6. DOMAIN hooks' = 1 .. Len(hooks) - 1 /\ Len(hooks) - 1 \in Nat
  BY <1>2, <1>3
<1>7. Len(hooks') = Len(hooks) - 1
  BY <1>5, <1>6, LenProperties
<1>8. \A u \in Slot : ~Handling(u)
  BY <1>1, IdleType DEF MeetingInv, Handlers, Handling
<1> QED
  BY <1>1, <1>2, <1>4, <1>7, <1>8 DEF Post

\* The handling of the oldest webhook.
Takes(event) ==
  /\ hooks[1].event = event
  /\ Len(hooks) \in Nat \ {0} /\ Len(hooks') = Len(hooks) - 1
  /\ \A j \in 1 .. Len(hooks') : hooks'[j] = hooks[j + 1]
  /\ \A u \in Slot : ~Handling(u)
  /\ UNCHANGED <<open, session, conns, sheet>>
  /\ startedAt' \in {startedAt, startedAt + 1} /\ (Exists' <=> Exists)
  /\ status' = "LIVE" => status = "LIVE" \/ startedAt' = startedAt + 1
  /\ event = "room_started" /\ Exists /\ status # "LIVE" => startedAt' = startedAt + 1
  /\ event = "room_finished" => status' # "LIVE"
  /\ \A u \in Slot : Handling(u)' => /\ event \in {"participant_joined", "participant_left"}
                                    /\ task'[u].conn \in DOMAIN conns
  /\ \A u \in Slot : task'[u].op = "joined" => /\ event = "participant_joined" /\ task'[u].at # "record"
                                              /\ task'[u].conn = hooks[1].conn

LEMMA Handled ==
  ASSUME MeetingInv, NEW event, Takes(event)
  PROVE  KnownInv' /\ QueueInv' /\ JoinsInv' /\ StampsInv' /\ NoJoinYet' /\ SessionsNotMixed'
<1> USE DEF Takes
<1> DEFINE n == Len(hooks)
<1>0. n \in Nat \ {0} /\ Len(hooks') = n - 1 /\ startedAt \in Nat
  BY DEF MeetingInv, TypeInv, TypeOK
<1>c. DOMAIN conns \subseteq Conn
  BY LenProperties DEF MeetingInv, TypeInv, TypeOK, Conn
<1> HIDE DEF n
<1>1. \A j \in 1 .. n - 1 : hooks'[j] = hooks[j + 1] /\ j + 1 \in 1 .. n
  BY <1>0
<1>2. \A c, d : SameMeeting(conns', c, d) <=> SameMeeting(conns, c, d)
  BY DEF SameMeeting
<1>3. Starting(hooks, 1) <=> event = "room_started"
  BY DEF Starting
\* What was announced still is, unless its announcement was the one handled.
<1>4. \A j \in 1 .. n : event # "room_started" /\ Announced(hooks, j + 1) => Announced(hooks', j)
  <2> SUFFICES ASSUME NEW j \in 1 .. n, event # "room_started", Announced(hooks, j + 1) PROVE Announced(hooks', j)
    OBVIOUS
  <2>1. PICK k \in 1 .. n : k < j + 1 /\ Starting(hooks, k)
    BY DEF Announced, n
  <2>2. k - 1 \in 1 .. n - 1 /\ k - 1 < j
    BY <1>0, <1>3, <2>1
  <2>3. Starting(hooks', k - 1)
    <3>1. hooks'[k - 1] = hooks[(k - 1) + 1]
      BY <1>1, <2>2
    <3>2. (k - 1) + 1 = k
      BY <1>0
    <3> QED
      BY <2>1, <3>1, <3>2 DEF Starting
  <2> QED
    BY <1>0, <2>2, <2>3 DEF Announced
<1>5. \A i \in 1 .. n - 1, j \in 1 .. n : (\E k \in i + 2 .. j : Starting(hooks, k)) => \E k \in i + 1 .. j - 1 : Starting(hooks', k)
  <2> SUFFICES ASSUME NEW i \in 1 .. n - 1, NEW j \in 1 .. n, NEW k \in i + 2 .. j, Starting(hooks, k)
               PROVE  \E l \in i + 1 .. j - 1 : Starting(hooks', l)
    OBVIOUS
  <2>1. k - 1 \in 1 .. n - 1 /\ k - 1 \in i + 1 .. j - 1 /\ (k - 1) + 1 = k
    BY <1>0
  <2>2. Starting(hooks', k - 1)
    <3>1. hooks'[k - 1] = hooks[(k - 1) + 1]
      BY <1>1, <2>1
    <3> QED
      BY <2>1, <3>1 DEF Starting
  <2> QED
    BY <2>1, <2>2
<1>6. \A c \in DOMAIN conns : event # "room_started" /\ Behind(hooks, conns, session, c) => Behind(hooks', conns', session', c)
  <2> SUFFICES ASSUME NEW c \in DOMAIN conns, event # "room_started", Behind(hooks, conns, session, c) PROVE Behind(hooks', conns', session', c)
    OBVIOUS
  <2>1. ASSUME NEW j \in 1 .. n - 1, NEW d \in DOMAIN conns, Joining(hooks', j, d), ~SameMeeting(conns, c, d) PROVE Announced(hooks', j)
    <3>1. Joining(hooks, j + 1, d) /\ j + 1 \in 1 .. n
      BY <1>1, <2>1 DEF Joining
    <3>2. Announced(hooks, j + 1)
      BY <2>1, <3>1 DEF Behind, n
    <3> QED
      BY <1>0, <1>4, <3>2
  <2>2. conns[c].session # session => Announced(hooks', n)
    BY <1>0, <1>4 DEF Behind, n
  <2>3. conns'[c].session # session' => Announced(hooks', Len(hooks') + 1)
    BY <1>0, <2>2
  <2> QED
    BY <1>0, <2>1, <2>3 DEF Behind, SameMeeting
<1>7. KnownInv'
  <2>1. HandledKnown'
    BY DEF HandledKnown, Handling
  <2>2. JoinsKnown'
    BY <1>0, <1>1 DEF MeetingInv, KnownInv, JoinsKnown, n
  <2>3. RowsKnown'
    BY <1>0, <1>c DEF MeetingInv, KnownInv, RowsKnown, Recorded, TypeInv, TypeOK
  <2> QED
    BY <2>1, <2>2, <2>3 DEF KnownInv
<1>8. QueueInv'
  <2>1. StartsFollow'
    <3> SUFFICES ASSUME NEW k \in 2 .. n - 1, Starting(hooks', k) PROVE hooks'[k - 1].event = "room_finished"
      BY <1>0 DEF StartsFollow
    <3>1. k + 1 \in 2 .. n /\ Starting(hooks, k + 1) /\ hooks'[k - 1] = hooks[k]
      <4>1. k \in 1 .. n - 1 /\ k - 1 \in 1 .. n - 1 /\ (k - 1) + 1 = k
        BY <1>0
      <4>2. hooks'[k] = hooks[k + 1] /\ hooks'[k - 1] = hooks[(k - 1) + 1]
        BY <1>1, <4>1
      <4> QED
        BY <1>0, <4>1, <4>2 DEF Starting
    <3>2. hooks[(k + 1) - 1].event = "room_finished"
      BY <3>1 DEF MeetingInv, QueueInv, StartsFollow, n
    <3> QED
      BY <3>1, <3>2
  <2>2. StartsFirst'
    <3> SUFFICES ASSUME n - 1 > 0, Starting(hooks', 1) PROVE status' # "LIVE" /\ \A t \in Slot : ~Handling(t)'
      BY <1>0 DEF StartsFirst
    <3>1. Starting(hooks, 2) /\ 2 \in 2 .. n
      <4>1. 1 \in 1 .. n - 1 /\ 1 + 1 = 2
        BY <1>0
      <4> QED
        BY <1>0, <1>1, <4>1 DEF Starting
    <3>2. hooks[2 - 1].event = "room_finished"
      BY <3>1 DEF MeetingInv, QueueInv, StartsFollow, n
    <3>3. event = "room_finished"
      BY <3>2
    <3> QED
      BY <3>3
  <2>3. ClosedTail'
    <3> SUFFICES ASSUME ~open
                 PROVE  \/ n - 1 = 0 /\ status' # "LIVE" /\ \A t \in Slot : ~Handling(t)'
                        \/ n - 1 > 0 /\ hooks'[n - 1].event = "room_finished"
      BY <1>0 DEF ClosedTail
    <3>1. hooks[n].event = "room_finished"
      BY <1>0 DEF MeetingInv, QueueInv, ClosedTail, n
    <3>2. CASE n = 1
      BY <3>1, <3>2
    <3>3. CASE n > 1
      BY <1>0, <1>1, <3>1, <3>3
    <3> QED
      BY <1>0, <3>2, <3>3
  <2> QED
    BY <2>1, <2>2, <2>3 DEF QueueInv
<1>9. ASSUME NEW u \in Slot, task'[u].op = "joined"
      PROVE  event = "participant_joined" /\ task'[u].conn = hooks[1].conn /\ task'[u].conn \in DOMAIN conns
             /\ Joining(hooks, 1, task'[u].conn)
  <2>1. event = "participant_joined" /\ task'[u].conn = hooks[1].conn
    BY <1>9
  <2>2. hooks[1].conn \in DOMAIN conns
    BY <1>0, <2>1 DEF MeetingInv, KnownInv, JoinsKnown, n
  <2> QED
    BY <2>1, <2>2 DEF Joining
<1>10. JoinsInv'
  <2>1. JoinsApart'
    <3> SUFFICES ASSUME NEW i \in 1 .. n - 1, NEW j \in 1 .. n - 1, NEW c \in DOMAIN conns, NEW d \in DOMAIN conns,
                        i < j, Joining(hooks', i, c), Joining(hooks', j, d), ~SameMeeting(conns, c, d)
                 PROVE  \E k \in i + 1 .. j - 1 : Starting(hooks', k)
      BY <1>0, <1>2 DEF JoinsApart
    <3>1. /\ i + 1 \in 1 .. n /\ j + 1 \in 1 .. n /\ i + 1 < j + 1
          /\ Joining(hooks, i + 1, c) /\ Joining(hooks, j + 1, d)
      BY <1>0, <1>1 DEF Joining
    <3>2. \E k \in (i + 1) + 1 .. (j + 1) - 1 : Starting(hooks, k)
      BY <3>1 DEF MeetingInv, JoinsInv, JoinsApart, n
    <3>3. (i + 1) + 1 = i + 2 /\ (j + 1) - 1 = j /\ j \in 1 .. n
      BY <1>0
    <3> QED
      BY <1>5, <3>2, <3>3
  <2>2. JoinsBehind'
    <3> SUFFICES ASSUME NEW i \in 1 .. n - 1, NEW c \in DOMAIN conns, Joining(hooks', i, c), conns[c].session # session
                 PROVE  \E k \in i + 1 .. n - 1 : Starting(hooks', k)
      BY <1>0 DEF JoinsBehind
    <3>1. i + 1 \in 1 .. n /\ Joining(hooks, i + 1, c)
      BY <1>1 DEF Joining
    <3>2. \E k \in (i + 1) + 1 .. n : Starting(hooks, k)
      BY <3>1 DEF MeetingInv, JoinsInv, JoinsBehind, n
    <3>3. (i + 1) + 1 = i + 2 /\ n \in 1 .. n
      BY <1>0
    <3> QED
      BY <1>5, <3>2, <3>3
  <2>3. HandledBehind'
    <3> SUFFICES ASSUME NEW u \in Slot, task'[u].op = "joined" PROVE Behind(hooks', conns', session', task'[u].conn)
      BY DEF HandledBehind
    <3> DEFINE c == task'[u].conn
    <3>1. event = "participant_joined" /\ c \in DOMAIN conns /\ Joining(hooks, 1, c) /\ 1 \in 1 .. n
      BY <1>0, <1>9
    <3> HIDE DEF c
    <3>2. Behind(hooks, conns, session, c)
      <4>1. ASSUME NEW j \in 1 .. n, NEW d \in DOMAIN conns, Joining(hooks, j, d), ~SameMeeting(conns, c, d) PROVE Announced(hooks, j)
        <5>1. j # 1
          BY <3>1, <4>1 DEF Joining, SameMeeting
        <5>2. \E k \in 1 + 1 .. j - 1 : Starting(hooks, k)
          BY <3>1, <4>1, <5>1 DEF MeetingInv, JoinsInv, JoinsApart, n
        <5> QED
          BY <1>0, <5>2 DEF Announced, n
      <4>2. ASSUME conns[c].session # session PROVE Announced(hooks, n + 1)
        <5>1. \E k \in 1 + 1 .. n : Starting(hooks, k)
          BY <3>1, <4>2 DEF MeetingInv, JoinsInv, JoinsBehind, n
        <5> QED
          BY <1>0, <5>1 DEF Announced, n
      <4> QED
        BY <4>1, <4>2 DEF Behind, n
    <3>3. Behind(hooks', conns', session', c)
      BY <1>6, <3>1, <3>2
    <3> QED
      BY <3>3 DEF c
  <2> QED
    BY <2>1, <2>2, <2>3 DEF JoinsInv
<1>11. StampsInv'
  <2>1. RowsBehind'
    <3> SUFFICES ASSUME NEW c \in Conn, Recorded(c) PROVE sheet[c].stamp < startedAt' \/ Behind(hooks', conns', session', c)
      BY DEF RowsBehind, Recorded
    <3>1. c \in DOMAIN conns /\ Exists /\ sheet[c].stamp <= startedAt /\ sheet[c].stamp \in Int
      BY DEF MeetingInv, KnownInv, RowsKnown, TypeInv, TypeOK
    <3>2. sheet[c].stamp < startedAt \/ Behind(hooks, conns, session, c)
      BY DEF MeetingInv, StampsInv, RowsBehind
    <3>3. CASE event = "room_started"
      <4>1. status # "LIVE"
        BY <1>0, <1>3, <3>3 DEF MeetingInv, QueueInv, StartsFirst, n
      <4>2. startedAt' = startedAt + 1
        BY <3>1, <3>3, <4>1
      <4> QED
        BY <1>0, <3>1, <4>2
    <3>4. CASE event # "room_started"
      BY <1>0, <1>6, <3>1, <3>2, <3>4
    <3> QED
      BY <3>3, <3>4
  <2>2. RowsOlder'
    <3> SUFFICES ASSUME NEW u \in Slot, NEW c \in Conn, task'[u].op = "joined", Recorded(c),
                        ~SameMeeting(conns, c, task'[u].conn)
                 PROVE  sheet[c].stamp < startedAt'
      BY <1>2 DEF RowsOlder, Recorded
    <3>1. sheet[c].stamp \in Int
      BY DEF MeetingInv, TypeInv, TypeOK
    <3>2. sheet[c].stamp < startedAt
      <4>1. Joining(hooks, 1, task'[u].conn) /\ task'[u].conn \in DOMAIN conns /\ 1 \in 1 .. n
        BY <1>0, <1>9
      <4>2. ~Announced(hooks, 1)
        BY DEF Announced
      <4>3. ~Behind(hooks, conns, session, c)
        BY <4>1, <4>2 DEF Behind, n
      <4> QED
        BY <4>3 DEF MeetingInv, StampsInv, RowsBehind
    <3> QED
      BY <1>0, <3>1, <3>2
  <2>3. StampIsNow'
    BY DEF StampIsNow, At
  <2> QED
    BY <2>1, <2>2, <2>3 DEF StampsInv
<1>12. NoJoinYet'
  <2> SUFFICES ASSUME Unstarted'
               PROVE  /\ session >= 1 => Announced(hooks', n)
                      /\ \A j \in 1 .. n - 1 : hooks'[j].event = "participant_joined" => Announced(hooks', j)
                      /\ \A t \in Slot : task'[t].op # "joined"
    BY <1>0 DEF NoJoinYet
  <2>1. Unstarted /\ startedAt' = startedAt
    BY <1>0 DEF Unstarted
  <2>2. event # "room_started"
    <3> SUFFICES ASSUME event = "room_started" PROVE FALSE
      OBVIOUS
    <3>1. status # "LIVE"
      BY <1>0, <1>3 DEF MeetingInv, QueueInv, StartsFirst, n
    <3> QED
      BY <1>0, <2>1, <3>1 DEF Unstarted
  <2>3. session >= 1 => Announced(hooks', n)
    BY <1>0, <1>4, <2>1, <2>2 DEF MeetingInv, NoJoinYet, n
  <2>4. ASSUME NEW j \in 1 .. n - 1, hooks'[j].event = "participant_joined" PROVE Announced(hooks', j)
    <3>1. j + 1 \in 1 .. n /\ hooks[j + 1].event = "participant_joined"
      BY <1>1, <2>4
    <3>2. Announced(hooks, j + 1)
      <4>1. \A l \in 1 .. n : hooks[l].event = "participant_joined" => Announced(hooks, l)
        BY <2>1 DEF MeetingInv, NoJoinYet, n
      <4> QED
        BY <3>1, <4>1
    <3>3. j \in 1 .. n
      BY <1>0
    <3> QED
      BY <1>4, <2>2, <3>2, <3>3
  <2>5. event # "participant_joined"
    <3>1. ~Announced(hooks, 1)
      BY DEF Announced
    <3> QED
      BY <1>0, <2>1, <3>1 DEF MeetingInv, NoJoinYet, n
  <2> QED
    BY <2>3, <2>4, <2>5
<1>13. SessionsNotMixed'
  BY DEF MeetingInv, SessionsNotMixed
<1> QED
  BY <1>7, <1>8, <1>10, <1>11, <1>12, <1>13

\* LiveKit posts webhooks s: of the meeting it holds or of one it opens, the joins those
\* of the last session, a closed room last of all.
Sent(s) ==
  /\ s \in Seq(Hook) /\ hooks' = hooks \o s
  /\ session' \in {session, session + 1}
  /\ session' = session => \A k \in 1 .. Len(s) : ~Starting(s, k)
  /\ session' # session => /\ ~open /\ Len(s) > 0 /\ Starting(s, 1)
                           /\ \A k \in 2 .. Len(s) : ~Starting(s, k)
  /\ \A k \in 1 .. Len(s) : s[k].event = "participant_joined" =>
       s[k].conn \in DOMAIN conns' /\ conns'[s[k].conn].session = session' /\ session' >= 1
  /\ ~open' => Len(s) > 0 /\ s[Len(s)].event = "room_finished"
  /\ DOMAIN conns \subseteq DOMAIN conns' /\ \A c \in DOMAIN conns : conns'[c] = conns[c]

SameHandling == /\ UNCHANGED <<status, startedAt, sheet>>
                /\ \A t \in Slot : Handling(t)' => task'[t] = task[t]

LEMMA Sends ==
  ASSUME MeetingInv, NEW s, Sent(s), SameHandling, DOMAIN conns' \subseteq Conn
  PROVE  KnownInv' /\ QueueInv' /\ JoinsInv' /\ StampsInv' /\ NoJoinYet' /\ SessionsNotMixed'
<1> DEFINE n == Len(hooks)
           N == Len(hooks')
<1>0. n \in Nat /\ N \in Nat /\ N = n + Len(s) /\ Len(s) \in Nat /\ hooks \in Seq(Hook) /\ s \in Seq(Hook)
  <2>1. hooks \in Seq(Hook) /\ s \in Seq(Hook) /\ hooks' = hooks \o s
    BY DEF MeetingInv, TypeInv, TypeOK, Sent
  <2> QED
    BY <2>1, LenProperties, ConcatProperties
<1>a. \A j \in 1 .. n : hooks'[j] = hooks[j]
  BY <1>0, ConcatProperties DEF Sent
<1>s. \A j \in n + 1 .. N : j - n \in 1 .. Len(s) /\ hooks'[j] = s[j - n]
  BY <1>0, ConcatProperties DEF Sent
<1>v. DOMAIN conns \subseteq DOMAIN conns' /\ (\A c \in DOMAIN conns : conns'[c] = conns[c])
      /\ session' \in {session, session + 1} /\ session \in Nat
      /\ UNCHANGED <<status, startedAt, sheet>> /\ startedAt \in Nat
  BY DEF Sent, SameHandling, MeetingInv, TypeInv, TypeOK
<1>h. \A t \in Slot : Handling(t)' => Handling(t) /\ task'[t] = task[t]
  BY DEF SameHandling, Handling
<1>j. \A t \in Slot : task'[t].op = "joined" => task'[t] = task[t] /\ task[t].op = "joined" /\ task[t].conn \in DOMAIN conns
  BY <1>h DEF Handling, MeetingInv, KnownInv, HandledKnown
<1> HIDE DEF n, N
<1>b. session' = session => \A k \in n + 1 .. N : ~Starting(hooks', k)
  BY <1>s DEF Sent, Starting
<1>c. session' # session => /\ ~open /\ n + 1 \in 1 .. N /\ Starting(hooks', n + 1)
                            /\ \A k \in n + 2 .. N : ~Starting(hooks', k)
  <2> SUFFICES ASSUME session' # session
               PROVE  /\ ~open /\ n + 1 \in 1 .. N /\ Starting(hooks', n + 1)
                      /\ \A k \in n + 2 .. N : ~Starting(hooks', k)
    OBVIOUS
  <2>1. ~open /\ Len(s) > 0 /\ Starting(s, 1) /\ \A k \in 2 .. Len(s) : ~Starting(s, k)
    BY DEF Sent
  <2>2. n + 1 \in 1 .. N /\ n + 1 \in n + 1 .. N /\ (n + 1) - n = 1
    BY <1>0, <2>1
  <2>3. Starting(hooks', n + 1)
    BY <1>s, <2>1, <2>2 DEF Starting
  <2>4. ASSUME NEW k \in n + 2 .. N PROVE ~Starting(hooks', k)
    <3>1. k \in n + 1 .. N /\ k - n \in 2 .. Len(s)
      BY <1>0
    <3> QED
      BY <1>s, <2>1, <3>1 DEF Starting
  <2> QED
    BY <2>1, <2>2, <2>3, <2>4
<1>d. \A k \in n + 1 .. N : hooks'[k].event = "participant_joined" =>
        hooks'[k].conn \in DOMAIN conns' /\ conns'[hooks'[k].conn].session = session' /\ session' >= 1
  <2> SUFFICES ASSUME NEW k \in n + 1 .. N, hooks'[k].event = "participant_joined"
               PROVE  hooks'[k].conn \in DOMAIN conns' /\ conns'[hooks'[k].conn].session = session' /\ session' >= 1
    OBVIOUS
  <2>1. k - n \in 1 .. Len(s) /\ hooks'[k] = s[k - n]
    BY <1>s
  <2> QED
    BY <2>1 DEF Sent
<1>e. ~open' => N > 0 /\ hooks'[N].event = "room_finished"
  <2>1. Len(s) > 0 => N \in n + 1 .. N /\ N - n = Len(s) /\ N > 0
    BY <1>0
  <2> QED
    BY <1>s, <2>1 DEF Sent
<1>f. \A j \in 1 .. n + 1 : Announced(hooks, j) => Announced(hooks', j)
  <2> SUFFICES ASSUME NEW j \in 1 .. n + 1, NEW k \in 1 .. n, k < j, Starting(hooks, k) PROVE Announced(hooks', j)
    BY DEF Announced, n
  <2>1. k \in 1 .. N /\ Starting(hooks', k)
    BY <1>0, <1>a DEF Starting
  <2> QED
    BY <2>1 DEF Announced, N
<1>g. \A j \in n + 1 .. N + 1 : Announced(hooks, n + 1) => Announced(hooks', j)
  <2> SUFFICES ASSUME NEW j \in n + 1 .. N + 1, NEW k \in 1 .. n, Starting(hooks, k) PROVE Announced(hooks', j)
    BY DEF Announced, n
  <2>1. k \in 1 .. N /\ k < j /\ Starting(hooks', k)
    BY <1>0, <1>a DEF Starting
  <2> QED
    BY <2>1 DEF Announced, N
<1>i. \A j \in n + 2 .. N + 1 : session' # session => Announced(hooks', j)
  <2> SUFFICES ASSUME NEW j \in n + 2 .. N + 1, session' # session PROVE Announced(hooks', j)
    OBVIOUS
  <2>1. n + 1 \in 1 .. N /\ n + 1 < j /\ Starting(hooks', n + 1)
    BY <1>0, <1>c
  <2> QED
    BY <2>1 DEF Announced, N
\* A new join comes after the start of its meeting.
<1>k. \A j \in n + 1 .. N : hooks'[j].event = "participant_joined" /\ session' # session => j \in n + 2 .. N
  <2> SUFFICES ASSUME NEW j \in n + 1 .. N, hooks'[j].event = "participant_joined", session' # session PROVE j \in n + 2 .. N
    OBVIOUS
  <2>1. j # n + 1
    BY <1>c DEF Starting
  <2> QED
    BY <1>0, <2>1
\* The joins there were are of the connections there were.
<1>l. \A j \in 1 .. n : \A c : Joining(hooks', j, c) => Joining(hooks, j, c) /\ c \in DOMAIN conns
  <2> SUFFICES ASSUME NEW j \in 1 .. n, NEW c, Joining(hooks', j, c) PROVE Joining(hooks, j, c) /\ c \in DOMAIN conns
    OBVIOUS
  <2>1. Joining(hooks, j, c)
    BY <1>a DEF Joining
  <2>2. hooks[j].conn \in DOMAIN conns
    BY <2>1 DEF Joining, MeetingInv, KnownInv, JoinsKnown, n
  <2> QED
    BY <2>1, <2>2 DEF Joining
<1>m. \A j \in n + 1 .. N : \A c : Joining(hooks', j, c) => c \in DOMAIN conns' /\ conns'[c].session = session'
  BY <1>d DEF Joining
<1>6. \A c \in DOMAIN conns : Behind(hooks, conns, session, c) => Behind(hooks', conns', session', c)
  <2> SUFFICES ASSUME NEW c \in DOMAIN conns, Behind(hooks, conns, session, c) PROVE Behind(hooks', conns', session', c)
    OBVIOUS
  <2>0. conns'[c] = conns[c]
    BY <1>v
  <2>1. ASSUME NEW j \in 1 .. N, NEW d \in DOMAIN conns', Joining(hooks', j, d), ~SameMeeting(conns', c, d)
        PROVE  Announced(hooks', j)
    <3>1. CASE j \in 1 .. n
      <4>1. Joining(hooks, j, d) /\ d \in DOMAIN conns
        BY <1>l, <2>1, <3>1
      <4>2. ~SameMeeting(conns, c, d)
        BY <1>v, <2>0, <2>1, <4>1 DEF SameMeeting
      <4>3. Announced(hooks, j)
        BY <3>1, <4>1, <4>2 DEF Behind, n
      <4>4. j \in 1 .. n + 1
        BY <1>0, <3>1
      <4> QED
        BY <1>f, <4>3, <4>4
    <3>2. CASE j \in n + 1 .. N
      <4>1. conns'[d].session = session'
        BY <1>m, <2>1, <3>2
      <4>2. conns[c].session # session'
        BY <2>0, <2>1, <4>1 DEF SameMeeting
      <4>3. CASE session' = session
        <5>1. Announced(hooks, n + 1)
          BY <4>2, <4>3 DEF Behind, n
        <5>2. j \in n + 1 .. N + 1
          BY <1>0, <3>2
        <5> QED
          BY <1>g, <5>1, <5>2
      <4>4. CASE session' # session
        <5>1. j \in n + 2 .. N
          BY <1>k, <2>1, <3>2, <4>4 DEF Joining
        <5>2. j \in n + 2 .. N + 1
          BY <1>0, <5>1
        <5> QED
          BY <1>i, <4>4, <5>2
      <4> QED
        BY <4>3, <4>4
    <3> QED
      BY <1>0, <3>1, <3>2
  <2>2. ASSUME conns'[c].session # session' PROVE Announced(hooks', N + 1)
    <3>1. CASE session' = session
      <4>1. Announced(hooks, n + 1)
        BY <2>0, <2>2, <3>1 DEF Behind, n
      <4>2. N + 1 \in n + 1 .. N + 1
        BY <1>0
      <4> QED
        BY <1>g, <4>1, <4>2
    <3>2. CASE session' # session
      <4>1. N + 1 \in n + 2 .. N + 1
        BY <1>0, <1>c, <3>2
      <4> QED
        BY <1>i, <3>2, <4>1
    <3> QED
      BY <3>1, <3>2
  <2> QED
    BY <2>1, <2>2 DEF Behind, N
<1>7. KnownInv'
  <2>1. HandledKnown'
    BY <1>h, <1>v DEF HandledKnown, MeetingInv, KnownInv
  <2>2. JoinsKnown'
    <3> SUFFICES ASSUME NEW j \in 1 .. N, hooks'[j].event = "participant_joined" PROVE hooks'[j].conn \in DOMAIN conns'
      BY DEF JoinsKnown, N
    <3>1. CASE j \in 1 .. n
      <4>1. Joining(hooks', j, hooks'[j].conn)
        BY DEF Joining
      <4> QED
        BY <1>l, <1>v, <3>1, <4>1
    <3>2. CASE j \in n + 1 .. N
      BY <1>d, <3>2
    <3> QED
      BY <1>0, <3>1, <3>2
  <2>3. RowsKnown'
    BY <1>v DEF MeetingInv, KnownInv, RowsKnown, Recorded, Exists
  <2> QED
    BY <2>1, <2>2, <2>3 DEF KnownInv
<1>8. QueueInv'
  <2>1. StartsFollow'
    <3> SUFFICES ASSUME NEW k \in 2 .. N, Starting(hooks', k) PROVE hooks'[k - 1].event = "room_finished"
      BY DEF StartsFollow, N
    <3>1. CASE k \in 2 .. n
      <4>1. k \in 1 .. n /\ k - 1 \in 1 .. n
        BY <1>0, <3>1
      <4>2. Starting(hooks, k) /\ hooks'[k - 1] = hooks[k - 1]
        BY <1>a, <4>1 DEF Starting
      <4> QED
        BY <3>1, <4>2 DEF MeetingInv, QueueInv, StartsFollow, n
    <3>2. CASE k \in n + 1 .. N
      <4>1. session' # session
        BY <1>b, <3>2
      <4>2. k = n + 1 /\ n > 0
        BY <1>0, <1>c, <3>2, <4>1
      <4>3. hooks[n].event = "room_finished"
        BY <1>c, <4>1, <4>2 DEF MeetingInv, QueueInv, ClosedTail, n
      <4>4. n \in 1 .. n /\ k - 1 = n
        BY <1>0, <4>2
      <4> QED
        BY <1>a, <4>3, <4>4
    <3> QED
      BY <1>0, <3>1, <3>2
  <2>2. StartsFirst'
    <3> SUFFICES ASSUME N > 0, Starting(hooks', 1) PROVE status # "LIVE" /\ \A t \in Slot : ~Handling(t)
      BY <1>h, <1>v DEF StartsFirst, N
    <3>1. CASE n > 0
      <4>1. 1 \in 1 .. n
        BY <1>0, <3>1
      <4>2. Starting(hooks, 1)
        BY <1>a, <4>1 DEF Starting
      <4> QED
        BY <3>1, <4>2 DEF MeetingInv, QueueInv, StartsFirst, n
    <3>2. CASE n = 0
      <4>1. 1 \in n + 1 .. N
        BY <1>0, <3>2
      <4>2. ~open
        BY <1>b, <1>c, <4>1
      <4> QED
        BY <3>2, <4>2 DEF MeetingInv, QueueInv, ClosedTail, n
    <3> QED
      BY <1>0, <3>1, <3>2
  <2>3. ClosedTail'
    BY <1>e DEF ClosedTail, N
  <2> QED
    BY <2>1, <2>2, <2>3 DEF QueueInv
<1>9. JoinsInv'
  <2>1. JoinsApart'
    <3> SUFFICES ASSUME NEW i \in 1 .. N, NEW j \in 1 .. N, NEW c \in DOMAIN conns', NEW d \in DOMAIN conns',
                        i < j, Joining(hooks', i, c), Joining(hooks', j, d), ~SameMeeting(conns', c, d)
                 PROVE  \E k \in i + 1 .. j - 1 : Starting(hooks', k)
      BY DEF JoinsApart, N
    <3>1. CASE i \in 1 .. n /\ j \in 1 .. n
      <4>1. Joining(hooks, i, c) /\ Joining(hooks, j, d) /\ c \in DOMAIN conns /\ d \in DOMAIN conns
        BY <1>l, <3>1
      <4>2. ~SameMeeting(conns, c, d)
        BY <1>v, <4>1 DEF SameMeeting
      <4>3. PICK k \in i + 1 .. j - 1 : Starting(hooks, k)
        BY <3>1, <4>1, <4>2 DEF MeetingInv, JoinsInv, JoinsApart, n
      <4>4. k \in 1 .. n
        BY <1>0, <3>1
      <4>5. Starting(hooks', k)
        BY <1>a, <4>3, <4>4 DEF Starting
      <4> QED
        BY <4>5
    <3>2. CASE i \in 1 .. n /\ j \in n + 1 .. N
      <4>1. Joining(hooks, i, c) /\ c \in DOMAIN conns /\ conns'[d].session = session'
        BY <1>l, <1>m, <3>2
      <4>2. conns[c].session # session'
        BY <1>v, <4>1 DEF SameMeeting
      <4>3. CASE session' = session
        <5>1. PICK k \in i + 1 .. n : Starting(hooks, k)
          BY <3>2, <4>1, <4>2, <4>3 DEF MeetingInv, JoinsInv, JoinsBehind, n
        <5>2. k \in 1 .. n /\ k \in i + 1 .. j - 1
          BY <1>0, <3>2
        <5>3. Starting(hooks', k)
          BY <1>a, <5>1, <5>2 DEF Starting
        <5> QED
          BY <5>2, <5>3
      <4>4. CASE session' # session
        <5>1. j \in n + 2 .. N
          BY <1>k, <3>2, <4>4 DEF Joining
        <5>2. n + 1 \in i + 1 .. j - 1
          BY <1>0, <3>2, <5>1
        <5> QED
          BY <1>c, <4>4, <5>2
      <4> QED
        BY <4>3, <4>4
    <3>3. CASE i \in n + 1 .. N /\ j \in n + 1 .. N
      BY <1>m, <3>3 DEF SameMeeting
    <3> QED
      BY <1>0, <3>1, <3>2, <3>3
  <2>2. JoinsBehind'
    <3> SUFFICES ASSUME NEW i \in 1 .. N, NEW c \in DOMAIN conns', Joining(hooks', i, c), conns'[c].session # session'
                 PROVE  \E k \in i + 1 .. N : Starting(hooks', k)
      BY DEF JoinsBehind, N
    <3>1. i \in 1 .. n
      BY <1>0, <1>m
    <3>2. Joining(hooks, i, c) /\ c \in DOMAIN conns
      BY <1>l, <3>1
    <3>3. CASE session' = session
      <4>1. PICK k \in i + 1 .. n : Starting(hooks, k)
        BY <1>v, <3>1, <3>2, <3>3 DEF MeetingInv, JoinsInv, JoinsBehind, n
      <4>2. k \in 1 .. n /\ k \in i + 1 .. N
        BY <1>0, <3>1
      <4>3. Starting(hooks', k)
        BY <1>a, <4>1, <4>2 DEF Starting
      <4> QED
        BY <4>2, <4>3
    <3>4. CASE session' # session
      <4>1. n + 1 \in i + 1 .. N
        BY <1>0, <1>c, <3>1, <3>4
      <4> QED
        BY <1>c, <3>4, <4>1
    <3> QED
      BY <3>3, <3>4
  <2>3. HandledBehind'
    <3> SUFFICES ASSUME NEW t \in Slot, task'[t].op = "joined" PROVE Behind(hooks', conns', session', task'[t].conn)
      BY DEF HandledBehind
    <3>1. task'[t] = task[t] /\ task[t].op = "joined" /\ task[t].conn \in DOMAIN conns
      BY <1>j
    <3>2. Behind(hooks, conns, session, task[t].conn)
      BY <3>1 DEF MeetingInv, JoinsInv, HandledBehind
    <3>3. Behind(hooks', conns', session', task[t].conn)
      BY <1>6, <3>1, <3>2
    <3> QED
      BY <3>1, <3>3
  <2> QED
    BY <2>1, <2>2, <2>3 DEF JoinsInv
<1>10. StampsInv'
  <2>1. RowsBehind'
    <3> SUFFICES ASSUME NEW c \in Conn, Recorded(c)
                 PROVE  sheet[c].stamp < startedAt \/ Behind(hooks', conns', session', c)
      BY <1>v DEF RowsBehind, Recorded
    <3>1. c \in DOMAIN conns
      BY DEF MeetingInv, KnownInv, RowsKnown
    <3>2. sheet[c].stamp < startedAt \/ Behind(hooks, conns, session, c)
      BY DEF MeetingInv, StampsInv, RowsBehind
    <3> QED
      BY <1>6, <3>1, <3>2
  <2>2. RowsOlder'
    <3> SUFFICES ASSUME NEW t \in Slot, NEW c \in Conn, task'[t].op = "joined", Recorded(c),
                        ~SameMeeting(conns', c, task'[t].conn)
                 PROVE  sheet[c].stamp < startedAt
      BY <1>v DEF RowsOlder, Recorded
    <3>1. task'[t] = task[t] /\ task[t].op = "joined" /\ task[t].conn \in DOMAIN conns
      BY <1>j
    <3>2. c \in DOMAIN conns
      BY DEF MeetingInv, KnownInv, RowsKnown
    <3>3. ~SameMeeting(conns, c, task[t].conn)
      BY <1>v, <3>1, <3>2 DEF SameMeeting
    <3> QED
      BY <3>1, <3>3 DEF MeetingInv, StampsInv, RowsOlder
  <2>3. StampIsNow'
    <3> SUFFICES ASSUME NEW t \in Slot, task'[t].op = "joined", task'[t].at = "record", Exists
                 PROVE  task'[t].stamp = startedAt
      BY <1>v DEF StampIsNow, At, Exists
    <3>1. task'[t] = task[t]
      BY <1>j
    <3> QED
      BY <3>1 DEF MeetingInv, StampsInv, StampIsNow, At
  <2> QED
    BY <2>1, <2>2, <2>3 DEF StampsInv
<1>11. NoJoinYet'
  <2> SUFFICES ASSUME Unstarted
               PROVE  /\ session' >= 1 => Announced(hooks', N + 1)
                      /\ \A j \in 1 .. N : hooks'[j].event = "participant_joined" => Announced(hooks', j)
                      /\ \A t \in Slot : task'[t].op # "joined"
    BY <1>v DEF NoJoinYet, Unstarted, Exists, N
  <2>0. /\ session >= 1 => Announced(hooks, n + 1)
        /\ \A j \in 1 .. n : hooks[j].event = "participant_joined" => Announced(hooks, j)
        /\ \A t \in Slot : task[t].op # "joined"
    BY DEF MeetingInv, NoJoinYet, n
  <2>1. ASSUME session' >= 1, NEW j \in n + 1 .. N + 1, session' # session => j # n + 1 PROVE Announced(hooks', j)
    <3>1. CASE session' = session
      BY <1>g, <2>0, <2>1, <3>1
    <3>2. CASE session' # session
      <4>1. j \in n + 2 .. N + 1
        BY <1>0, <2>1, <3>2
      <4> QED
        BY <1>i, <3>2, <4>1
    <3> QED
      BY <3>1, <3>2
  <2>2. ASSUME session' >= 1 PROVE Announced(hooks', N + 1)
    <3>1. N + 1 \in n + 1 .. N + 1 /\ (session' # session => N + 1 # n + 1)
      BY <1>0, <1>c
    <3> QED
      BY <2>1, <2>2, <3>1
  <2>3. ASSUME NEW j \in 1 .. N, hooks'[j].event = "participant_joined" PROVE Announced(hooks', j)
    <3>1. CASE j \in 1 .. n
      <4>1. hooks'[j] = hooks[j] /\ j \in 1 .. n + 1
        BY <1>0, <1>a, <3>1
      <4>2. Announced(hooks, j)
        BY <2>0, <2>3, <3>1, <4>1
      <4> QED
        BY <1>f, <4>1, <4>2
    <3>2. CASE j \in n + 1 .. N
      <4>1. session' >= 1
        BY <1>d, <2>3, <3>2
      <4>2. session' # session => j \in n + 2 .. N
        BY <1>k, <2>3, <3>2
      <4>3. j \in n + 1 .. N + 1 /\ (session' # session => j # n + 1)
        BY <1>0, <3>2, <4>2
      <4> QED
        BY <2>1, <4>1, <4>3
    <3> QED
      BY <1>0, <3>1, <3>2
  <2>4. \A t \in Slot : task'[t].op # "joined"
    BY <1>j, <2>0
  <2> QED
    BY <2>2, <2>3, <2>4
<1>12. SessionsNotMixed'
  <2> SUFFICES ASSUME NEW c \in DOMAIN conns', NEW d \in DOMAIN conns', Recorded(c), Recorded(d),
                      conns'[c].session # conns'[d].session
               PROVE  sheet[c].stamp # sheet[d].stamp
    BY <1>v DEF SessionsNotMixed, Recorded
  <2>1. c \in DOMAIN conns /\ d \in DOMAIN conns
    BY DEF MeetingInv, KnownInv, RowsKnown
  <2> QED
    BY <1>v, <2>1 DEF MeetingInv, SessionsNotMixed, Recorded
<1> QED
  BY <1>7, <1>8, <1>9, <1>10, <1>11, <1>12

\* Webhooks that start no meeting, and whose joins are of connections C.
Calm(x, C) ==
  /\ x \in Seq(Hook)
  /\ \A k \in 1 .. Len(x) : ~Starting(x, k) /\ (x[k].event = "participant_joined" => x[k].conn \in C)

LEMMA CalmConcat ==
  ASSUME NEW x, NEW y, NEW C, Calm(x, C), Calm(y, C)
  PROVE  Calm(x \o y, C)
<1>1. /\ x \in Seq(Hook) /\ y \in Seq(Hook) /\ Len(x) \in Nat /\ Len(y) \in Nat
      /\ x \o y \in Seq(Hook) /\ Len(x \o y) = Len(x) + Len(y)
  BY LenProperties, ConcatProperties DEF Calm
<1>2. ASSUME NEW k \in 1 .. Len(x \o y)
      PROVE  ~Starting(x \o y, k) /\ ((x \o y)[k].event = "participant_joined" => (x \o y)[k].conn \in C)
  <2>1. CASE k <= Len(x)
    <3>1. k \in 1 .. Len(x) /\ (x \o y)[k] = x[k]
      BY <1>1, <2>1, ConcatProperties
    <3> QED
      BY <3>1 DEF Calm, Starting
  <2>2. CASE k > Len(x)
    <3>1. k - Len(x) \in 1 .. Len(y) /\ (x \o y)[k] = y[k - Len(x)]
      BY <1>1, <2>2, ConcatProperties
    <3> QED
      BY <3>1 DEF Calm, Starting
  <2> QED
    BY <1>1, <2>1, <2>2
<1> QED
  BY <1>1, <1>2 DEF Calm

LEMMA CalmLefts ==
  ASSUME NEW S \in SUBSET Conn, NEW x \in Lefts(S), NEW C
  PROVE  Calm(x, C)
<1>1. x \in Seq(Hook) /\ \A j \in DOMAIN x : x[j].event = "participant_left"
  BY LeftsAreHooks
<1>2. DOMAIN x = 1 .. Len(x)
  BY <1>1, LenProperties
<1> QED
  BY <1>1, <1>2 DEF Calm, Starting

LEMMA CalmOne ==
  ASSUME NEW event \in {"room_finished", "participant_joined", "participant_left"}, NEW c \in 0 .. MaxConn, NEW C,
         event = "participant_joined" => c \in C
  PROVE  Calm(<<About(event, c)>>, C)
<1>1. <<About(event, c)>> \in Seq(Hook) /\ Len(<<About(event, c)>>) = 1 /\ <<About(event, c)>>[1] = About(event, c)
  BY OneEvent
<1>2. About(event, c).event = event /\ About(event, c).conn = c
  BY DEF About
<1> QED
  BY <1>1, <1>2 DEF Calm, Starting

\* LiveKit opens the room if need be, and posts webhooks of the meeting.
LEMMA OpensSends ==
  ASSUME MeetingInv, NEW C, NEW x, Calm(x, C), Opens(x),
         DOMAIN conns \subseteq DOMAIN conns', \A c \in DOMAIN conns : conns'[c] = conns[c],
         \A c \in C : c \in DOMAIN conns' /\ conns'[c].session = session'
  PROVE  \E s : Sent(s)
<1>1. hooks \in Seq(Hook) /\ x \in Seq(Hook) /\ session \in Nat
  BY DEF MeetingInv, TypeInv, TypeOK, Calm
<1>2. open' = TRUE /\ session' \in 1 .. MaxSession
  BY <1>1, OpensTypes DEF MeetingInv
<1>3. CASE open
  <2>1. session' = session /\ hooks' = hooks \o x
    BY <1>3 DEF Opens
  <2>2. \A k \in 1 .. Len(x) : x[k].event = "participant_joined" =>
          x[k].conn \in DOMAIN conns' /\ conns'[x[k].conn].session = session' /\ session' >= 1
    BY <1>2 DEF Calm
  <2>3. session' = session => \A k \in 1 .. Len(x) : ~Starting(x, k)
    BY DEF Calm
  <2>4. Sent(x)
    BY <1>1, <1>2, <2>1, <2>2, <2>3 DEF Sent
  <2> QED
    BY <2>4
<1>4. CASE ~open
  <2> DEFINE e == RoomEvent("room_started")
             s == e \o x
  <2>1. session' = session + 1 /\ hooks' = hooks \o e \o x
    BY <1>4 DEF Opens
  <2>2. e \in Seq(Hook) /\ Len(e) = 1 /\ e[1].event = "room_started"
    BY OneEvent DEF RoomEvent, About
  <2> HIDE DEF e
  <2>3. s \in Seq(Hook) /\ Len(s) = 1 + Len(x) /\ Len(x) \in Nat
    <3>1. Len(x) \in Nat
      BY <1>1, LenProperties
    <3>2. s \in Seq(Hook) /\ Len(s) = Len(e) + Len(x)
      BY <1>1, <2>2, ConcatProperties
    <3> QED
      BY <2>2, <3>1, <3>2
  <2>4. hooks' = hooks \o s
    BY <1>1, <2>1, <2>2, ConcatAssociative
  <2>5. s[1] = e[1] /\ \A k \in 2 .. Len(s) : k - 1 \in 1 .. Len(x) /\ s[k] = x[k - 1]
    BY <1>1, <2>2, <2>3, ConcatProperties
  <2> HIDE DEF s
  <2>6. Starting(s, 1)
    BY <2>2, <2>5 DEF Starting
  <2>7. \A k \in 2 .. Len(s) : ~Starting(s, k) /\ (s[k].event = "participant_joined" => s[k].conn \in C)
    BY <2>5 DEF Calm, Starting
  <2>8. \A k \in 1 .. Len(s) : s[k].event = "participant_joined" => s[k].conn \in C
    <3> SUFFICES ASSUME NEW k \in 1 .. Len(s), s[k].event = "participant_joined" PROVE s[k].conn \in C
      OBVIOUS
    <3>1. k # 1
      BY <2>6 DEF Starting
    <3>2. k \in 2 .. Len(s)
      BY <2>3, <3>1
    <3> QED
      BY <2>7, <3>2
  <2>9. \A k \in 2 .. Len(s) : ~Starting(s, k)
    BY <2>7
  <2>10. session' >= 1 /\ session' # session /\ Len(s) > 0
    BY <1>1, <2>1, <2>3
  <2>11. Sent(s)
    BY <1>2, <1>4, <2>1, <2>3, <2>4, <2>6, <2>8, <2>9, <2>10 DEF Sent
  <2> QED
    BY <2>11
<1> QED
  BY <1>3, <1>4

\* LiveKit closes the room.
LEMMA ClosesSends ==
  ASSUME MeetingInv, Closes
  PROVE  \E s : Sent(s)
<1>1. PICK l \in Lefts(inside) : hooks' = hooks \o l \o RoomEvent("room_finished")
  BY DEF Closes
<1> DEFINE e == RoomEvent("room_finished")
           s == l \o e
<1>2. inside \in SUBSET Conn /\ hooks \in Seq(Hook) /\ session \in Nat
  BY LenProperties DEF MeetingInv, TypeInv, TypeOK, Conn
<1>3. Calm(l, {}) /\ Calm(e, {})
  BY <1>2, CalmLefts, CalmOne DEF RoomEvent
<1>4. Calm(s, {})
  BY <1>3, CalmConcat
<1>5. e \in Seq(Hook) /\ Len(e) = 1 /\ e[1].event = "room_finished"
  BY OneEvent DEF RoomEvent, About
<1> HIDE DEF e
<1>6. l \in Seq(Hook) /\ Len(l) \in Nat
  BY <1>3, LenProperties DEF Calm
<1>7. hooks' = hooks \o s
  BY <1>1, <1>2, <1>5, <1>6, ConcatAssociative DEF e
<1>8. Len(s) = Len(l) + 1 /\ s[Len(l) + 1] = e[1]
  BY <1>5, <1>6, ConcatProperties
<1> HIDE DEF s
<1>9. Len(s) > 0 /\ s[Len(s)].event = "room_finished"
  BY <1>5, <1>6, <1>8
<1>10. session' = session /\ conns' = conns
  BY DEF Closes
<1>11. Sent(s)
  BY <1>2, <1>4, <1>7, <1>9, <1>10 DEF Sent, Calm
<1> QED
  BY <1>11

-----------------------------------------------------------------------------
(* The handlers                                                             *)

\* A handler of something else goes on.
LEMMA OtherGoes ==
  ASSUME MeetingInv, NEW t \in Slot, NEW x, Go(t, x), t \notin Courier, x.op \notin {"joined", "left"}
  PROVE  Handlers' /\ \A u \in Slot : Handling(u)' => task'[u] = task[u]
<1>1. task'[t] = x /\ \A u \in Slot \ {t} : task'[u] = task[u]
  BY GoSets DEF MeetingInv, TypeInv, TypeOK, TasksOK
<1>2. Courier \subseteq Slot
  BY DEF Slot
<1>3. \A u \in Slot : Handling(u)' => u # t /\ task'[u] = task[u] /\ Handling(u)
  BY <1>1 DEF Handling
<1>4. \A u \in Courier : task'[u] = task[u]
  BY <1>1, <1>2
<1> QED
  BY <1>3, <1>4 DEF MeetingInv, Handlers, Handling, Free

\* A handler is done.
LEMMA OneIsDone ==
  ASSUME MeetingInv, NEW t \in Slot, Done(t)
  PROVE  /\ Handlers' /\ ~Handling(t)'
         /\ \A u \in Slot : Handling(u)' => task'[u] = task[u] /\ Handling(u) /\ u # t
<1>1. task'[t] = Idle /\ \A u \in Slot \ {t} : task'[u] = task[u]
  BY GoSets DEF Done, MeetingInv, TypeInv, TypeOK, TasksOK
<1>2. Courier \subseteq Slot
  BY DEF Slot
<1>3. ~Handling(t)'
  BY <1>1, IdleType DEF Handling
<1>4. \A u \in Slot : Handling(u)' => task'[u] = task[u] /\ Handling(u) /\ u # t
  BY <1>1, <1>3 DEF Handling
<1>5. \A u \in Courier : task'[u] = Idle \/ (task'[u] = task[u])
  BY <1>1, <1>2
<1> QED
  BY <1>3, <1>4, <1>5 DEF MeetingInv, Handlers, Handling, Free

\* A handler in flight that is not of a webhook is not a courier's.
LEMMA NotCourier ==
  ASSUME MeetingInv, NEW t \in Slot, task[t].op \in {"join", "enter", "close", "remove"}
  PROVE  t \notin Courier
BY IdleType DEF MeetingInv, Handlers, Handling

-----------------------------------------------------------------------------
(* Each step                                                                *)

\* What the lemmas above keep.
Rest == KnownInv /\ QueueInv /\ JoinsInv /\ StampsInv /\ NoJoinYet /\ SessionsNotMixed

\* A handler of no webhook takes a step that LiveKit has no part in, or only that of
\* opening or closing the room.
LEMMA OtherStep ==
  ASSUME MeetingInv, NEW t \in Slot, NEW x, Go(t, x), t \notin Courier, x.op \notin {"joined", "left"},
         UNCHANGED <<startedAt, sheet, lkVars>>, status' = "LIVE" => status = "LIVE", Exists' <=> Exists
  PROVE  Handlers' /\ Rest'
<1>1. Handlers' /\ \A u \in Slot : Handling(u)' => task'[u] = task[u]
  BY OtherGoes
<1>2. \A u \in Slot : At(u, "joined", "record")' => task'[u] = task[u]
  BY <1>1 DEF At, Handling
<1>3. \A c \in Conn : Recorded(c) => Exists
  BY DEF MeetingInv, KnownInv, RowsKnown
<1>4. Aside
  BY <1>1, <1>2, <1>3 DEF Aside, Recorded, lkVars
<1> QED
  BY <1>1, <1>4, Elsewhere DEF Rest

\* A handler ends with a step that LiveKit has no part in.
LEMMA LastStep ==
  ASSUME MeetingInv, NEW t \in Slot, Done(t), UNCHANGED <<startedAt, lkVars>>,
         status' = "LIVE" => status = "LIVE", Exists' => Exists,
         \A c \in Conn : Recorded(c)' => Recorded(c) /\ Exists' /\ sheet'[c].stamp = sheet[c].stamp
  PROVE  Handlers' /\ Rest'
<1>1. Handlers' /\ \A u \in Slot : Handling(u)' => task'[u] = task[u]
  BY OneIsDone
<1>2. \A u \in Slot : At(u, "joined", "record")' => task'[u] = task[u]
  BY <1>1 DEF At, Handling
<1>3. Aside
  BY <1>1, <1>2 DEF Aside, lkVars
<1> QED
  BY <1>1, <1>3, Elsewhere DEF Rest

\* The steps of join.
LEMMA JoinSteps ==
  ASSUME MeetingInv, TypeInv', NEW t \in Slot
  PROVE  /\ \A p \in Manager : t \in Request /\ JoinAsManager(t, p) => Handlers' /\ Rest'
         /\ \A p \in Viewer : t \in Request /\ JoinAsViewer(t, p) => Handlers' /\ Rest'
         /\ JoinCreates(t) \/ JoinWipes(t) \/ JoinResets(t) \/ HasActiveModerator(t) => Handlers' /\ Rest'
<1>r. t \in Request => t \notin Courier
  OBVIOUS
<1>1. ASSUME NEW p \in Manager, t \in Request, JoinAsManager(t, p) PROVE Handlers' /\ Rest'
  <2> DEFINE x == [Idle EXCEPT !.op = "join", !.at = "create", !.who = p, !.seen = status]
  <2>1. x.op = "join"
    BY IdleType DEF TaskState
  <2>2. Go(t, x) /\ UNCHANGED <<dbVars, lkVars, ticket>>
    BY <1>1 DEF JoinAsManager
  <2> HIDE DEF x
  <2> QED
    BY <1>1, <1>r, <2>1, <2>2, OtherStep DEF dbVars, Exists
<1>2. ASSUME NEW p \in Viewer, t \in Request, JoinAsViewer(t, p) PROVE Handlers' /\ Rest'
  <2> DEFINE x == [Idle EXCEPT !.op = "enter", !.at = "presence", !.who = p]
  <2>1. x.op = "enter"
    BY IdleType DEF TaskState
  <2>2. Go(t, x) /\ UNCHANGED <<dbVars, lkVars, ticket>>
    BY <1>2 DEF JoinAsViewer
  <2> HIDE DEF x
  <2> QED
    BY <1>2, <1>r, <2>1, <2>2, OtherStep DEF dbVars, Exists
<1>3. ASSUME JoinCreates(t) PROVE Handlers' /\ Rest'
  <2>0. Opens(<<>>) /\ UNCHANGED <<dbVars, conns>> /\ task[t].op = "join"
    BY <1>3 DEF JoinCreates, At
  <2>1. Calm(<<>>, {})
    BY DEF Calm
  <2>2. PICK s : Sent(s)
    BY <2>0, <2>1, OpensSends
  <2>3. t \notin Courier
    BY <2>0, NotCourier
  <2> DEFINE x == [task[t] EXCEPT !.at = "wipe"]
  <2>4. x.op = "join"
    BY <2>0 DEF MeetingInv, TypeInv, TypeOK, TaskState
  <2>5. Go(t, x) \/ Done(t)
    BY <1>3 DEF JoinCreates
  <2> HIDE DEF x
  <2>6. Handlers' /\ \A u \in Slot : Handling(u)' => task'[u] = task[u]
    BY <2>3, <2>4, <2>5, OtherGoes, OneIsDone
  <2>7. SameHandling
    BY <2>0, <2>6 DEF SameHandling, dbVars
  <2>8. DOMAIN conns' \subseteq Conn
    BY LenProperties DEF TypeInv, TypeOK, Conn
  <2> QED
    BY <2>2, <2>6, <2>7, <2>8, Sends DEF Rest
<1>4. ASSUME JoinWipes(t) PROVE Handlers' /\ Rest'
  <2> DEFINE x == [task[t] EXCEPT !.at = "reset"]
  <2>1. task[t].op = "join" /\ t \notin Courier
    BY <1>4, NotCourier DEF JoinWipes, At
  <2>2. x.op = "join"
    BY <2>1 DEF MeetingInv, TypeInv, TypeOK, TaskState
  <2>3. Go(t, x) /\ UNCHANGED <<status, startedAt, sheet, lkVars>>
    BY <1>4 DEF JoinWipes
  <2> HIDE DEF x
  <2> QED
    BY <2>1, <2>2, <2>3, OtherStep DEF Exists
<1>5. ASSUME JoinResets(t) PROVE Handlers' /\ Rest'
  <2>1. Done(t) /\ UNCHANGED <<startedAt, sheet, lkVars>> /\ (Exists' <=> Exists)
        /\ (status' = "LIVE" => status = "LIVE")
    BY <1>5 DEF JoinResets, Exists
  <2>2. \A c \in Conn : Recorded(c)' => Recorded(c) /\ Exists' /\ sheet'[c].stamp = sheet[c].stamp
    BY <2>1 DEF Recorded, MeetingInv, KnownInv, RowsKnown
  <2> QED
    BY <2>1, <2>2, LastStep
<1>6. ASSUME HasActiveModerator(t) PROVE Handlers' /\ Rest'
  <2>1. Done(t) /\ UNCHANGED <<dbVars, lkVars>>
    BY <1>6 DEF HasActiveModerator
  <2>2. \A c \in Conn : Recorded(c)' => Recorded(c) /\ Exists' /\ sheet'[c].stamp = sheet[c].stamp
    BY <2>1 DEF Recorded, MeetingInv, KnownInv, RowsKnown, dbVars, Exists
  <2> QED
    BY <2>1, <2>2, LastStep DEF dbVars, Exists
<1> QED
  BY <1>1, <1>2, <1>3, <1>4, <1>5, <1>6

\* The steps of close, of the cron and of remove.
LEMMA CloseSteps ==
  ASSUME MeetingInv, TypeInv', NEW t \in Slot
  PROVE  /\ t \in Request /\ (CloseRequest(t) \/ RemoveRequest(t)) => Handlers' /\ Rest'
         /\ CloseKills(t) \/ CloseEnds(t) \/ RemoveDrops(t) => Handlers' /\ Rest'
         /\ CronRead \/ CronLists \/ CronListFails => Handlers' /\ Rest'
<1>r. (t \in Request => t \notin Courier) /\ Cron \notin Courier /\ Cron \in Slot
  BY DEF Slot
<1>d. \A u \in Slot : [task[u] EXCEPT !.at = "kill"].op = task[u].op /\ [task[u] EXCEPT !.at = "end"].op = task[u].op
  BY DEF MeetingInv, TypeInv, TypeOK, TaskState
<1>e. UNCHANGED dbVars => \A c \in Conn : Recorded(c)' => Recorded(c) /\ Exists' /\ sheet'[c].stamp = sheet[c].stamp
  BY DEF Recorded, MeetingInv, KnownInv, RowsKnown, dbVars, Exists
<1>1. ASSUME t \in Request, CloseRequest(t) PROVE Handlers' /\ Rest'
  <2> DEFINE x == [Idle EXCEPT !.op = "close", !.at = "kill"]
  <2>1. x.op = "close"
    BY IdleType DEF TaskState
  <2>2. Go(t, x) /\ UNCHANGED <<dbVars, lkVars, ticket>>
    BY <1>1 DEF CloseRequest
  <2> HIDE DEF x
  <2> QED
    BY <1>1, <1>r, <2>1, <2>2, OtherStep DEF dbVars, Exists
<1>2. ASSUME t \in Request, RemoveRequest(t) PROVE Handlers' /\ Rest'
  <2> DEFINE x == [Idle EXCEPT !.op = "remove", !.at = "drop"]
  <2>1. x.op = "remove"
    BY IdleType DEF TaskState
  <2>2. Go(t, x) /\ UNCHANGED <<dbVars, lkVars, ticket>>
    BY <1>2 DEF RemoveRequest
  <2> HIDE DEF x
  <2> QED
    BY <1>2, <1>r, <2>1, <2>2, OtherStep DEF dbVars, Exists
<1>3. ASSUME CloseKills(t) PROVE Handlers' /\ Rest'
  <2> DEFINE x == [task[t] EXCEPT !.at = "end"]
  <2>1. task[t].op = "close" /\ t \notin Courier
    BY <1>3, NotCourier DEF CloseKills, At
  <2>2. x.op = "close"
    BY <1>d, <2>1
  <2>3. Go(t, x) /\ UNCHANGED dbVars /\ (Closes \/ UNCHANGED lkVars)
    BY <1>3 DEF CloseKills
  <2> HIDE DEF x
  <2>4. CASE UNCHANGED lkVars
    BY <2>1, <2>2, <2>3, <2>4, OtherStep DEF dbVars, Exists
  <2>5. CASE Closes
    <3>1. PICK s : Sent(s)
      BY <2>5, ClosesSends
    <3>2. Handlers' /\ \A u \in Slot : Handling(u)' => task'[u] = task[u]
      BY <2>1, <2>2, <2>3, OtherGoes
    <3>3. SameHandling
      BY <2>3, <3>2 DEF SameHandling, dbVars
    <3>4. DOMAIN conns' \subseteq Conn
      BY LenProperties DEF TypeInv, TypeOK, Conn
    <3> QED
      BY <3>1, <3>2, <3>3, <3>4, Sends DEF Rest
  <2> QED
    BY <2>3, <2>4, <2>5
<1>4. ASSUME CloseEnds(t) PROVE Handlers' /\ Rest'
  <2>1. Done(t) /\ UNCHANGED <<startedAt, sheet, lkVars>> /\ (Exists' <=> Exists)
        /\ (status' = "LIVE" => status = "LIVE")
    BY <1>4 DEF CloseEnds, Exists
  <2>2. \A c \in Conn : Recorded(c)' => Recorded(c) /\ Exists' /\ sheet'[c].stamp = sheet[c].stamp
    BY <2>1 DEF Recorded, MeetingInv, KnownInv, RowsKnown
  <2> QED
    BY <2>1, <2>2, LastStep
<1>5. ASSUME RemoveDrops(t) PROVE Handlers' /\ Rest'
  <2>1. Done(t) /\ UNCHANGED <<startedAt, lkVars>> /\ ~Exists' /\ status' # "LIVE"
    BY <1>5 DEF RemoveDrops, Exists
  <2>2. \A c \in Conn : ~Recorded(c)'
    BY <1>5 DEF RemoveDrops, Recorded
  <2> QED
    BY <2>1, <2>2, LastStep
<1>6. ASSUME CronRead PROVE Handlers' /\ Rest'
  <2> DEFINE x == [Idle EXCEPT !.op = "close", !.at = "list"]
  <2>1. x.op = "close"
    BY IdleType DEF TaskState
  <2>2. Go(Cron, x) /\ UNCHANGED <<dbVars, lkVars, ticket>>
    BY <1>6 DEF CronRead
  <2> HIDE DEF x
  <2> QED
    BY <1>r, <2>1, <2>2, OtherStep DEF dbVars, Exists
<1>7. ASSUME CronLists \/ CronListFails PROVE Handlers' /\ Rest'
  <2> DEFINE x == [task[Cron] EXCEPT !.at = "kill"]
  <2>1. task[Cron].op = "close" /\ x.op = "close"
    BY <1>7, <1>r, <1>d DEF CronLists, CronListFails, At
  <2>2. (Go(Cron, x) \/ Done(Cron)) /\ UNCHANGED <<dbVars, lkVars>>
    BY <1>7 DEF CronLists, CronListFails
  <2> HIDE DEF x
  <2>3. CASE Go(Cron, x)
    BY <1>r, <2>1, <2>2, <2>3, OtherStep DEF dbVars, Exists
  <2>4. CASE Done(Cron)
    <3>1. \A c \in Conn : Recorded(c)' => Recorded(c) /\ Exists' /\ sheet'[c].stamp = sheet[c].stamp
      BY <1>e, <2>2
    <3> QED
      BY <1>r, <2>2, <2>4, <3>1, LastStep DEF dbVars, Exists
  <2> QED
    BY <2>2, <2>3, <2>4
<1> QED
  BY <1>1, <1>2, <1>3, <1>4, <1>5, <1>6, <1>7

\* The first half of recordJoin reads when the meeting started.
LEMMA ReadsStart ==
  ASSUME MeetingInv, NEW t \in Slot, RecordJoinReads(t)
  PROVE  Handlers' /\ Rest'
<1> DEFINE stamp == IF startedAt = 0 THEN - task[t].conn ELSE startedAt
           x == [task[t] EXCEPT !.at = "record", !.stamp = stamp]
<1>1. At(t, "joined", "look") /\ UNCHANGED <<dbVars, lkVars>> /\ (IF Exists THEN Go(t, x) ELSE Done(t))
  BY DEF RecordJoinReads
<1>2. task[t].op = "joined" /\ task[t] \in TaskState /\ Handling(t)
  BY <1>1 DEF At, Handling, MeetingInv, TypeInv, TypeOK
<1>3. x.op = "joined" /\ x.conn = task[t].conn /\ x.at = "record" /\ x.stamp = stamp
  BY <1>2 DEF TaskState
<1>4. \A c \in Conn : Recorded(c)' => Recorded(c) /\ Exists' /\ sheet'[c].stamp = sheet[c].stamp
  BY <1>1 DEF Recorded, MeetingInv, KnownInv, RowsKnown, dbVars, Exists
<1>5. CASE ~Exists
  BY <1>1, <1>4, <1>5, LastStep DEF dbVars, Exists
<1>6. CASE Exists
  <2>1. startedAt # 0
    BY <1>2, <1>6 DEF MeetingInv, NoJoinYet, Unstarted
  <2>2. stamp = startedAt
    BY <2>1
  <2>3. Go(t, x)
    BY <1>1, <1>6
  <2> HIDE DEF x, stamp
  <2>4. task'[t] = x /\ \A u \in Slot \ {t} : task'[u] = task[u]
    BY <2>3, GoSets DEF MeetingInv, TypeInv, TypeOK, TasksOK
  <2>5. \A u \in Slot : task'[u].op = task[u].op /\ task'[u].conn = task[u].conn
    BY <1>2, <1>3, <2>4
  <2>6. \A u \in Slot : At(u, "joined", "record")' => task'[u] = task[u] \/ task'[u].stamp = startedAt
    BY <1>3, <2>2, <2>4
  <2>7. Aside
    BY <1>1, <1>4, <2>5, <2>6 DEF Aside, dbVars, lkVars, Exists
  <2>8. Handlers'
    <3>1. \A u \in Slot : Handling(u)' <=> Handling(u)
      BY <2>5 DEF Handling
    <3>2. t \in Courier
      BY <1>2 DEF MeetingInv, Handlers
    <3>3. \A u \in Courier : task'[u] = Idle \/ (Handling(u)' /\ ~Free(u)')
      <4> SUFFICES ASSUME NEW u \in Courier PROVE task'[u] = Idle \/ (Handling(u)' /\ ~Free(u)')
        OBVIOUS
      <4>1. u \in Slot
        BY DEF Slot
      <4>2. CASE u = t
        BY <1>3, <2>4, <4>2 DEF Handling, Free
      <4>3. CASE u # t
        BY <2>4, <4>1, <4>3 DEF MeetingInv, Handlers, Handling, Free
      <4> QED
        BY <4>2, <4>3
    <3>4. \A u \in Slot : Handling(u) => u \in Courier
      BY DEF MeetingInv, Handlers
    <3>5. \A u, v \in Slot : Handling(u) /\ Handling(v) => u = v
      BY DEF MeetingInv, Handlers
    <3> QED
      BY <3>1, <3>3, <3>4, <3>5 DEF Handlers
  <2> QED
    BY <2>7, <2>8, Elsewhere DEF Rest
<1> QED
  BY <1>5, <1>6

\* Its second half writes the row, with the stamp of the meeting the connection is of.
LEMMA WritesRow ==
  ASSUME MeetingInv, NEW t \in Slot, RecordJoin(t)
  PROVE  Handlers' /\ Rest'
<1> DEFINE c == task[t].conn
<1>1. At(t, "joined", "record") /\ Done(t) /\ UNCHANGED <<status, startedAt, lkVars>>
  BY DEF RecordJoin
<1>2. task[t].op = "joined" /\ Handling(t) /\ c \in DOMAIN conns
  BY <1>1 DEF At, Handling, MeetingInv, KnownInv, HandledKnown
<1>3. DOMAIN conns \subseteq Conn /\ startedAt \in Nat /\ sheet \in [Conn -> [row : RowState, stamp : Int]]
  BY LenProperties DEF MeetingInv, TypeInv, TypeOK, Conn
<1>4. CASE ~Exists
  <2>1. sheet' = sheet
    BY <1>4 DEF RecordJoin
  <2>2. \A d \in Conn : Recorded(d)' => Recorded(d) /\ Exists' /\ sheet'[d].stamp = sheet[d].stamp
    BY <1>1, <2>1 DEF Recorded, MeetingInv, KnownInv, RowsKnown, Exists
  <2> QED
    BY <1>1, <2>2, LastStep DEF Exists
<1>5. CASE Exists
  <2>0. Handlers' /\ \A u \in Slot : ~Handling(u)'
    <3>1. Handlers' /\ ~Handling(t)' /\ \A u \in Slot : Handling(u)' => Handling(u) /\ u # t
      BY <1>1, OneIsDone
    <3>2. \A u \in Slot : Handling(u) => u = t
      BY <1>2 DEF MeetingInv, Handlers
    <3> QED
      BY <3>1, <3>2
  <2>j. \A u \in Slot : task'[u].op # "joined"
    BY <2>0 DEF Handling
  <2>1. task[t].stamp = startedAt
    BY <1>1, <1>5 DEF MeetingInv, StampsInv, StampIsNow
  <2>2. sheet'[c] = [row |-> "open", stamp |-> startedAt] /\ \A d \in Conn \ {c} : sheet'[d] = sheet[d]
    BY <1>2, <1>3, <1>5, <2>1 DEF RecordJoin
  <2> HIDE DEF c
  <2>3. hooks' = hooks /\ conns' = conns /\ session' = session /\ open' = open
    BY <1>1 DEF lkVars
  <2>4. KnownInv'
    <3>1. HandledKnown' /\ JoinsKnown'
      BY <2>0, <2>3 DEF HandledKnown, JoinsKnown, MeetingInv, KnownInv
    <3>2. RowsKnown'
      <4> SUFFICES ASSUME NEW d \in Conn, Recorded(d)'
                   PROVE  d \in DOMAIN conns /\ Exists /\ sheet'[d].stamp <= startedAt
        BY <1>1, <2>3 DEF RowsKnown, Exists
      <4>1. CASE d = c
        BY <1>2, <1>3, <1>5, <2>2, <4>1 DEF c
      <4>2. CASE d # c
        BY <2>2, <4>2 DEF MeetingInv, KnownInv, RowsKnown, Recorded
      <4> QED
        BY <4>1, <4>2
    <3> QED
      BY <3>1, <3>2 DEF KnownInv
  <2>5. QueueInv'
    BY <1>1, <2>0, <2>3 DEF MeetingInv, QueueInv, StartsFollow, StartsFirst, ClosedTail
  <2>6. JoinsInv'
    BY <2>3, <2>j DEF MeetingInv, JoinsInv, JoinsApart, JoinsBehind, HandledBehind
  <2>7. StampsInv'
    <3>1. Behind(hooks, conns, session, c)
      BY <1>2 DEF MeetingInv, JoinsInv, HandledBehind, c
    <3>2. RowsBehind'
      <4> SUFFICES ASSUME NEW d \in Conn, Recorded(d)'
                   PROVE  sheet'[d].stamp < startedAt \/ Behind(hooks, conns, session, d)
        BY <1>1, <2>3 DEF RowsBehind
      <4>1. CASE d = c
        BY <3>1, <4>1
      <4>2. CASE d # c
        BY <2>2, <4>2 DEF MeetingInv, StampsInv, RowsBehind, Recorded
      <4> QED
        BY <4>1, <4>2
    <3>3. RowsOlder' /\ StampIsNow'
      BY <2>j DEF RowsOlder, StampIsNow, At
    <3> QED
      BY <3>2, <3>3 DEF StampsInv
  <2>8. NoJoinYet'
    BY <1>1, <2>3, <2>j DEF MeetingInv, NoJoinYet, Unstarted, Exists
  <2>9. SessionsNotMixed'
    <3>0. \A d \in Conn : Recorded(d) /\ ~SameMeeting(conns, d, c) => sheet[d].stamp < startedAt
      BY <1>2 DEF MeetingInv, StampsInv, RowsOlder, c
    <3>1. \A d \in DOMAIN conns : d # c /\ Recorded(d)' /\ conns[d].session # conns[c].session =>
            sheet'[d].stamp < startedAt /\ sheet'[d].stamp \in Int
      BY <1>3, <2>2, <3>0 DEF Recorded, SameMeeting
    <3>2. \A d \in DOMAIN conns : d # c /\ Recorded(d)' /\ conns[d].session # conns[c].session =>
            sheet'[d].stamp # sheet'[c].stamp
      BY <1>3, <2>2, <3>1
    <3> SUFFICES ASSUME NEW d \in DOMAIN conns, NEW e \in DOMAIN conns, Recorded(d)', Recorded(e)',
                        conns[d].session # conns[e].session
                 PROVE  sheet'[d].stamp # sheet'[e].stamp
      BY <2>3 DEF SessionsNotMixed, Recorded
    <3>3. CASE d # c /\ e # c
      BY <1>3, <2>2, <3>3 DEF MeetingInv, SessionsNotMixed, Recorded
    <3>4. CASE d = c \/ e = c
      BY <3>2, <3>4
    <3> QED
      BY <3>3, <3>4
  <2> QED
    BY <2>0, <2>4, <2>5, <2>6, <2>7, <2>8, <2>9 DEF Rest
<1> QED
  BY <1>4, <1>5

\* recordLeave, and the deletion of a session's rows.
LEMMA RowSteps ==
  ASSUME MeetingInv
  PROVE  /\ \A t \in Slot : RecordLeave(t) => Handlers' /\ Rest'
         /\ DeleteSession => Handlers' /\ Rest'
<1>0. \A c \in Conn : Recorded(c) => Exists
  BY DEF MeetingInv, KnownInv, RowsKnown
<1>s. sheet \in [Conn -> [row : RowState, stamp : Int]]
  BY DEF MeetingInv, TypeInv, TypeOK
<1>1. ASSUME NEW t \in Slot, RecordLeave(t) PROVE Handlers' /\ Rest'
  <2>1. Done(t) /\ UNCHANGED <<status, startedAt, lkVars>>
    BY <1>1 DEF RecordLeave
  <2>2. sheet' = sheet \/ (sheet[task[t].conn].row # "none"
                           /\ sheet' = [sheet EXCEPT ![task[t].conn].row = "left"])
    BY <1>1 DEF RecordLeave
  <2>3. \A c \in Conn : sheet'[c].stamp = sheet[c].stamp /\ (sheet'[c].row # "none" => sheet[c].row # "none")
    BY <1>s, <2>2
  <2>4. \A c \in Conn : Recorded(c)' => Recorded(c) /\ Exists' /\ sheet'[c].stamp = sheet[c].stamp
    BY <1>0, <2>1, <2>3 DEF Recorded, Exists
  <2> QED
    BY <2>1, <2>4, LastStep DEF Exists
<1>2. ASSUME DeleteSession PROVE Handlers' /\ Rest'
  <2>1. PICK stamp : sheet' = [c \in Conn |->
                       IF sheet[c].row \in {"open", "left"} /\ sheet[c].stamp = stamp
                       THEN [sheet[c] EXCEPT !.row = "deleted"] ELSE sheet[c]]
    BY <1>2 DEF DeleteSession
  <2>2. \A c \in Conn : sheet'[c].stamp = sheet[c].stamp /\ (sheet'[c].row # "none" => sheet[c].row # "none")
    BY <1>s, <2>1
  <2>3. UNCHANGED <<status, startedAt, lkVars, task>>
    BY <1>2 DEF DeleteSession
  <2>4. Aside
    BY <1>0, <2>2, <2>3 DEF Aside, Recorded, Exists, lkVars
  <2>5. Handlers'
    BY <2>3 DEF MeetingInv, Handlers, Handling, Free
  <2> QED
    BY <2>4, <2>5, Elsewhere DEF Rest
<1> QED
  BY <1>1, <1>2

\* A webhook is handled at once, or by a handler that goes on with it.
LEMMA Begins ==
  ASSUME MeetingInv, NEW t \in Courier, NEW x, \A u \in Slot : ~Handling(u),
         UNCHANGED task \/ (Go(t, x) /\ x.op \in {"joined", "left"} /\ x.at # "idle")
  PROVE  /\ Handlers'
         /\ \A u \in Slot : Handling(u)' => Go(t, x) /\ task'[u] = x
<1>0. t \in Slot /\ Courier \subseteq Slot
  BY DEF Slot
<1>1. CASE UNCHANGED task
  BY <1>1 DEF MeetingInv, Handlers, Handling, Free
<1>2. CASE Go(t, x) /\ x.op \in {"joined", "left"} /\ x.at # "idle"
  <2>1. task'[t] = x /\ \A u \in Slot \ {t} : task'[u] = task[u]
    BY <1>0, <1>2, GoSets DEF MeetingInv, TypeInv, TypeOK, TasksOK
  <2>2. \A u \in Slot : Handling(u)' <=> u = t
    BY <1>2, <2>1 DEF Handling
  <2>3. Handling(t)' /\ ~Free(t)'
    BY <1>2, <2>1 DEF Handling, Free
  <2>4. \A u \in Courier : u # t => task'[u] = Idle
    BY <1>0, <2>1 DEF MeetingInv, Handlers
  <2>5. Handlers'
    BY <2>2, <2>3, <2>4 DEF Handlers
  <2> QED
    BY <1>2, <2>1, <2>2, <2>5
<1> QED
  BY <1>1, <1>2

LEMMA Deliveries ==
  ASSUME InOrder, MeetingInv, NEW t \in Courier, NEW i \in DOMAIN hooks, Delivers(t, i)
  PROVE  Handlers' /\ Rest'
<1>0. startedAt \in Nat /\ status \in RoomStatus /\ task \in [Slot -> TaskState]
  BY DEF MeetingInv, TypeInv, TypeOK
<1>1. ASSUME RoomStarted(t, i) PROVE Handlers' /\ Rest'
  <2>1. Post(t, i, "room_started") /\ UNCHANGED <<sheet, task>>
    BY <1>1 DEF RoomStarted
  <2>2. /\ hooks[1].event = "room_started"
        /\ Len(hooks) \in Nat \ {0} /\ Len(hooks') = Len(hooks) - 1
        /\ \A j \in 1 .. Len(hooks') : hooks'[j] = hooks[j + 1]
        /\ \A u \in Slot : ~Handling(u)
        /\ UNCHANGED <<open, session, conns>>
    BY <2>1, PostsFirst
  <2>3. /\ startedAt' \in {startedAt, startedAt + 1} /\ (Exists' <=> Exists)
        /\ status' = "LIVE" => status = "LIVE" \/ startedAt' = startedAt + 1
        /\ Exists /\ status # "LIVE" => startedAt' = startedAt + 1
    BY <1>0, <1>1 DEF RoomStarted, Starts, Exists, RoomStatus
  <2>4. Handlers' /\ \A u \in Slot : ~Handling(u)'
    BY <2>1, <2>2 DEF MeetingInv, Handlers, Handling, Free
  <2>5. \A u \in Slot : task'[u].op # "joined"
    BY <2>4 DEF Handling
  <2>6. Takes("room_started")
    BY <2>1, <2>2, <2>3, <2>4, <2>5 DEF Takes
  <2> QED
    BY <2>4, <2>6, Handled DEF Rest
<1>2. ASSUME RoomFinished(t, i) PROVE Handlers' /\ Rest'
  <2>1. Post(t, i, "room_finished") /\ UNCHANGED <<sheet, task, startedAt>>
    BY <1>2 DEF RoomFinished
  <2>2. /\ hooks[1].event = "room_finished"
        /\ Len(hooks) \in Nat \ {0} /\ Len(hooks') = Len(hooks) - 1
        /\ \A j \in 1 .. Len(hooks') : hooks'[j] = hooks[j + 1]
        /\ \A u \in Slot : ~Handling(u)
        /\ UNCHANGED <<open, session, conns>>
    BY <2>1, PostsFirst
  <2>3. (Exists' <=> Exists) /\ status' # "LIVE"
    BY <1>2 DEF RoomFinished, Exists
  <2>4. Handlers' /\ \A u \in Slot : ~Handling(u)'
    BY <2>1, <2>2 DEF MeetingInv, Handlers, Handling, Free
  <2>5. \A u \in Slot : task'[u].op # "joined"
    BY <2>4 DEF Handling
  <2>6. Takes("room_finished")
    BY <2>1, <2>2, <2>3, <2>4, <2>5 DEF Takes
  <2> QED
    BY <2>4, <2>6, Handled DEF Rest
<1>3. ASSUME ParticipantJoined(t, i) PROVE Handlers' /\ Rest'
  <2> DEFINE x == [Idle EXCEPT !.op = "joined", !.at = "look", !.conn = hooks[i].conn]
  <2>1. Post(t, i, "participant_joined") /\ sheet' = sheet /\ Go(t, x)
    BY <1>3 DEF ParticipantJoined
  <2>2. /\ i = 1 /\ hooks[1].event = "participant_joined"
        /\ Len(hooks) \in Nat \ {0} /\ Len(hooks') = Len(hooks) - 1
        /\ \A j \in 1 .. Len(hooks') : hooks'[j] = hooks[j + 1]
        /\ \A u \in Slot : ~Handling(u)
        /\ UNCHANGED <<open, session, conns>>
    BY <2>1, PostsFirst
  <2>3. /\ startedAt' \in {startedAt, startedAt + 1} /\ (Exists' <=> Exists)
        /\ status' = "LIVE" => status = "LIVE" \/ startedAt' = startedAt + 1
    BY <1>0, <1>3 DEF ParticipantJoined, Starts, Exists
  <2>4. x.op = "joined" /\ x.at = "look" /\ x.conn = hooks[1].conn
    BY IdleType, <2>2 DEF TaskState
  <2>5. hooks[1].conn \in DOMAIN conns
    BY <2>2 DEF MeetingInv, KnownInv, JoinsKnown
  <2> HIDE DEF x
  <2>6. Handlers' /\ \A u \in Slot : Handling(u)' => task'[u] = x
    BY <2>1, <2>2, <2>4, Begins
  <2>7. \A u \in Slot : Handling(u)' => task'[u].conn \in DOMAIN conns
    BY <2>4, <2>5, <2>6
  <2>8. \A u \in Slot : task'[u].op = "joined" => task'[u].at # "record" /\ task'[u].conn = hooks[1].conn
    BY <2>4, <2>6 DEF Handling
  <2>9. Takes("participant_joined")
    BY <2>1, <2>2, <2>3, <2>7, <2>8 DEF Takes
  <2> QED
    BY <2>6, <2>9, Handled DEF Rest
<1>4. ASSUME ParticipantLeft(t, i) PROVE Handlers' /\ Rest'
  <2> DEFINE leave(c) == [Idle EXCEPT !.op = "left", !.at = "leave", !.conn = c]
  <2>1. Post(t, i, "participant_left") /\ UNCHANGED dbVars
    BY <1>4 DEF ParticipantLeft
  <2>2. /\ hooks[1].event = "participant_left"
        /\ Len(hooks) \in Nat \ {0} /\ Len(hooks') = Len(hooks) - 1
        /\ \A j \in 1 .. Len(hooks') : hooks'[j] = hooks[j + 1]
        /\ \A u \in Slot : ~Handling(u)
        /\ UNCHANGED <<open, session, conns>>
    BY <2>1, PostsFirst
  <2>3. PICK c : UNCHANGED task \/ (c \in DOMAIN conns /\ Go(t, leave(c)))
    BY <1>4 DEF ParticipantLeft, OpenRows
  <2>4. leave(c).op = "left" /\ leave(c).at = "leave" /\ (c \in 0 .. MaxConn => leave(c).conn = c)
    BY IdleType DEF TaskState
  <2>c. c \in DOMAIN conns => c \in 0 .. MaxConn
    BY LenProperties DEF MeetingInv, TypeInv, TypeOK
  <2> DEFINE x == leave(c)
  <2>5. UNCHANGED task \/ (Go(t, x) /\ x.op = "left" /\ x.at = "leave" /\ x.conn \in DOMAIN conns)
    BY <2>3, <2>4, <2>c
  <2> HIDE DEF x
  <2>6. Handlers' /\ \A u \in Slot : Handling(u)' => task'[u] = x /\ x.op = "left" /\ x.conn \in DOMAIN conns
    <3>1. CASE UNCHANGED task
      BY <2>2, <3>1 DEF MeetingInv, Handlers, Handling, Free
    <3>2. CASE Go(t, x) /\ x.op = "left" /\ x.at = "leave" /\ x.conn \in DOMAIN conns
      BY <2>2, <3>2, Begins
    <3> QED
      BY <2>5, <3>1, <3>2
  <2>7. \A u \in Slot : Handling(u)' => task'[u].conn \in DOMAIN conns
    BY <2>6
  <2>8. \A u \in Slot : task'[u].op # "joined"
    BY <2>6 DEF Handling
  <2>9. Takes("participant_left")
    BY <1>0, <2>1, <2>2, <2>7, <2>8 DEF Takes, dbVars, Exists
  <2> QED
    BY <2>6, <2>9, Handled DEF Rest
<1> QED
  BY <1>1, <1>2, <1>3, <1>4 DEF Delivers

\* The moves of LiveKit and of those it connects.
LEMMA LiveKitSteps ==
  ASSUME MeetingInv, TypeInv', LiveKitMoves
  PROVE  Handlers' /\ Rest'
<1>h. ASSUME UNCHANGED task PROVE Handlers' /\ (UNCHANGED <<status, startedAt, sheet>> => SameHandling)
  BY <1>h DEF MeetingInv, Handlers, Handling, Free, SameHandling
<1>d. DOMAIN conns \subseteq Conn /\ DOMAIN conns' \subseteq Conn /\ inside \subseteq DOMAIN conns
      /\ conns \in Seq(Connection) /\ Len(conns) \in Nat
  <2>1. conns \in Seq(Connection) /\ Len(conns) <= MaxConn /\ inside \subseteq DOMAIN conns
    BY DEF MeetingInv, TypeInv, TypeOK, Connection
  <2>2. conns' \in Seq(Connection) /\ Len(conns') <= MaxConn
    BY DEF TypeInv, TypeOK, Connection
  <2> QED
    BY <2>1, <2>2, LenProperties DEF Conn
<1>1. ASSUME NEW p \in Person, Connect(p) PROVE Handlers' /\ Rest'
  <2> DEFINE c == Len(conns) + 1
             old == {d \in inside : conns[d].who = p}
             joined == <<About("participant_joined", c)>>
  <2>1. c \in Conn /\ c \in 0 .. MaxConn /\ UNCHANGED <<dbVars, task>>
        /\ conns' = Append(conns, [who |-> p, session |-> session'])
    BY <1>1 DEF Connect, Conn
  <2>2. PICK l \in Lefts(old) : Opens(l \o joined) \/ Opens(joined \o l)
    BY <1>1 DEF Connect
  <2>3. Calm(l, {c})
    <3>1. old \in SUBSET Conn
      BY <1>d
    <3> HIDE DEF old
    <3> QED
      BY <3>1, CalmLefts
  <2>4. Calm(joined, {c})
    BY <2>1, CalmOne
  <2>5. Calm(l \o joined, {c}) /\ Calm(joined \o l, {c})
    BY <2>3, <2>4, CalmConcat
  <2>6. PICK x : Calm(x, {c}) /\ Opens(x)
    BY <2>2, <2>5
  <2>s. TypeInv /\ x \in Seq(Hook)
    BY <2>6 DEF MeetingInv, Calm
  <2>t. session' \in 1 .. MaxSession
    BY <2>s, <2>6, OpensTypes
  <2>7. [who |-> p, session |-> session'] \in Connection
    BY <2>t DEF Connection
  <2> HIDE DEF joined, old
  <2>8. /\ DOMAIN conns \subseteq DOMAIN conns'
        /\ \A d \in DOMAIN conns : conns'[d] = conns[d]
        /\ c \in DOMAIN conns' /\ conns'[c].session = session'
    BY <1>d, <2>1, <2>7
  <2>9. PICK s : Sent(s)
    <3> HIDE DEF c
    <3> QED
      BY <2>6, <2>8, OpensSends
  <2>10. Handlers' /\ SameHandling
    BY <1>h, <2>1 DEF dbVars
  <2> QED
    BY <1>d, <2>9, <2>10, Sends DEF Rest
<1>2. ASSUME NEW c \in inside, Leave(c) PROVE Handlers' /\ Rest'
  <2> DEFINE s == <<About("participant_left", c)>>
  <2>1. c \in 0 .. MaxConn
    BY <1>d DEF Conn
  <2>2. Calm(s, {})
    BY <2>1, CalmOne
  <2>3. hooks' = hooks \o s
    <3>1. hooks \in Seq(Hook) /\ About("participant_left", c) \in Hook
      BY <2>1, OneEvent DEF MeetingInv, TypeInv, TypeOK
    <3> QED
      BY <1>2, <3>1, AppendIsConcat DEF Leave
  <2>4. UNCHANGED <<dbVars, open, session, conns, task>>
    BY <1>2 DEF Leave
  <2>5. open' = TRUE
    BY <2>4 DEF MeetingInv, TypeInv, TypeOK
  <2> HIDE DEF s
  <2>6. session \in Nat
    BY DEF MeetingInv, TypeInv, TypeOK
  <2>7. Sent(s)
    BY <2>2, <2>3, <2>4, <2>5, <2>6 DEF Sent, Calm
  <2>8. Handlers' /\ SameHandling
    BY <1>h, <2>4 DEF dbVars
  <2> QED
    BY <1>d, <2>7, <2>8, Sends DEF Rest
<1>3. ASSUME NEW c \in inside, SaveBoard(c) PROVE Handlers' /\ Rest'
  <2>1. UNCHANGED <<status, startedAt, sheet, lkVars, task>>
    BY <1>3 DEF SaveBoard
  <2>2. Aside
    BY <2>1 DEF Aside, Recorded, MeetingInv, KnownInv, RowsKnown, lkVars, Exists
  <2> QED
    BY <1>h, <2>1, <2>2, Elsewhere DEF Rest
<1>4. ASSUME EmptyTimeout PROVE Handlers' /\ Rest'
  <2>1. Closes /\ UNCHANGED <<dbVars, task>>
    BY <1>4 DEF EmptyTimeout
  <2>2. PICK s : Sent(s)
    BY <2>1, ClosesSends
  <2>3. Handlers' /\ SameHandling
    BY <1>h, <2>1 DEF dbVars
  <2> QED
    BY <1>d, <2>2, <2>3, Sends DEF Rest
<1> QED
  BY <1>1, <1>2, <1>3, <1>4 DEF LiveKitMoves

\* The process restarts: the webhook that was being handled, if any, is the first again.
LEMMA Restarts ==
  ASSUME MeetingInv, Restart
  PROVE  Handlers' /\ Rest'
<1> DEFINE again == {t \in Courier : ~Free(t)}
           event(t) == IF task[t].op = "joined" THEN "participant_joined" ELSE "participant_left"
           e(t) == About(event(t), task[t].conn)
<1>1. PICK s \in [1 .. Cardinality(again) -> again] :
           hooks' = [i \in DOMAIN s |-> e(s[i])] \o hooks
  BY DEF Restart
<1>2. /\ task' = [t \in Slot |-> Idle]
      /\ UNCHANGED <<status, startedAt, board, sheet, open, session, conns>>
  BY DEF Restart, dbVars
<1>3. \A t \in Slot : ~Handling(t)' /\ task'[t] = Idle /\ task'[t].op # "joined"
  BY <1>2, IdleType DEF Handling
<1>4. Handlers'
  BY <1>3 DEF Handlers, Slot
<1>f. IsFiniteSet(again)
  BY FS_Subset
<1>5. again = {} \/ \E u \in Courier : again = {u} /\ Handling(u)
  <2>1. \A u \in again : u \in Slot /\ Handling(u)
    BY DEF MeetingInv, Handlers, Free, Idle, Slot
  <2>2. \A u, v \in again : u = v
    BY <2>1 DEF MeetingInv, Handlers
  <2> QED
    BY <2>1, <2>2
<1>h. hooks \in Seq(Hook) /\ task \in [Slot -> TaskState] /\ startedAt \in Nat
  BY DEF MeetingInv, TypeInv, TypeOK
<1>6. CASE again = {}
  <2>1. Cardinality(again) = 0
    BY <1>6, FS_EmptySet
  <2>2. DOMAIN s = {}
    BY <2>1
  <2>3. [i \in DOMAIN s |-> e(s[i])] = <<>>
    BY <2>2
  <2>4. hooks' = hooks
    BY <1>1, <1>h, <2>3, ConcatEmptySeq
  <2>5. Aside
    BY <1>2, <1>3, <2>4 DEF Aside, At, Recorded, Exists, MeetingInv, KnownInv, RowsKnown
  <2> QED
    BY <1>4, <2>5, Elsewhere DEF Rest
<1>7. ASSUME NEW u \in Courier, again = {u}, Handling(u) PROVE Rest'
  <2> DEFINE n == Len(hooks)
             c == task[u].conn
             q == <<e(u)>>
  <2>1. Cardinality(again) = 1
    BY <1>7, FS_Singleton
  <2>2. DOMAIN s = 1 .. 1 /\ s[1] = u
    BY <1>7, <2>1
  <2>u. u \in Slot /\ c \in DOMAIN conns /\ task[u].op \in {"joined", "left"} /\ c \in 0 .. MaxConn
    BY <1>h, <1>7 DEF MeetingInv, KnownInv, HandledKnown, Handling, Slot, TaskState
  <2>3. e(u) \in Hook /\ e(u).conn = c /\ ~Starting(<<e(u)>>, 1)
        /\ (e(u).event = "participant_joined" <=> task[u].op = "joined")
    BY <2>u DEF About, Hook, Starting
  <2>4. [i \in DOMAIN s |-> e(s[i])] = q
    BY <2>2
  <2>5. q \in Seq(Hook) /\ Len(q) = 1 /\ q[1] = e(u)
    BY <2>3
  <2>6. hooks' = q \o hooks
    BY <1>1, <2>4
  <2> HIDE DEF q, e, again
  <2>7. n \in Nat /\ Len(hooks') = n + 1 /\ hooks'[1] = e(u) /\ \A j \in 1 .. n : hooks'[j + 1] = hooks[j]
    <3>1. n \in Nat
      BY <1>h, LenProperties
    <3>2. q \o hooks \in Seq(Hook) /\ Len(q \o hooks) = Len(q) + n
      BY <1>h, <2>5, ConcatProperties
    <3>3. (q \o hooks)[1] = q[1]
      BY <1>h, <2>5, <3>1, ConcatProperties
    <3>4. \A j \in 1 .. n : (q \o hooks)[j + 1] = hooks[j]
      <4> SUFFICES ASSUME NEW j \in 1 .. n PROVE (q \o hooks)[j + 1] = hooks[j]
        OBVIOUS
      <4>1. j + 1 \in 1 .. Len(q) + Len(hooks) /\ j + 1 > Len(q) /\ (j + 1) - Len(q) = j
        BY <2>5, <3>1 DEF n
      <4>2. (q \o hooks)[j + 1] = hooks[(j + 1) - Len(q)]
        <5>1. \A i \in 1 .. Len(q) + Len(hooks) : (q \o hooks)[i] = IF i <= Len(q) THEN q[i] ELSE hooks[i - Len(q)]
          BY <1>h, <2>5, ConcatProperties
        <5>2. ~(j + 1 <= Len(q))
          BY <2>5, <3>1 DEF n
        <5> QED
          BY <4>1, <5>1, <5>2
      <4> QED
        BY <4>1, <4>2
    <3> QED
      BY <2>5, <2>6, <3>1, <3>2, <3>3, <3>4
  <2>8. \A j \in 2 .. n + 1 : j - 1 \in 1 .. n /\ hooks'[j] = hooks[j - 1]
    <3> SUFFICES ASSUME NEW j \in 2 .. n + 1 PROVE j - 1 \in 1 .. n /\ hooks'[j] = hooks[j - 1]
      OBVIOUS
    <3>1. j - 1 \in 1 .. n /\ (j - 1) + 1 = j
      BY <2>7
    <3> QED
      BY <2>7, <3>1
  <2> HIDE DEF n, c
  <2>9. \A j \in 1 .. n + 1 : Starting(hooks', j) => j \in 2 .. n + 1 /\ Starting(hooks, j - 1)
    <3> SUFFICES ASSUME NEW j \in 1 .. n + 1, Starting(hooks', j) PROVE j \in 2 .. n + 1 /\ Starting(hooks, j - 1)
      OBVIOUS
    <3>1. j # 1
      BY <2>3, <2>7 DEF Starting
    <3>2. j \in 2 .. n + 1
      BY <2>7, <3>1
    <3> QED
      BY <2>8, <3>2 DEF Starting
  <2>10. \A k \in 1 .. n : Starting(hooks, k) => k + 1 \in 1 .. n + 1 /\ Starting(hooks', k + 1)
    BY <2>7 DEF Starting
  <2>11. \A j \in 1 .. n + 1 : Announced(hooks, j) => Announced(hooks', j + 1)
    <3> SUFFICES ASSUME NEW j \in 1 .. n + 1, NEW k \in 1 .. n, k < j, Starting(hooks, k) PROVE Announced(hooks', j + 1)
      BY DEF Announced, n
    <3>1. k + 1 \in 1 .. n + 1 /\ Starting(hooks', k + 1) /\ k + 1 < j + 1
      BY <2>7, <2>10
    <3> QED
      BY <2>7, <3>1 DEF Announced
  <2>12. \A j \in 2 .. n + 1 : Announced(hooks, j - 1) => Announced(hooks', j)
    <3> SUFFICES ASSUME NEW j \in 2 .. n + 1, Announced(hooks, j - 1) PROVE Announced(hooks', j)
      OBVIOUS
    <3>1. j - 1 \in 1 .. n + 1 /\ (j - 1) + 1 = j
      BY <2>7
    <3> QED
      BY <2>11, <3>1
  <2>13. \A j \in 2 .. n + 1 : \A d : Joining(hooks', j, d) => Joining(hooks, j - 1, d)
    BY <2>8 DEF Joining
  <2>14. \A d : Joining(hooks', 1, d) => d = c /\ task[u].op = "joined"
    BY <2>3, <2>7 DEF Joining
  <2>15. KnownInv'
    <3>1. HandledKnown' /\ RowsKnown'
      BY <1>2, <1>3 DEF HandledKnown, RowsKnown, Recorded, Exists, MeetingInv, KnownInv
    <3>2. JoinsKnown'
      <4> SUFFICES ASSUME NEW j \in 1 .. n + 1, hooks'[j].event = "participant_joined" PROVE hooks'[j].conn \in DOMAIN conns
        BY <1>2, <2>7 DEF JoinsKnown
      <4>1. CASE j = 1
        BY <2>3, <2>7, <2>u, <4>1
      <4>2. CASE j # 1
        <5>1. j \in 2 .. n + 1
          BY <2>7, <4>2
        <5> QED
          BY <2>8, <5>1 DEF MeetingInv, KnownInv, JoinsKnown, n
      <4> QED
        BY <4>1, <4>2
    <3> QED
      BY <3>1, <3>2 DEF KnownInv
  <2>16. QueueInv'
    <3>1. StartsFollow'
      <4> SUFFICES ASSUME NEW k \in 2 .. n + 1, Starting(hooks', k) PROVE hooks'[k - 1].event = "room_finished"
        BY <2>7 DEF StartsFollow
      <4>1. Starting(hooks, k - 1) /\ k - 1 \in 1 .. n
        BY <2>7, <2>8, <2>9
      <4>2. CASE k = 2
        <5>1. Starting(hooks, 1) /\ n > 0
          BY <2>7, <4>1, <4>2
        <5>2. \A t \in Slot : ~Handling(t)
          BY <5>1 DEF MeetingInv, QueueInv, StartsFirst, n
        <5> QED
          BY <1>7, <2>u, <5>2
      <4>3. CASE k # 2
        <5>1. k - 1 \in 2 .. n /\ k - 1 \in 2 .. n + 1
          BY <2>7, <4>3
        <5>2. hooks[(k - 1) - 1].event = "room_finished"
          BY <4>1, <5>1 DEF MeetingInv, QueueInv, StartsFollow, n
        <5>3. hooks'[k - 1] = hooks[(k - 1) - 1]
          BY <2>8, <5>1
        <5> QED
          BY <5>2, <5>3
      <4> QED
        BY <4>2, <4>3
    <3>2. StartsFirst'
      <4>1. ~Starting(hooks', 1)
        BY <2>7, <2>9
      <4> QED
        BY <4>1 DEF StartsFirst
    <3>3. ClosedTail'
      <4> SUFFICES ASSUME ~open PROVE hooks'[n + 1].event = "room_finished"
        BY <1>2, <2>7 DEF ClosedTail
      <4>1. n > 0 /\ hooks[n].event = "room_finished"
        BY <1>7, <2>u, <2>7 DEF MeetingInv, QueueInv, ClosedTail, n
      <4>2. n \in 1 .. n
        BY <2>7, <4>1
      <4> QED
        BY <2>7, <4>1, <4>2
    <3> QED
      BY <3>1, <3>2, <3>3 DEF QueueInv
  <2>b. task[u].op = "joined" => Behind(hooks, conns, session, c)
    BY <2>u DEF MeetingInv, JoinsInv, HandledBehind, c
  <2>17. JoinsInv'
    <3>1. JoinsApart'
      <4> SUFFICES ASSUME NEW i \in 1 .. n + 1, NEW j \in 1 .. n + 1, NEW f \in DOMAIN conns, NEW d \in DOMAIN conns,
                          i < j, Joining(hooks', i, f), Joining(hooks', j, d), ~SameMeeting(conns, f, d)
                   PROVE  \E k \in i + 1 .. j - 1 : Starting(hooks', k)
        BY <1>2, <2>7 DEF JoinsApart
      <4>0. j \in 2 .. n + 1 /\ j - 1 \in 1 .. n /\ Joining(hooks, j - 1, d)
        <5>1. j \in 2 .. n + 1
          BY <2>7
        <5> QED
          BY <2>8, <2>13, <5>1
      <4>1. CASE i = 1
        <5>1. f = c /\ Behind(hooks, conns, session, c)
          BY <2>14, <2>b, <4>1
        <5>2. Announced(hooks, j - 1)
          BY <4>0, <5>1 DEF Behind, n
        <5>3. PICK k \in 1 .. n : k < j - 1 /\ Starting(hooks, k)
          BY <5>2 DEF Announced, n
        <5>4. k + 1 \in i + 1 .. j - 1
          BY <2>7, <4>1, <5>3
        <5> QED
          BY <2>10, <5>3, <5>4
      <4>2. CASE i # 1
        <5>1. i \in 2 .. n + 1
          BY <2>7, <4>2
        <5>2. i - 1 \in 1 .. n /\ Joining(hooks, i - 1, f) /\ i - 1 < j - 1
          BY <2>7, <2>8, <2>13, <5>1
        <5>3. PICK k \in (i - 1) + 1 .. (j - 1) - 1 : Starting(hooks, k)
          BY <4>0, <5>2 DEF MeetingInv, JoinsInv, JoinsApart, n
        <5>4. k \in 1 .. n /\ k + 1 \in i + 1 .. j - 1
          BY <2>7, <5>1
        <5> QED
          BY <2>10, <5>3, <5>4
      <4> QED
        BY <4>1, <4>2
    <3>2. JoinsBehind'
      <4> SUFFICES ASSUME NEW i \in 1 .. n + 1, NEW f \in DOMAIN conns, Joining(hooks', i, f), conns[f].session # session
                   PROVE  \E k \in i + 1 .. n + 1 : Starting(hooks', k)
        BY <1>2, <2>7 DEF JoinsBehind
      <4>1. CASE i = 1
        <5>1. f = c /\ Behind(hooks, conns, session, c)
          BY <2>14, <2>b, <4>1
        <5>2. Announced(hooks, n + 1)
          BY <5>1 DEF Behind, n
        <5>3. PICK k \in 1 .. n : Starting(hooks, k)
          BY <5>2 DEF Announced, n
        <5>4. k + 1 \in i + 1 .. n + 1
          BY <2>7, <4>1
        <5> QED
          BY <2>10, <5>3, <5>4
      <4>2. CASE i # 1
        <5>1. i \in 2 .. n + 1
          BY <2>7, <4>2
        <5>2. i - 1 \in 1 .. n /\ Joining(hooks, i - 1, f)
          BY <2>8, <2>13, <5>1
        <5>3. PICK k \in (i - 1) + 1 .. n : Starting(hooks, k)
          BY <5>2 DEF MeetingInv, JoinsInv, JoinsBehind, n
        <5>4. k \in 1 .. n /\ k + 1 \in i + 1 .. n + 1
          BY <2>7, <5>1
        <5> QED
          BY <2>10, <5>3, <5>4
      <4> QED
        BY <4>1, <4>2
    <3>3. HandledBehind'
      BY <1>3 DEF HandledBehind
    <3> QED
      BY <3>1, <3>2, <3>3 DEF JoinsInv
  <2>18. StampsInv'
    <3>1. RowsBehind'
      <4> SUFFICES ASSUME NEW d \in Conn, Recorded(d), ~(sheet[d].stamp < startedAt)
                   PROVE  Behind(hooks', conns, session, d)
        BY <1>2 DEF RowsBehind, Recorded
      <4>1. Behind(hooks, conns, session, d)
        BY DEF MeetingInv, StampsInv, RowsBehind
      <4>2. ASSUME NEW j \in 1 .. n + 1, NEW f \in DOMAIN conns, Joining(hooks', j, f), ~SameMeeting(conns, d, f)
            PROVE  Announced(hooks', j)
        <5>1. j # 1
          <6> SUFFICES ASSUME j = 1 PROVE FALSE
            OBVIOUS
          <6>1. f = c /\ task[u].op = "joined"
            BY <2>14, <4>2
          <6> QED
            BY <2>u, <4>2, <6>1 DEF MeetingInv, StampsInv, RowsOlder, c
        <5>2. j \in 2 .. n + 1
          BY <2>7, <5>1
        <5>3. Joining(hooks, j - 1, f) /\ j - 1 \in 1 .. n
          BY <2>8, <2>13, <4>2, <5>2
        <5>4. Announced(hooks, j - 1)
          BY <4>1, <4>2, <5>3 DEF Behind, n
        <5> QED
          BY <2>12, <5>2, <5>4
      <4>3. ASSUME conns[d].session # session PROVE Announced(hooks', (n + 1) + 1)
        <5>1. Announced(hooks, n + 1)
          BY <4>1, <4>3 DEF Behind, n
        <5>2. n + 1 \in 1 .. n + 1
          BY <2>7
        <5> QED
          BY <2>11, <5>1, <5>2
      <4> QED
        BY <2>7, <4>2, <4>3 DEF Behind
    <3>2. RowsOlder' /\ StampIsNow'
      BY <1>3 DEF RowsOlder, StampIsNow, At
    <3> QED
      BY <3>1, <3>2 DEF StampsInv
  <2>19. NoJoinYet'
    <3> SUFFICES ASSUME Unstarted
                 PROVE  /\ session >= 1 => Announced(hooks', (n + 1) + 1)
                        /\ \A j \in 1 .. n + 1 : hooks'[j].event = "participant_joined" => Announced(hooks', j)
      BY <1>2, <1>3, <2>7 DEF NoJoinYet, Unstarted, Exists
    <3>0. /\ session >= 1 => Announced(hooks, n + 1)
          /\ \A j \in 1 .. n : hooks[j].event = "participant_joined" => Announced(hooks, j)
          /\ task[u].op # "joined"
      BY <2>u DEF MeetingInv, NoJoinYet, n
    <3>1. session >= 1 => Announced(hooks', (n + 1) + 1)
      <4>1. n + 1 \in 1 .. n + 1
        BY <2>7
      <4> QED
        BY <2>11, <3>0, <4>1
    <3>2. ASSUME NEW j \in 1 .. n + 1, hooks'[j].event = "participant_joined" PROVE Announced(hooks', j)
      <4>1. j # 1
        BY <2>3, <2>7, <3>0, <3>2
      <4>2. j \in 2 .. n + 1
        BY <2>7, <4>1
      <4>3. Announced(hooks, j - 1)
        BY <2>8, <3>0, <3>2, <4>2
      <4> QED
        BY <2>12, <4>2, <4>3
    <3> QED
      BY <3>1, <3>2
  <2>20. SessionsNotMixed'
    BY <1>2 DEF MeetingInv, SessionsNotMixed
  <2> QED
    BY <2>15, <2>16, <2>17, <2>18, <2>19, <2>20 DEF Rest
<1> QED
  BY <1>4, <1>5, <1>6, <1>7

LEMMA MeetingInvStep == InOrder /\ MeetingInv /\ [Next]_vars => MeetingInv'
<1> SUFFICES ASSUME InOrder, MeetingInv, [Next]_vars PROVE MeetingInv'
  OBVIOUS
<1>0. TypeInv'
  BY TypeInvStep DEF MeetingInv
<1>1. ASSUME LiveKitMoves PROVE Handlers' /\ Rest'
  BY <1>0, <1>1, LiveKitSteps
<1>2. ASSUME NEW t \in Request, Arrives(t) PROVE Handlers' /\ Rest'
  <2>1. t \in Slot
    BY DEF Slot
  <2> QED
    BY <1>0, <1>2, <2>1, JoinSteps, CloseSteps DEF Arrives
<1>3. ASSUME NEW t \in Courier, NEW i \in DOMAIN hooks, Delivers(t, i) PROVE Handlers' /\ Rest'
  BY <1>3, Deliveries
<1>4. ASSUME NEW t \in Slot, Continues(t) PROVE Handlers' /\ Rest'
  BY <1>0, <1>4, JoinSteps, CloseSteps, ReadsStart, WritesRow, RowSteps DEF Continues
<1>5. ASSUME CronRead \/ CronLists \/ CronListFails PROVE Handlers' /\ Rest'
  <2>1. Cron \in Slot
    BY DEF Slot
  <2> QED
    BY <1>0, <1>5, <2>1, CloseSteps
<1>6. ASSUME DeleteSession PROVE Handlers' /\ Rest'
  BY <1>6, RowSteps
<1>7. ASSUME Restart PROVE Handlers' /\ Rest'
  BY <1>7, Restarts
<1>8. ASSUME UNCHANGED vars PROVE Handlers' /\ Rest'
  <2>1. UNCHANGED <<status, startedAt, sheet, open, session, conns, hooks, task>>
    BY <1>8 DEF vars, dbVars, lkVars
  <2>2. Aside
    BY <2>1 DEF Aside, Recorded, MeetingInv, KnownInv, RowsKnown, Exists
  <2>3. Handlers'
    BY <2>1 DEF MeetingInv, Handlers, Handling, Free
  <2> QED
    BY <2>2, <2>3, Elsewhere DEF Rest
<1>9. Handlers' /\ Rest'
  BY <1>1, <1>2, <1>3, <1>4, <1>5, <1>6, <1>7, <1>8 DEF Next
<1> QED
  BY <1>0, <1>9 DEF MeetingInv, Rest

\* The rows of two meetings have different stamps, so long as LiveKit posts the webhooks
\* of the room in order, for any number of meetings, connections and handlers.
THEOREM SheetsStayApart ==
  ASSUME InOrder
  PROVE  Spec => []SessionsNotMixed
<1>1. MeetingInv /\ [Next]_vars => MeetingInv'
  BY MeetingInvStep
<1>2. MeetingInv => SessionsNotMixed
  BY DEF MeetingInv
<1> QED
  BY <1>1, <1>2, MeetingInvInit, PTL DEF Spec

-----------------------------------------------------------------------------
(* What webhooks do to the number of rows a person has open                 *)

\* Webhook h opens a row of p, closes one, or does neither; m are the connections.
Delta(m, h, p) ==
  IF h.event = "participant_joined" /\ m[h.conn].who = p THEN 1
  ELSE IF h.event = "participant_left" /\ m[h.conn].who = p THEN -1 ELSE 0

\* Webhooks s take the number of open rows of p from a to b, and never find none to close.
Leads(m, s, p, a, b) ==
  \E f \in [1 .. Len(s) + 1 -> Nat] :
     /\ f[1] = a /\ f[Len(s) + 1] = b
     /\ \A j \in 1 .. Len(s) : f[j + 1] = f[j] + Delta(m, s[j], p)

LEMMA DeltaInt == ASSUME NEW m, NEW h, NEW p PROVE Delta(m, h, p) \in {-1, 0, 1}
BY DEF Delta

LEMMA LeadsNat ==
  ASSUME NEW m, NEW s \in Seq(Hook), NEW p, NEW a, NEW b, Leads(m, s, p, a, b)
  PROVE  a \in Nat /\ b \in Nat
<1>1. Len(s) \in Nat
  BY LenProperties
<1> QED
  BY <1>1 DEF Leads

\* Webhooks that have nothing to do with p.
LEMMA LeadsNowhere ==
  ASSUME NEW m, NEW s \in Seq(Hook), NEW p, NEW a \in Nat, \A j \in 1 .. Len(s) : Delta(m, s[j], p) = 0
  PROVE  Leads(m, s, p, a, a)
<1> DEFINE f == [j \in 1 .. Len(s) + 1 |-> a]
<1>1. Len(s) \in Nat
  BY LenProperties
<1>2. f \in [1 .. Len(s) + 1 -> Nat] /\ f[1] = a /\ f[Len(s) + 1] = a
  BY <1>1
<1>3. \A j \in 1 .. Len(s) : f[j + 1] = f[j] + Delta(m, s[j], p)
  BY <1>1
<1> HIDE DEF f
<1> QED
  BY <1>2, <1>3 DEF Leads

LEMMA LeadsOne ==
  ASSUME NEW m, NEW h \in Hook, NEW p, NEW a \in Nat, a + Delta(m, h, p) \in Nat
  PROVE  Leads(m, <<h>>, p, a, a + Delta(m, h, p))
<1> DEFINE b == a + Delta(m, h, p)
           f == [j \in 1 .. 2 |-> IF j = 1 THEN a ELSE b]
<1>1. Len(<<h>>) = 1 /\ <<h>>[1] = h
  OBVIOUS
<1>2. f \in [1 .. 2 -> Nat] /\ f[1] = a /\ f[2] = b
  OBVIOUS
<1>3. f[1 + 1] = f[1] + Delta(m, <<h>>[1], p)
  BY <1>1, <1>2
<1> HIDE DEF f, b
<1>4. \A j \in 1 .. Len(<<h>>) : f[j + 1] = f[j] + Delta(m, <<h>>[j], p)
  BY <1>1, <1>3
<1>5. 1 .. Len(<<h>>) + 1 = 1 .. 2 /\ Len(<<h>>) + 1 = 2
  BY <1>1
<1> QED
  BY <1>2, <1>4, <1>5 DEF Leads, b

LEMMA LeadsConcat ==
  ASSUME NEW m, NEW s \in Seq(Hook), NEW r \in Seq(Hook), NEW p, NEW a, NEW b, NEW c,
         Leads(m, s, p, a, b), Leads(m, r, p, b, c)
  PROVE  Leads(m, s \o r, p, a, c)
<1> DEFINE n == Len(s)
           k == Len(r)
<1>1. n \in Nat /\ k \in Nat /\ Len(s \o r) = n + k
  BY LenProperties, ConcatProperties
<1>2. PICK f \in [1 .. n + 1 -> Nat] :
           f[1] = a /\ f[n + 1] = b /\ \A j \in 1 .. n : f[j + 1] = f[j] + Delta(m, s[j], p)
  BY DEF Leads
<1>3. PICK g \in [1 .. k + 1 -> Nat] :
           g[1] = b /\ g[k + 1] = c /\ \A j \in 1 .. k : g[j + 1] = g[j] + Delta(m, r[j], p)
  BY DEF Leads
<1>4. /\ \A j \in 1 .. n : (s \o r)[j] = s[j]
      /\ \A j \in n + 1 .. n + k : (s \o r)[j] = r[j - n]
  BY <1>1, ConcatProperties
<1> DEFINE e == [j \in 1 .. (n + k) + 1 |-> IF j <= n THEN f[j] ELSE g[j - n]]
<1> HIDE DEF n, k
<1>5. e \in [1 .. (n + k) + 1 -> Nat]
  <2> SUFFICES ASSUME NEW j \in 1 .. (n + k) + 1 PROVE (IF j <= n THEN f[j] ELSE g[j - n]) \in Nat
    OBVIOUS
  <2>1. j <= n => j \in 1 .. n + 1
    BY <1>1
  <2>2. ~(j <= n) => j - n \in 1 .. k + 1
    BY <1>1
  <2> QED
    BY <2>1, <2>2
<1>6. e[1] = a
  <2>1. CASE n = 0
    BY <1>1, <1>2, <1>3, <2>1
  <2>2. CASE n # 0
    BY <1>1, <1>2, <2>2
  <2> QED
    BY <2>1, <2>2
<1>7. e[(n + k) + 1] = c
  <2>1. ~((n + k) + 1 <= n) /\ ((n + k) + 1) - n = k + 1 /\ (n + k) + 1 \in 1 .. (n + k) + 1
    BY <1>1
  <2> QED
    BY <1>3, <2>1
<1>8. \A j \in 1 .. n + 1 : e[j] = f[j]
  <2> SUFFICES ASSUME NEW j \in 1 .. n + 1 PROVE e[j] = f[j]
    OBVIOUS
  <2>1. CASE j <= n
    BY <1>1, <2>1
  <2>2. CASE j = n + 1
    <3>1. ~(j <= n) /\ j - n = 1 /\ j \in 1 .. (n + k) + 1
      BY <1>1, <2>2
    <3> QED
      BY <1>2, <1>3, <2>2, <3>1
  <2> QED
    BY <1>1, <2>1, <2>2
<1>9. \A j \in n + 1 .. (n + k) + 1 : e[j] = g[j - n]
  BY <1>1
<1> HIDE DEF e
<1>10. ASSUME NEW j \in 1 .. n + k PROVE e[j + 1] = e[j] + Delta(m, (s \o r)[j], p)
  <2>1. CASE j <= n
    <3>1. j \in 1 .. n /\ j + 1 \in 1 .. n + 1 /\ j \in 1 .. n + 1
      BY <1>1, <2>1
    <3> QED
      BY <1>2, <1>4, <1>8, <3>1
  <2>2. CASE ~(j <= n)
    <3>1. j \in n + 1 .. n + k /\ j \in n + 1 .. (n + k) + 1 /\ j + 1 \in n + 1 .. (n + k) + 1
          /\ j - n \in 1 .. k /\ (j + 1) - n = (j - n) + 1
      BY <1>1, <2>2
    <3>2. (s \o r)[j] = r[j - n]
      BY <1>4, <3>1
    <3>3. e[j] = g[j - n]
      BY <1>9, <3>1
    <3>4. e[j + 1] = g[(j + 1) - n]
      BY <1>9, <3>1
    <3>5. g[(j - n) + 1] = g[j - n] + Delta(m, r[j - n], p)
      BY <1>3, <3>1
    <3> QED
      BY <3>1, <3>2, <3>3, <3>4, <3>5
  <2> QED
    BY <2>1, <2>2
<1> QED
  BY <1>1, <1>5, <1>6, <1>7, <1>10 DEF Leads

\* Once the first of them has been handled.
LEMMA LeadsTail ==
  ASSUME NEW m, NEW s \in Seq(Hook), NEW r \in Seq(Hook), NEW p, NEW a, NEW b, Leads(m, s, p, a, b),
         Len(s) # 0, Len(r) = Len(s) - 1, \A j \in 1 .. Len(r) : r[j] = s[j + 1]
  PROVE  a + Delta(m, s[1], p) \in Nat /\ Leads(m, r, p, a + Delta(m, s[1], p), b)
<1> DEFINE n == Len(s)
<1>1. n \in Nat \ {0} /\ Len(r) = n - 1
  BY LenProperties
<1>2. PICK f \in [1 .. n + 1 -> Nat] :
           f[1] = a /\ f[n + 1] = b /\ \A j \in 1 .. n : f[j + 1] = f[j] + Delta(m, s[j], p)
  BY DEF Leads
<1> HIDE DEF n
<1> DEFINE g == [j \in 1 .. (n - 1) + 1 |-> f[j + 1]]
<1>3. \A j \in 1 .. (n - 1) + 1 : j + 1 \in 1 .. n + 1
  BY <1>1
<1>4. g \in [1 .. (n - 1) + 1 -> Nat]
  BY <1>3
<1>5. g[1] = a + Delta(m, s[1], p)
  <2>1. 1 \in 1 .. n /\ 1 \in 1 .. (n - 1) + 1
    BY <1>1
  <2> QED
    BY <1>2, <2>1
<1>6. g[(n - 1) + 1] = b
  <2>1. (n - 1) + 1 = n /\ n \in 1 .. (n - 1) + 1
    BY <1>1
  <2> QED
    BY <1>2, <2>1
<1>7. ASSUME NEW j \in 1 .. n - 1 PROVE g[j + 1] = g[j] + Delta(m, r[j], p)
  <2>1. j \in 1 .. (n - 1) + 1 /\ j + 1 \in 1 .. (n - 1) + 1 /\ j + 1 \in 1 .. n
    BY <1>1
  <2>2. g[j] = f[j + 1] /\ g[j + 1] = f[(j + 1) + 1] /\ r[j] = s[j + 1]
    BY <1>1, <2>1
  <2> QED
    BY <1>2, <2>1, <2>2
<1>8. 1 \in 1 .. (n - 1) + 1
  BY <1>1
<1> HIDE DEF g
<1>9. Leads(m, r, p, g[1], b)
  BY <1>1, <1>4, <1>6, <1>7 DEF Leads
<1> QED
  BY <1>4, <1>5, <1>8, <1>9

\* One more row, opened before, stays open.
LEMMA LeadsMore ==
  ASSUME NEW m, NEW s \in Seq(Hook), NEW p, NEW a, NEW b, Leads(m, s, p, a, b)
  PROVE  Leads(m, s, p, a + 1, b + 1)
<1> DEFINE n == Len(s)
<1>1. n \in Nat
  BY LenProperties
<1>2. PICK f \in [1 .. n + 1 -> Nat] :
           f[1] = a /\ f[n + 1] = b /\ \A j \in 1 .. n : f[j + 1] = f[j] + Delta(m, s[j], p)
  BY DEF Leads
<1> HIDE DEF n
<1> DEFINE g == [j \in 1 .. n + 1 |-> f[j] + 1]
<1>3. g \in [1 .. n + 1 -> Nat] /\ g[1] = a + 1 /\ g[n + 1] = b + 1
  BY <1>1, <1>2
<1>4. ASSUME NEW j \in 1 .. n PROVE g[j + 1] = g[j] + Delta(m, s[j], p)
  <2>1. j \in 1 .. n + 1 /\ j + 1 \in 1 .. n + 1
    BY <1>1
  <2>2. g[j] = f[j] + 1 /\ g[j + 1] = f[j + 1] + 1 /\ f[j] \in Nat
    BY <2>1
  <2>3. Delta(m, s[j], p) \in {-1, 0, 1}
    BY DeltaInt
  <2>4. f[j + 1] = f[j] + Delta(m, s[j], p)
    BY <1>2
  <2> HIDE DEF g
  <2> QED
    BY <2>2, <2>3, <2>4
<1> HIDE DEF g
<1> QED
  BY <1>3, <1>4 DEF Leads, n

\* It is enough to know the connections the webhooks are about.
LEMMA LeadsKnown ==
  ASSUME NEW m, NEW o, NEW s \in Seq(Hook), NEW p, NEW a, NEW b, Leads(m, s, p, a, b),
         \A j \in 1 .. Len(s) : Delta(m, s[j], p) = Delta(o, s[j], p)
  PROVE  Leads(o, s, p, a, b)
BY DEF Leads

\* The departures of a set of connections, of which one at most is of p.
LEMMA LeadsLefts ==
  ASSUME NEW C \in SUBSET Conn, NEW s \in Lefts(C), NEW m, NEW p,
         \A c, d \in C : m[c].who = p /\ m[d].who = p => c = d
  PROVE  Leads(m, s, p, IF \E c \in C : m[c].who = p THEN 1 ELSE 0, 0)
<1> DEFINE n == Cardinality(C)
<1>1. IsFiniteSet(C) /\ n \in Nat
  <2>1. IsFiniteSet(1 .. MaxConn)
    BY FS_Interval
  <2> QED
    BY <2>1, FS_Subset, FS_CardinalityType DEF Conn
<1>2. s \in Seq(Hook)
  BY LeftsAreHooks
<1>3. s \in [1 .. n -> {About("participant_left", c) : c \in C}] /\ \A c \in C : \E i \in DOMAIN s : s[i].conn = c
  BY DEF Lefts
<1>4. \A c : About("participant_left", c).event = "participant_left" /\ About("participant_left", c).conn = c
  BY DEF About
<1> HIDE DEF n
<1>5. DOMAIN s = 1 .. n /\ Len(s) = n
  BY <1>1, <1>2, <1>3, LenProperties
<1>6. \A j \in 1 .. n : s[j].event = "participant_left" /\ s[j].conn \in C
  <2> SUFFICES ASSUME NEW j \in 1 .. n PROVE s[j].event = "participant_left" /\ s[j].conn \in C
    OBVIOUS
  <2>1. s[j] \in {About("participant_left", c) : c \in C}
    BY <1>3
  <2>2. PICK c \in C : s[j] = About("participant_left", c)
    BY <2>1
  <2> QED
    BY <1>4, <2>2
<1>7. CASE ~\E c \in C : m[c].who = p
  <2>1. \A j \in 1 .. Len(s) : Delta(m, s[j], p) = 0
    BY <1>5, <1>6, <1>7 DEF Delta
  <2> QED
    BY <1>2, <1>7, <2>1, LeadsNowhere
<1>8. ASSUME NEW c \in C, m[c].who = p PROVE Leads(m, s, p, 1, 0)
  <2> DEFINE g == [j \in 1 .. n |-> s[j].conn]
  <2>1. g \in Surjection(1 .. n, C)
    <3>1. g \in [1 .. n -> C]
      BY <1>6
    <3>2. \A d \in C : \E j \in 1 .. n : g[j] = d
      BY <1>3, <1>5
    <3> QED
      BY <3>1, <3>2 DEF Surjection
  <2>2. IsFiniteSet(1 .. n) /\ Cardinality(1 .. n) = Cardinality(C)
    BY <1>1, FS_Interval DEF n
  <2>3. g \in Injection(1 .. n, C)
    BY <2>1, <2>2, FS_SurjSameCardinalityImpliesInj
  <2>4. \A i, j \in 1 .. n : s[i].conn = s[j].conn => i = j
    BY <2>3 DEF Injection, IsInjective
  <2>5. PICK i \in 1 .. n : s[i].conn = c
    BY <1>3, <1>5
  <2>6. Delta(m, s[i], p) = -1
    BY <1>6, <1>8, <2>5 DEF Delta
  <2>7. \A j \in 1 .. n : j # i => Delta(m, s[j], p) = 0
    <3> SUFFICES ASSUME NEW j \in 1 .. n, j # i PROVE Delta(m, s[j], p) = 0
      OBVIOUS
    <3>1. s[j].conn # c /\ s[j].conn \in C
      BY <1>6, <2>4, <2>5
    <3>2. m[s[j].conn].who # p
      BY <1>8, <3>1
    <3> QED
      BY <3>2 DEF Delta
  <2> DEFINE f == [j \in 1 .. n + 1 |-> IF j <= i THEN 1 ELSE 0]
  <2>8. f \in [1 .. n + 1 -> Nat] /\ f[1] = 1 /\ f[n + 1] = 0
    BY <1>1
  <2>9. ASSUME NEW j \in 1 .. n PROVE f[j + 1] = f[j] + Delta(m, s[j], p)
    <3>1. j \in 1 .. n + 1 /\ j + 1 \in 1 .. n + 1
      BY <1>1
    <3>2. f[j] = (IF j <= i THEN 1 ELSE 0) /\ f[j + 1] = (IF j + 1 <= i THEN 1 ELSE 0)
      BY <3>1
    <3> HIDE DEF f
    <3>3. CASE j = i
      BY <2>6, <3>2, <3>3
    <3>4. CASE j # i
      <4>1. j <= i <=> j + 1 <= i
        BY <3>4
      <4> QED
        BY <2>7, <3>2, <3>4, <4>1
    <3> QED
      BY <3>3, <3>4
  <2> HIDE DEF f
  <2> QED
    BY <1>5, <2>8, <2>9 DEF Leads
<1>9. CASE \E c \in C : m[c].who = p
  BY <1>8, <1>9
<1> QED
  BY <1>7, <1>9

-----------------------------------------------------------------------------
(* What the rows are to become, once all the webhooks have been handled     *)

\* The row of connection c is open, or will be, when the handler in flight is done.
StaysOpen(c) ==
  \/ sheet[c].row = "open" /\ ~\E t \in Slot : task[t].op = "left" /\ task[t].conn = c
  \/ \E t \in Slot : task[t].op = "joined" /\ task[t].conn = c
Settled(p) == {c \in DOMAIN conns : conns[c].who = p /\ StaysOpen(c)}
Wiped(p)   == \E c \in DOMAIN conns : conns[c].who = p /\ sheet[c].row = "deleted"
Present(p) == IF \E c \in inside : conns[c].who = p THEN 1 ELSE 0

\* The webhooks to come lead from the open rows of p to the connection of p, if it is up;
\* rows that were deleted are fewer.
Balanced(p) ==
  \E a \in Nat : /\ Leads(conns, hooks, p, a, Present(p))
                 /\ Cardinality(Settled(p)) <= a
                 /\ Cardinality(Settled(p)) = a \/ Wiped(p)

\* LiveKit keeps one connection of a person.
OneEach == \A c, d \in inside : conns[c].who = conns[d].who => c = d

\* A connection has one participant_joined, before it has a row.
JoinsNew    == \A j \in 1 .. Len(hooks) : \A c \in DOMAIN conns : Joining(hooks, j, c) => ~Recorded(c)
JoinsDiffer == \A i, j \in 1 .. Len(hooks) : \A c \in DOMAIN conns :
                 Joining(hooks, i, c) /\ Joining(hooks, j, c) => i = j
HandledOnce == \A t \in Slot : task[t].op = "joined" =>
                 /\ ~Recorded(task[t].conn)
                 /\ \A j \in 1 .. Len(hooks) : ~Joining(hooks, j, task[t].conn)
JoinsOnce == JoinsNew /\ JoinsDiffer /\ HandledOnce

LeavesKnown == \A j \in 1 .. Len(hooks) : hooks[j].event = "participant_left" => hooks[j].conn \in DOMAIN conns

\* recordLeave closes the row it found open, unless it has been deleted.
LeavingRows == Exists => \A t \in Slot : task[t].op = "left" => sheet[task[t].conn].row \in {"open", "deleted"}

PresenceInv == OneEach /\ JoinsOnce /\ LeavesKnown /\ LeavingRows /\ (Exists => \A p \in Person : Balanced(p))

LEMMA PresenceInvInit == Init => PresenceInv
<1> SUFFICES ASSUME Init PROVE PresenceInv
  OBVIOUS
<1>1. conns = <<>> /\ DOMAIN conns = {} /\ inside = {} /\ hooks = <<>> /\ Len(hooks) = 0
  BY DEF Init
<1>2. \A t \in Slot : task[t].op = "none"
  BY IdleType DEF Init
<1>3. \A p \in Person : Balanced(p)
  <2> SUFFICES ASSUME NEW p \in Person PROVE Balanced(p)
    OBVIOUS
  <2>1. Present(p) = 0
    BY <1>1 DEF Present
  <2>2. hooks \in Seq(Hook) /\ \A j \in 1 .. Len(hooks) : Delta(conns, hooks[j], p) = 0
    BY <1>1
  <2>3. Leads(conns, hooks, p, 0, 0)
    BY <2>2, LeadsNowhere
  <2>4. Settled(p) = {}
    BY <1>1 DEF Settled
  <2>5. Cardinality(Settled(p)) = 0
    BY <2>4, FS_EmptySet
  <2> QED
    BY <2>1, <2>3, <2>5 DEF Balanced
<1>4. OneEach /\ JoinsOnce /\ LeavesKnown /\ LeavingRows
  BY <1>1, <1>2 DEF OneEach, JoinsOnce, JoinsNew, JoinsDiffer, HandledOnce, LeavesKnown, LeavingRows
<1> QED
  BY <1>3, <1>4 DEF PresenceInv

LEMMA SheetTypes ==
  ASSUME TypeInv
  PROVE  DOMAIN conns \subseteq Conn /\ sheet \in [Conn -> [row : RowState, stamp : Int]]
<1>1. DOMAIN conns \subseteq Conn
  BY LenProperties DEF TypeInv, TypeOK, Conn
<1>2. sheet \in [Conn -> [row : RowState, stamp : Int]]
  BY DEF TypeInv, TypeOK
<1> QED
  BY <1>1, <1>2

LEMMA SettledFinite ==
  ASSUME TypeInv, NEW p
  PROVE  IsFiniteSet(Settled(p)) /\ Cardinality(Settled(p)) \in Nat /\ Settled(p) \subseteq Conn
<1>1. DOMAIN conns \subseteq Conn /\ IsFiniteSet(Conn)
  <2>1. IsFiniteSet(1 .. MaxConn)
    BY FS_Interval
  <2> QED
    BY <2>1, LenProperties DEF TypeInv, TypeOK, Conn
<1>2. Settled(p) \subseteq Conn
  BY <1>1 DEF Settled
<1> QED
  BY <1>1, <1>2, FS_Subset, FS_CardinalityType

\* Rows that settle differently are rows deleted: fewer are open than LiveKit has told of.
LEMMA BalancedKept ==
  ASSUME TypeInv, TypeInv', UNCHANGED <<hooks, conns, inside>>, NEW p, Balanced(p),
         \A c \in DOMAIN conns : StaysOpen(c)' => StaysOpen(c),
         \A c \in DOMAIN conns : StaysOpen(c) => StaysOpen(c)' \/ sheet'[c].row = "deleted",
         \A c \in DOMAIN conns : sheet[c].row = "deleted" => sheet'[c].row = "deleted"
  PROVE  Balanced(p)'
<1>1. PICK a \in Nat : /\ Leads(conns, hooks, p, a, Present(p))
                       /\ Cardinality(Settled(p)) <= a
                       /\ Cardinality(Settled(p)) = a \/ Wiped(p)
  BY DEF Balanced
<1>2. Leads(conns', hooks', p, a, Present(p)')
  BY <1>1 DEF Present
<1>3. Settled(p)' \subseteq Settled(p)
  BY DEF Settled
<1>4. Cardinality(Settled(p)') <= Cardinality(Settled(p))
  BY <1>3, SettledFinite, FS_Subset
<1>5. Cardinality(Settled(p)) \in Nat /\ Cardinality(Settled(p)') \in Nat
  <2>1. IsFiniteSet(Settled(p)')
    BY <1>3, SettledFinite, FS_Subset
  <2> QED
    BY <2>1, SettledFinite, FS_CardinalityType
<1>6. Wiped(p) => Wiped(p)'
  BY DEF Wiped
<1>7. Settled(p)' = Settled(p) \/ Wiped(p)'
  BY <1>3 DEF Settled, Wiped
<1>8. Cardinality(Settled(p)') = a \/ Wiped(p)'
  BY <1>1, <1>6, <1>7
<1>9. Cardinality(Settled(p)') <= a
  BY <1>1, <1>4, <1>5
<1> QED
  BY <1>2, <1>8, <1>9 DEF Balanced

\* A step that neither LiveKit nor the handling of a webhook has a part in.
Still ==
  /\ UNCHANGED <<hooks, conns, inside, sheet>> /\ (Exists' => Exists)
  /\ \A t \in Slot : Handling(t)' <=> Handling(t)
  /\ \A t \in Slot : Handling(t) => task'[t].op = task[t].op /\ task'[t].conn = task[t].conn

LEMMA StillKeeps ==
  ASSUME TypeInv, TypeInv', PresenceInv, Still
  PROVE  PresenceInv'
<1> USE DEF Still
<1>1. \A t \in Slot : /\ task'[t].op = "joined" <=> task[t].op = "joined"
                      /\ task'[t].op = "left" <=> task[t].op = "left"
                      /\ task[t].op \in {"joined", "left"} => task'[t].conn = task[t].conn
  BY DEF Handling
<1>2. \A c \in DOMAIN conns : StaysOpen(c)' <=> StaysOpen(c)
  BY <1>1 DEF StaysOpen
<1>3. Exists' => \A p \in Person : Balanced(p)'
  BY <1>2, BalancedKept DEF PresenceInv
<1>4. OneEach' /\ LeavesKnown'
  BY DEF PresenceInv, OneEach, LeavesKnown
<1>5. JoinsOnce'
  BY <1>1 DEF PresenceInv, JoinsOnce, JoinsNew, JoinsDiffer, HandledOnce, Joining, Recorded
<1>6. LeavingRows'
  BY <1>1 DEF PresenceInv, LeavingRows
<1> QED
  BY <1>3, <1>4, <1>5, <1>6 DEF PresenceInv

\* The room is gone, and its rows with it, but for those a handler has yet to look for.
LEMMA GoneKeeps ==
  ASSUME PresenceInv, UNCHANGED <<hooks, conns, inside>>, ~Exists',
         \A t \in Slot : task'[t].op = "joined" => task[t].op = "joined" /\ task'[t].conn = task[t].conn,
         \A c \in DOMAIN conns : Recorded(c)' => Recorded(c),
         \A t \in Slot : task'[t].op = "joined" => task'[t].conn \in DOMAIN conns
  PROVE  PresenceInv'
<1>1. OneEach' /\ LeavesKnown' /\ LeavingRows'
  BY DEF PresenceInv, OneEach, LeavesKnown, LeavingRows
<1>2. JoinsOnce'
  BY DEF PresenceInv, JoinsOnce, JoinsNew, JoinsDiffer, HandledOnce, Joining
<1> QED
  BY <1>1, <1>2 DEF PresenceInv

-----------------------------------------------------------------------------
(* What LiveKit posts                                                       *)

\* Webhooks of known connections, but for the join of one that is new.
News(s, N) ==
  /\ s \in Seq(Hook)
  /\ \A j \in 1 .. Len(s) : /\ s[j].event = "participant_left" => s[j].conn \in DOMAIN conns
                            /\ s[j].event = "participant_joined" => s[j].conn \in N
  /\ \A i, j \in 1 .. Len(s) : s[i].event = "participant_joined" /\ s[j].event = "participant_joined" => i = j

LEMMA NewsConcat ==
  ASSUME NEW s, NEW r, NEW N, News(s, N), News(r, {})
  PROVE  News(s \o r, N) /\ News(r \o s, N)
<1> DEFINE Shape(x, y) ==
      /\ x \o y \in Seq(Hook) /\ Len(x) \in Nat /\ Len(y) \in Nat /\ Len(x \o y) = Len(x) + Len(y)
      /\ \A j \in 1 .. Len(x) : (x \o y)[j] = x[j]
      /\ \A j \in Len(x) + 1 .. Len(x) + Len(y) : (x \o y)[j] = y[j - Len(x)] /\ j - Len(x) \in 1 .. Len(y)
<1>1. ASSUME NEW x \in Seq(Hook), NEW y \in Seq(Hook) PROVE Shape(x, y)
  <2>1. x \o y \in Seq(Hook) /\ Len(x) \in Nat /\ Len(y) \in Nat /\ Len(x \o y) = Len(x) + Len(y)
    BY LenProperties, ConcatProperties
  <2>2. \A j \in 1 .. Len(x) + Len(y) : (x \o y)[j] = IF j <= Len(x) THEN x[j] ELSE y[j - Len(x)]
    BY ConcatProperties
  <2>3. \A j \in 1 .. Len(x) : (x \o y)[j] = x[j]
    BY <2>1, <2>2
  <2>4. \A j \in Len(x) + 1 .. Len(x) + Len(y) : (x \o y)[j] = y[j - Len(x)] /\ j - Len(x) \in 1 .. Len(y)
    BY <2>1, <2>2
  <2> QED
    BY <2>1, <2>3, <2>4
<1>2. Shape(s, r) /\ Shape(r, s)
  BY <1>1 DEF News
<1>3. ASSUME NEW x, NEW y, NEW X, NEW Y, News(x, X), News(y, Y), Shape(x, y), X = {} \/ Y = {}
      PROVE  News(x \o y, X \cup Y)
  <2>1. \A j \in 1 .. Len(x \o y) : \/ j \in 1 .. Len(x) /\ (x \o y)[j] = x[j]
                                    \/ j - Len(x) \in 1 .. Len(y) /\ (x \o y)[j] = y[j - Len(x)]
    <3> SUFFICES ASSUME NEW j \in 1 .. Len(x \o y)
                 PROVE  \/ j \in 1 .. Len(x) /\ (x \o y)[j] = x[j]
                        \/ j - Len(x) \in 1 .. Len(y) /\ (x \o y)[j] = y[j - Len(x)]
      OBVIOUS
    <3>1. CASE j <= Len(x)
      BY <1>3, <3>1
    <3>2. CASE ~(j <= Len(x))
      <4>1. j \in Len(x) + 1 .. Len(x) + Len(y)
        BY <1>3, <3>2
      <4> QED
        BY <1>3, <4>1
    <3> QED
      BY <3>1, <3>2
  <2>2. \A j \in 1 .. Len(x \o y) :
          /\ (x \o y)[j].event = "participant_left" => (x \o y)[j].conn \in DOMAIN conns
          /\ (x \o y)[j].event = "participant_joined" => (x \o y)[j].conn \in X \cup Y
    BY <1>3, <2>1 DEF News
  <2>3. ASSUME NEW i \in 1 .. Len(x \o y), NEW j \in 1 .. Len(x \o y),
               (x \o y)[i].event = "participant_joined", (x \o y)[j].event = "participant_joined"
        PROVE  i = j
    <3>1. CASE X = {}
      <4>1. \A k \in 1 .. Len(x) : x[k].event # "participant_joined"
        BY <1>3, <3>1 DEF News
      <4>2. /\ i - Len(x) \in 1 .. Len(y) /\ y[i - Len(x)].event = "participant_joined"
            /\ j - Len(x) \in 1 .. Len(y) /\ y[j - Len(x)].event = "participant_joined"
        BY <2>1, <2>3, <4>1
      <4>3. i - Len(x) = j - Len(x)
        BY <1>3, <4>2 DEF News
      <4> QED
        BY <1>3, <4>3
    <3>2. CASE Y = {}
      <4>1. \A k \in 1 .. Len(y) : y[k].event # "participant_joined"
        BY <1>3, <3>2 DEF News
      <4>2. /\ i \in 1 .. Len(x) /\ x[i].event = "participant_joined"
            /\ j \in 1 .. Len(x) /\ x[j].event = "participant_joined"
        BY <2>1, <2>3, <4>1
      <4> QED
        BY <1>3, <4>2 DEF News
    <3> QED
      BY <1>3, <3>1, <3>2
  <2> QED
    BY <1>3, <2>2, <2>3 DEF News
<1> HIDE DEF Shape
<1>4. News(s \o r, N \cup {}) /\ News(r \o s, {} \cup N)
  BY <1>2, <1>3
<1>5. N \cup {} = N /\ {} \cup N = N
  OBVIOUS
<1> QED
  BY <1>4, <1>5

LEMMA NewsOne ==
  ASSUME NEW event \in {"room_started", "room_finished", "participant_joined", "participant_left"},
         NEW c \in 0 .. MaxConn, NEW N,
         event = "participant_left" => c \in DOMAIN conns, event = "participant_joined" => c \in N
  PROVE  News(<<About(event, c)>>, N)
<1>1. <<About(event, c)>> \in Seq(Hook) /\ Len(<<About(event, c)>>) = 1 /\ <<About(event, c)>>[1] = About(event, c)
  BY OneEvent
<1>2. About(event, c).event = event /\ About(event, c).conn = c
  BY DEF About
<1> HIDE DEF About
<1> QED
  BY <1>1, <1>2 DEF News

LEMMA NewsLefts ==
  ASSUME NEW C \in SUBSET Conn, C \subseteq DOMAIN conns, NEW s \in Lefts(C), NEW N
  PROVE  News(s, N)
<1>1. s \in Seq(Hook) /\ \A j \in DOMAIN s : s[j].event = "participant_left"
  BY LeftsAreHooks
<1>2. s \in [1 .. Cardinality(C) -> {About("participant_left", c) : c \in C}]
  BY DEF Lefts
<1>3. \A j \in DOMAIN s : s[j].conn \in C
  BY <1>2 DEF About
<1>4. DOMAIN s = 1 .. Len(s)
  BY <1>1, LenProperties
<1> QED
  BY <1>1, <1>3, <1>4 DEF News

\* The handlers of webhooks go on with theirs.
SameWebhook ==
  /\ \A t \in Slot : Handling(t)' <=> Handling(t)
  /\ \A t \in Slot : Handling(t) => task'[t].op = task[t].op /\ task'[t].conn = task[t].conn

\* LiveKit posts what it has to tell of the connections that come and go.
LEMMA PostsNews ==
  ASSUME MeetingInv, TypeInv', PresenceInv, NEW s, NEW N, News(s, N), hooks' = hooks \o s,
         N \cap DOMAIN conns = {}, DOMAIN conns \subseteq DOMAIN conns', \A c \in DOMAIN conns : conns'[c] = conns[c],
         UNCHANGED sheet, Exists' => Exists, SameWebhook,
         \A p \in Person : Leads(conns', s, p, Present(p), Present(p)'), OneEach'
  PROVE  PresenceInv'
<1> DEFINE n == Len(hooks)
<1>1. hooks \in Seq(Hook) /\ s \in Seq(Hook) /\ n \in Nat /\ Len(s) \in Nat /\ Len(hooks') = n + Len(s)
  BY LenProperties, ConcatProperties DEF MeetingInv, TypeInv, TypeOK, News
<1>2. \A j \in 1 .. n + Len(s) : hooks'[j] = IF j <= n THEN hooks[j] ELSE s[j - n]
  BY <1>1, ConcatProperties
<1> HIDE DEF n
<1>3. \A j \in 1 .. n + Len(s) : \/ j \in 1 .. n /\ hooks'[j] = hooks[j]
                                 \/ j > n /\ j - n \in 1 .. Len(s) /\ hooks'[j] = s[j - n]
  <2> SUFFICES ASSUME NEW j \in 1 .. n + Len(s)
               PROVE  \/ j \in 1 .. n /\ hooks'[j] = hooks[j]
                      \/ j > n /\ j - n \in 1 .. Len(s) /\ hooks'[j] = s[j - n]
    OBVIOUS
  <2>1. CASE j <= n
    BY <1>1, <1>2, <2>1
  <2>2. CASE ~(j <= n)
    BY <1>1, <1>2, <2>2
  <2> QED
    BY <2>1, <2>2
<1>4. DOMAIN conns' \subseteq Conn
  BY LenProperties DEF TypeInv, TypeOK, Conn
<1>5. \A c \in Conn : Recorded(c)' <=> Recorded(c)
  BY DEF Recorded
<1>6. \A c \in Conn : Recorded(c) => c \in DOMAIN conns
  BY DEF MeetingInv, KnownInv, RowsKnown
<1>7. \A j \in 1 .. n + Len(s) : \A c : Joining(hooks', j, c) =>
         \/ j \in 1 .. n /\ Joining(hooks, j, c) /\ c \in DOMAIN conns
         \/ j > n /\ j - n \in 1 .. Len(s) /\ Joining(s, j - n, c) /\ c \in N /\ c \notin DOMAIN conns
  <2> SUFFICES ASSUME NEW j \in 1 .. n + Len(s), NEW c, Joining(hooks', j, c)
               PROVE  \/ j \in 1 .. n /\ Joining(hooks, j, c) /\ c \in DOMAIN conns
                      \/ j > n /\ j - n \in 1 .. Len(s) /\ Joining(s, j - n, c) /\ c \in N /\ c \notin DOMAIN conns
    OBVIOUS
  <2>1. CASE j \in 1 .. n /\ hooks'[j] = hooks[j]
    <3>1. Joining(hooks, j, c)
      BY <2>1 DEF Joining
    <3>2. c \in DOMAIN conns
      BY <2>1, <3>1 DEF Joining, MeetingInv, KnownInv, JoinsKnown, n
    <3> QED
      BY <2>1, <3>1, <3>2
  <2>2. CASE j > n /\ j - n \in 1 .. Len(s) /\ hooks'[j] = s[j - n]
    <3>1. Joining(s, j - n, c)
      BY <2>2 DEF Joining
    <3>2. c \in N
      BY <2>2, <3>1 DEF Joining, News
    <3> QED
      BY <2>2, <3>1, <3>2
  <2> QED
    BY <1>3, <2>1, <2>2
<1>8. JoinsNew'
  BY <1>1, <1>4, <1>5, <1>6, <1>7 DEF PresenceInv, JoinsOnce, JoinsNew, n
<1>9. JoinsDiffer'
  <2> SUFFICES ASSUME NEW i \in 1 .. n + Len(s), NEW j \in 1 .. n + Len(s), NEW c \in DOMAIN conns',
                      Joining(hooks', i, c), Joining(hooks', j, c)
               PROVE  i = j
    BY <1>1 DEF JoinsDiffer
  <2>1. CASE c \in DOMAIN conns
    <3>1. i \in 1 .. n /\ j \in 1 .. n /\ Joining(hooks, i, c) /\ Joining(hooks, j, c)
      BY <1>7, <2>1
    <3> QED
      BY <2>1, <3>1 DEF PresenceInv, JoinsOnce, JoinsDiffer, n
  <2>2. CASE c \notin DOMAIN conns
    <3>1. i - n \in 1 .. Len(s) /\ j - n \in 1 .. Len(s) /\ Joining(s, i - n, c) /\ Joining(s, j - n, c)
      BY <1>7, <2>2
    <3>2. i - n = j - n
      BY <3>1 DEF News, Joining
    <3> QED
      BY <1>1, <3>2
  <2> QED
    BY <2>1, <2>2
<1>10. \A t \in Slot : /\ task'[t].op = "joined" <=> task[t].op = "joined"
                       /\ task'[t].op = "left" <=> task[t].op = "left"
                       /\ task[t].op \in {"joined", "left"} => task'[t].conn = task[t].conn
  BY DEF SameWebhook, Handling
<1>11. \A t \in Slot : task[t].op = "joined" => task[t].conn \in DOMAIN conns
  BY DEF MeetingInv, KnownInv, HandledKnown, Handling
<1>12. HandledOnce'
  <2> SUFFICES ASSUME NEW t \in Slot, task[t].op = "joined"
               PROVE  /\ ~Recorded(task[t].conn)
                      /\ \A j \in 1 .. n + Len(s) : ~Joining(hooks', j, task[t].conn)
    BY <1>1, <1>10 DEF HandledOnce, Recorded
  <2> QED
    BY <1>7, <1>11 DEF PresenceInv, JoinsOnce, HandledOnce, n
<1>13. LeavesKnown'
  <2> SUFFICES ASSUME NEW j \in 1 .. n + Len(s), hooks'[j].event = "participant_left"
               PROVE  hooks'[j].conn \in DOMAIN conns
    BY <1>1 DEF LeavesKnown
  <2>1. CASE j \in 1 .. n /\ hooks'[j] = hooks[j]
    BY <2>1 DEF PresenceInv, LeavesKnown, n
  <2>2. CASE j - n \in 1 .. Len(s) /\ hooks'[j] = s[j - n]
    BY <2>2 DEF News
  <2> QED
    BY <1>3, <2>1, <2>2
<1>14. LeavingRows'
  BY <1>10 DEF PresenceInv, LeavingRows
<1>15. ASSUME NEW p \in Person, Exists' PROVE Balanced(p)'
  <2>1. PICK a \in Nat : /\ Leads(conns, hooks, p, a, Present(p))
                         /\ Cardinality(Settled(p)) <= a
                         /\ Cardinality(Settled(p)) = a \/ Wiped(p)
    BY <1>15 DEF PresenceInv, Balanced
  <2>2. \A j \in 1 .. n : Delta(conns, hooks[j], p) = Delta(conns', hooks[j], p)
    <3> SUFFICES ASSUME NEW j \in 1 .. n PROVE Delta(conns, hooks[j], p) = Delta(conns', hooks[j], p)
      OBVIOUS
    <3>1. hooks[j].event \in {"participant_left", "participant_joined"} => hooks[j].conn \in DOMAIN conns
      BY DEF PresenceInv, LeavesKnown, MeetingInv, KnownInv, JoinsKnown, n
    <3> QED
      BY <3>1 DEF Delta
  <2>3. Leads(conns', hooks, p, a, Present(p))
    BY <1>1, <2>1, <2>2, LeadsKnown DEF n
  <2>4. Leads(conns', s, p, Present(p), Present(p)')
    OBVIOUS
  <2>5. Leads(conns', hooks', p, a, Present(p)')
    BY <1>1, <2>3, <2>4, LeadsConcat
  <2>6. \A c \in DOMAIN conns : StaysOpen(c)' <=> StaysOpen(c)
    BY <1>10 DEF StaysOpen
  <2>7. \A c \in DOMAIN conns' : c \notin DOMAIN conns => ~StaysOpen(c)'
    <3> SUFFICES ASSUME NEW c \in DOMAIN conns', c \notin DOMAIN conns PROVE ~StaysOpen(c)'
      OBVIOUS
    <3>1. sheet'[c].row = "none"
      BY <1>4, <1>6 DEF Recorded
    <3>2. \A t \in Slot : task'[t].op = "joined" => task'[t].conn # c
      BY <1>10, <1>11
    <3> QED
      BY <3>1, <3>2 DEF StaysOpen
  <2>8. Settled(p)' = Settled(p)
    BY <2>6, <2>7 DEF Settled
  <2>9. Wiped(p) => Wiped(p)'
    BY DEF Wiped
  <2> QED
    BY <2>1, <2>5, <2>8, <2>9 DEF Balanced
<1> QED
  BY <1>8, <1>9, <1>12, <1>13, <1>14, <1>15 DEF PresenceInv, JoinsOnce

\* LiveKit opens the room if need be.
LEMMA OpensNews ==
  ASSUME TypeInv, NEW x, NEW N, News(x, N), Opens(x)
  PROVE  \E s : /\ News(s, N) /\ hooks' = hooks \o s
                /\ \A p \in Person : \A a, b \in Nat : Leads(conns', x, p, a, b) => Leads(conns', s, p, a, b)
<1>1. hooks \in Seq(Hook) /\ x \in Seq(Hook)
  BY DEF TypeInv, TypeOK, News
<1>2. CASE open
  BY <1>2 DEF Opens
<1>3. CASE ~open
  <2> DEFINE e == RoomEvent("room_started")
  <2>1. News(e, {})
    BY NewsOne DEF RoomEvent
  <2>2. e \in Seq(Hook) /\ Len(e) = 1 /\ e[1].event = "room_started"
    BY OneEvent DEF RoomEvent, About
  <2>3. hooks' = hooks \o e \o x
    BY <1>3 DEF Opens
  <2> HIDE DEF e
  <2>4. hooks' = hooks \o (e \o x)
    <3>1. (hooks \o e) \o x = hooks \o (e \o x)
      BY <1>1, <2>2, ConcatAssociative
    <3> QED
      BY <2>3, <3>1
  <2>5. News(e \o x, N)
    BY <2>1, NewsConcat
  <2>6. ASSUME NEW p \in Person, NEW a \in Nat, NEW b \in Nat, Leads(conns', x, p, a, b)
        PROVE  Leads(conns', e \o x, p, a, b)
    <3>1. \A j \in 1 .. Len(e) : Delta(conns', e[j], p) = 0
      BY <2>2 DEF Delta
    <3>2. Leads(conns', e, p, a, a)
      BY <2>2, <3>1, LeadsNowhere
    <3> QED
      BY <1>1, <2>2, <2>6, <3>2, LeadsConcat
  <2> QED
    BY <2>4, <2>5, <2>6
<1> QED
  BY <1>2, <1>3

\* A person connects: LiveKit tells of the connection it drops, before or after.
LEMMA ConnectKeeps ==
  ASSUME MeetingInv, TypeInv', PresenceInv, NEW p \in Person, Connect(p)
  PROVE  PresenceInv'
<1> DEFINE c == Len(conns) + 1
           old == {d \in inside : conns[d].who = p}
           joined == <<About("participant_joined", c)>>
<1>1. conns \in Seq(Connection) /\ Len(conns) \in Nat /\ DOMAIN conns = 1 .. Len(conns) /\ inside \subseteq DOMAIN conns
      /\ session' \in 1 .. MaxSession /\ DOMAIN conns \subseteq Conn
  <2>1. conns \in Seq(Connection) /\ inside \subseteq DOMAIN conns /\ Len(conns) <= MaxConn
    BY DEF MeetingInv, TypeInv, TypeOK, Connection
  <2>c. DOMAIN conns \subseteq Conn
    BY <2>1, LenProperties DEF Conn
  <2>2. PICK x \in Seq(Hook) : Opens(x)
    <3>1. old \in SUBSET Conn
      BY <2>1, <2>c
    <3>2. c \in 0 .. MaxConn
      BY DEF Connect, Conn
    <3> HIDE DEF old
    <3>3. joined \in Seq(Hook)
      BY <3>2, OneEvent
    <3>4. \A l \in Lefts(old) : l \in Seq(Hook)
      BY <3>1, LeftsAreHooks
    <3> HIDE DEF joined
    <3>5. \A l \in Lefts(old) : l \o joined \in Seq(Hook) /\ joined \o l \in Seq(Hook)
      BY <3>3, <3>4, ConcatProperties
    <3>6. \E l \in Lefts(old) : Opens(l \o joined) \/ Opens(joined \o l)
      BY DEF Connect, old, joined
    <3> QED
      BY <3>5, <3>6
  <2>3. session' \in 1 .. MaxSession
    BY <2>2, OpensTypes DEF MeetingInv
  <2> QED
    BY <2>1, <2>c, <2>3, LenProperties
<1>2. /\ conns' = Append(conns, [who |-> p, session |-> session']) /\ c \in Conn
      /\ inside' = (inside \ old) \cup {c} /\ UNCHANGED <<dbVars, task>>
  BY DEF Connect
<1>3. /\ DOMAIN conns' = DOMAIN conns \cup {c} /\ c \notin DOMAIN conns
      /\ \A d \in DOMAIN conns : conns'[d] = conns[d]
      /\ conns'[c].who = p
  <2>1. [who |-> p, session |-> session'] \in Connection
    BY <1>1 DEF Connection
  <2> QED
    BY <1>1, <1>2, <2>1, AppendProperties
<1>4. old \in SUBSET Conn /\ old \subseteq DOMAIN conns /\ old \subseteq inside
  BY <1>1
<1>5. c \in 0 .. MaxConn
  BY <1>2 DEF Conn
<1>6. News(joined, {c}) /\ joined \in Seq(Hook) /\ Len(joined) = 1 /\ joined[1] = About("participant_joined", c)
  BY <1>5, OneEvent, NewsOne
<1>7. \A d \in old : conns[d].who = p
  OBVIOUS
<1>8. \A d \in inside : conns[d].who = p => d \in old
  OBVIOUS
<1>9. PICK l \in Lefts(old) : Opens(l \o joined) \/ (old # {} /\ Opens(joined \o l))
  BY DEF Connect
<1> HIDE DEF c, old, joined
<1>10. News(l, {}) /\ l \in Seq(Hook)
  BY <1>4, NewsLefts, LeftsAreHooks
<1>11. \A d \in old : conns'[d] = conns[d]
  BY <1>3, <1>4
<1>12. News(l \o joined, {c}) /\ News(joined \o l, {c})
  BY <1>6, <1>10, NewsConcat
\* The person has a connection less or more, then the new one.
<1>13. /\ Leads(conns', l \o joined, p, Present(p), 1)
       /\ old # {} => Leads(conns', joined \o l, p, Present(p), 1)
  <2>1. (\E d \in old : conns'[d].who = p) <=> (\E d \in inside : conns[d].who = p)
    BY <1>4, <1>7, <1>8, <1>11
  <2>2. \A d, e \in old : conns'[d].who = p /\ conns'[e].who = p => d = e
    BY <1>4, <1>7 DEF PresenceInv, OneEach
  <2>3. Leads(conns', l, p, IF \E d \in old : conns'[d].who = p THEN 1 ELSE 0, 0)
    BY <1>4, <2>2, LeadsLefts
  <2>4. Leads(conns', l, p, Present(p), 0)
    BY <2>1, <2>3 DEF Present
  <2>5. Delta(conns', joined[1], p) = 1
    BY <1>3, <1>6 DEF Delta, About
  <2>6. joined = <<joined[1]>> /\ joined[1] \in Hook
    BY <1>5, <1>6, OneEvent DEF joined
  <2>7. ASSUME NEW a \in Nat PROVE Leads(conns', joined, p, a, a + 1)
    BY <2>5, <2>6, LeadsOne
  <2>8. Leads(conns', l \o joined, p, Present(p), 1)
    <3>1. Leads(conns', joined, p, 0, 0 + 1) /\ 0 + 1 = 1
      BY <2>7
    <3> QED
      BY <1>6, <1>10, <2>4, <3>1, LeadsConcat
  <2>9. ASSUME old # {} PROVE Leads(conns', joined \o l, p, Present(p), 1)
    <3>1. Present(p) = 1
      BY <1>4, <1>7, <2>9 DEF Present
    <3>2. Leads(conns', joined, p, 1, 1 + 1)
      BY <2>7
    <3>3. Leads(conns', l, p, 1 + 1, 0 + 1)
      BY <1>10, <2>4, <3>1, LeadsMore
    <3>4. 0 + 1 = 1
      OBVIOUS
    <3> QED
      BY <1>6, <1>10, <3>1, <3>2, <3>3, <3>4, LeadsConcat
  <2> QED
    BY <2>8, <2>9
<1>14. Present(p)' = 1
  BY <1>2, <1>3 DEF Present
\* The others keep theirs.
<1>15. ASSUME NEW q \in Person, q # p
       PROVE  /\ Leads(conns', l \o joined, q, Present(q), Present(q)')
              /\ Leads(conns', joined \o l, q, Present(q), Present(q)')
  <2>1. Present(q) \in Nat
    BY DEF Present
  <2>2. Present(q)' = Present(q)
    <3>1. (\E d \in inside' : conns'[d].who = q) <=> (\E d \in inside : conns[d].who = q)
      BY <1>1, <1>2, <1>3, <1>7, <1>15
    <3> QED
      BY <3>1 DEF Present
  <2>3. \A j \in 1 .. Len(joined) : Delta(conns', joined[j], q) = 0
    BY <1>3, <1>6, <1>15 DEF Delta, About
  <2>4. Leads(conns', joined, q, Present(q), Present(q))
    BY <1>6, <2>1, <2>3, LeadsNowhere
  <2>5. \A j \in 1 .. Len(l) : l[j].event = "participant_left" /\ l[j].conn \in old
    <3>1. l \in [1 .. Cardinality(old) -> {About("participant_left", d) : d \in old}]
      BY DEF Lefts
    <3>2. DOMAIN l = 1 .. Len(l)
      BY <1>10, LenProperties
    <3>3. \A j \in 1 .. Len(l) : l[j] \in {About("participant_left", d) : d \in old}
      BY <3>1, <3>2
    <3> QED
      BY <3>3 DEF About
  <2>6. \A j \in 1 .. Len(l) : Delta(conns', l[j], q) = 0
    BY <1>7, <1>11, <1>15, <2>5 DEF Delta
  <2>7. Leads(conns', l, q, Present(q), Present(q))
    BY <1>10, <2>1, <2>6, LeadsNowhere
  <2> QED
    BY <1>6, <1>10, <2>2, <2>4, <2>7, LeadsConcat
<1>16. PICK x : /\ News(x, {c}) /\ Opens(x)
                /\ \A q \in Person : Leads(conns', x, q, Present(q), Present(q)')
  <2>1. CASE Opens(l \o joined)
    BY <1>12, <1>13, <1>14, <1>15, <2>1
  <2>2. CASE old # {} /\ Opens(joined \o l)
    BY <1>12, <1>13, <1>14, <1>15, <2>2
  <2> QED
    BY <1>9, <2>1, <2>2
<1>17. PICK s : /\ News(s, {c}) /\ hooks' = hooks \o s
                /\ \A q \in Person : \A a, b \in Nat : Leads(conns', x, q, a, b) => Leads(conns', s, q, a, b)
  BY <1>16, OpensNews DEF MeetingInv
<1>18. \A q \in Person : Leads(conns', s, q, Present(q), Present(q)')
  <2>1. \A q \in Person : Present(q) \in Nat /\ Present(q)' \in Nat
    BY DEF Present
  <2> QED
    BY <1>16, <1>17, <2>1
<1>19. OneEach'
  <2> SUFFICES ASSUME NEW d \in inside', NEW e \in inside', conns'[d].who = conns'[e].who PROVE d = e
    BY DEF OneEach
  <2>1. \A f \in inside' : f = c \/ (f \in inside /\ f \in DOMAIN conns /\ conns'[f] = conns[f] /\ conns[f].who # p)
    BY <1>1, <1>2, <1>3, <1>8
  <2> QED
    BY <1>3, <2>1 DEF PresenceInv, OneEach
<1>20. SameWebhook /\ sheet' = sheet /\ (Exists' => Exists)
  BY <1>2 DEF SameWebhook, dbVars, Exists, Handling
<1>21. {c} \cap DOMAIN conns = {} /\ DOMAIN conns \subseteq DOMAIN conns'
  BY <1>3
<1> QED
  BY <1>3, <1>17, <1>18, <1>19, <1>20, <1>21, PostsNews

\* A connection ends.
LEMMA LeaveKeeps ==
  ASSUME MeetingInv, TypeInv', PresenceInv, NEW c \in inside, Leave(c)
  PROVE  PresenceInv'
<1> DEFINE s == <<About("participant_left", c)>>
<1>1. c \in DOMAIN conns /\ c \in 0 .. MaxConn
  BY LenProperties DEF MeetingInv, TypeInv, TypeOK
<1>2. News(s, {}) /\ s \in Seq(Hook) /\ About("participant_left", c) \in Hook
  BY <1>1, NewsOne, OneEvent
<1>3. /\ hooks' = Append(hooks, About("participant_left", c)) /\ inside' = inside \ {c}
      /\ UNCHANGED <<dbVars, conns, task>>
  BY DEF Leave
<1>4. hooks' = hooks \o s
  BY <1>2, <1>3, AppendIsConcat DEF MeetingInv, TypeInv, TypeOK
<1>5. ASSUME NEW p \in Person PROVE Leads(conns', s, p, Present(p), Present(p)')
  <2>1. Delta(conns', About("participant_left", c), p) = IF conns[c].who = p THEN -1 ELSE 0
    BY <1>3 DEF Delta, About
  <2>2. Present(p) + Delta(conns', About("participant_left", c), p) = Present(p)'
    <3>1. CASE conns[c].who = p
      <4>1. Present(p) = 1
        BY <3>1 DEF Present
      <4>2. \A d \in inside \ {c} : conns[d].who # p
        BY <3>1 DEF PresenceInv, OneEach
      <4>3. Present(p)' = 0
        BY <1>3, <4>2 DEF Present
      <4> QED
        BY <2>1, <3>1, <4>1, <4>3
    <3>2. CASE conns[c].who # p
      <4>1. Present(p)' = Present(p)
        BY <1>3, <3>2 DEF Present
      <4> QED
        BY <2>1, <3>2, <4>1 DEF Present
    <3> QED
      BY <3>1, <3>2
  <2>3. Present(p) \in Nat /\ Present(p)' \in Nat
    BY DEF Present
  <2> QED
    BY <1>2, <2>2, <2>3, LeadsOne
<1>6. OneEach'
  BY <1>3 DEF PresenceInv, OneEach
<1>7. SameWebhook /\ sheet' = sheet /\ (Exists' => Exists)
  BY <1>3 DEF SameWebhook, dbVars, Exists, Handling
<1> HIDE DEF s
<1> QED
  BY <1>2, <1>3, <1>4, <1>5, <1>6, <1>7, PostsNews

\* The room is closed: everybody leaves.
LEMMA ClosesKeeps ==
  ASSUME MeetingInv, TypeInv', PresenceInv, Closes, UNCHANGED sheet, Exists' => Exists, SameWebhook
  PROVE  PresenceInv'
<1> DEFINE e == RoomEvent("room_finished")
<1>1. PICK l \in Lefts(inside) : hooks' = hooks \o l \o e
  BY DEF Closes
<1>2. inside \in SUBSET Conn /\ inside \subseteq DOMAIN conns /\ hooks \in Seq(Hook)
  BY LenProperties DEF MeetingInv, TypeInv, TypeOK, Conn
<1>3. News(l, {}) /\ l \in Seq(Hook)
  BY <1>2, NewsLefts, LeftsAreHooks
<1>4. News(e, {}) /\ e \in Seq(Hook) /\ Len(e) = 1 /\ e[1].event = "room_finished"
  BY NewsOne, OneEvent DEF RoomEvent, About
<1> HIDE DEF e
<1>5. hooks' = hooks \o (l \o e)
  BY <1>1, <1>2, <1>3, <1>4, ConcatAssociative
<1>6. News(l \o e, {})
  BY <1>3, <1>4, NewsConcat
<1>7. inside' = {} /\ conns' = conns
  BY DEF Closes
<1>8. ASSUME NEW p \in Person PROVE Leads(conns', l \o e, p, Present(p), Present(p)')
  <2>1. \A c, d \in inside : conns[c].who = p /\ conns[d].who = p => c = d
    BY DEF PresenceInv, OneEach
  <2>2. Leads(conns, l, p, IF \E c \in inside : conns[c].who = p THEN 1 ELSE 0, 0)
    BY <1>2, <2>1, LeadsLefts
  <2>3. Leads(conns, l, p, Present(p), 0)
    BY <2>2 DEF Present
  <2>4. \A j \in 1 .. Len(e) : Delta(conns, e[j], p) = 0
    BY <1>4 DEF Delta
  <2>5. Leads(conns, e, p, 0, 0)
    BY <1>4, <2>4, LeadsNowhere
  <2>6. Present(p)' = 0
    BY <1>7 DEF Present
  <2> QED
    BY <1>3, <1>4, <1>7, <2>3, <2>5, <2>6, LeadsConcat
<1>9. OneEach'
  BY <1>7 DEF OneEach
<1> QED
  BY <1>5, <1>6, <1>7, <1>8, <1>9, PostsNews

\* The first half of join: the room is opened for those to come.
LEMMA JoinCreatesKeeps ==
  ASSUME MeetingInv, TypeInv', PresenceInv, Opens(<<>>), UNCHANGED <<sheet, conns, inside>>, Exists' => Exists, SameWebhook
  PROVE  PresenceInv'
<1>1. News(<<>>, {})
  BY DEF News
<1>2. PICK s : /\ News(s, {}) /\ hooks' = hooks \o s
               /\ \A p \in Person : \A a, b \in Nat : Leads(conns', <<>>, p, a, b) => Leads(conns', s, p, a, b)
  BY <1>1, OpensNews DEF MeetingInv
<1>3. ASSUME NEW p \in Person PROVE Leads(conns', s, p, Present(p), Present(p)')
  <2>1. Present(p) \in Nat /\ Present(p)' = Present(p)
    BY DEF Present
  <2>2. <<>> \in Seq(Hook) /\ \A j \in 1 .. Len(<<>>) : Delta(conns', <<>>[j], p) = 0
    OBVIOUS
  <2>3. Leads(conns', <<>>, p, Present(p), Present(p))
    BY <2>1, <2>2, LeadsNowhere
  <2> QED
    BY <1>2, <2>1, <2>3
<1>4. OneEach'
  BY DEF PresenceInv, OneEach
<1> QED
  BY <1>2, <1>3, <1>4, PostsNews

-----------------------------------------------------------------------------
(* What the handlers of webhooks do                                         *)

\* The oldest webhook is taken, and no other was being handled.
Oldest(event) ==
  /\ hooks[1].event = event
  /\ Len(hooks) \in Nat \ {0} /\ Len(hooks') = Len(hooks) - 1
  /\ \A j \in 1 .. Len(hooks') : hooks'[j] = hooks[j + 1]
  /\ \A u \in Slot : ~Handling(u)
  /\ UNCHANGED <<conns, inside, sheet>> /\ (Exists' => Exists)

LEMMA OldestTaken ==
  ASSUME MeetingInv, TypeInv', PresenceInv, NEW event, Oldest(event)
  PROVE  /\ OneEach' /\ JoinsNew' /\ JoinsDiffer' /\ LeavesKnown'
         /\ \A c \in DOMAIN conns : Joining(hooks, 1, c) => \A j \in 1 .. Len(hooks') : ~Joining(hooks', j, c)
         /\ \A p \in Person : Exists =>
              \E a \in Nat : /\ a + Delta(conns, hooks[1], p) \in Nat
                             /\ Leads(conns', hooks', p, a + Delta(conns, hooks[1], p), Present(p)')
                             /\ Cardinality(OpenRows(p)) <= a
                             /\ Cardinality(OpenRows(p)) = a \/ Wiped(p)
<1> USE DEF Oldest
<1> DEFINE n == Len(hooks)
<1>1. n \in Nat \ {0} /\ Len(hooks') = n - 1 /\ hooks \in Seq(Hook) /\ hooks' \in Seq(Hook)
  BY DEF MeetingInv, TypeInv, TypeOK
<1> HIDE DEF n
<1>2. \A j \in 1 .. n - 1 : hooks'[j] = hooks[j + 1] /\ j + 1 \in 1 .. n /\ j + 1 # 1
  BY <1>1
<1>3. \A j \in 1 .. n - 1 : \A c : Joining(hooks', j, c) => Joining(hooks, j + 1, c)
  BY <1>2 DEF Joining
<1>4. OneEach'
  BY DEF PresenceInv, OneEach
<1>5. JoinsNew'
  BY <1>1, <1>2, <1>3 DEF PresenceInv, JoinsOnce, JoinsNew, Recorded, n
<1>6. JoinsDiffer'
  <2> SUFFICES ASSUME NEW i \in 1 .. n - 1, NEW j \in 1 .. n - 1, NEW c \in DOMAIN conns,
                      Joining(hooks', i, c), Joining(hooks', j, c)
               PROVE  i = j
    BY <1>1 DEF JoinsDiffer
  <2>1. i + 1 = j + 1
    BY <1>2, <1>3 DEF PresenceInv, JoinsOnce, JoinsDiffer, n
  <2> QED
    BY <2>1
<1>7. LeavesKnown'
  BY <1>1, <1>2 DEF PresenceInv, LeavesKnown, n
<1>8. ASSUME NEW c \in DOMAIN conns, Joining(hooks, 1, c), NEW j \in 1 .. n - 1, Joining(hooks', j, c) PROVE FALSE
  <2>1. Joining(hooks, j + 1, c) /\ j + 1 \in 1 .. n /\ 1 \in 1 .. n
    BY <1>1, <1>2, <1>3, <1>8
  <2>2. 1 = j + 1
    BY <1>8, <2>1 DEF PresenceInv, JoinsOnce, JoinsDiffer, n
  <2> QED
    BY <1>2, <2>2
<1>9. ASSUME NEW p \in Person, Exists
      PROVE  \E a \in Nat : /\ a + Delta(conns, hooks[1], p) \in Nat
                            /\ Leads(conns', hooks', p, a + Delta(conns, hooks[1], p), Present(p)')
                            /\ Cardinality(OpenRows(p)) <= a
                            /\ Cardinality(OpenRows(p)) = a \/ Wiped(p)
  <2>1. PICK a \in Nat : /\ Leads(conns, hooks, p, a, Present(p))
                         /\ Cardinality(Settled(p)) <= a
                         /\ Cardinality(Settled(p)) = a \/ Wiped(p)
    BY <1>9 DEF PresenceInv, Balanced
  <2>2. a + Delta(conns, hooks[1], p) \in Nat /\ Leads(conns, hooks', p, a + Delta(conns, hooks[1], p), Present(p))
    BY <1>1, <2>1, LeadsTail DEF n
  <2>3. Present(p)' = Present(p)
    BY DEF Present
  <2>4. Settled(p) = OpenRows(p)
    BY DEF Settled, OpenRows, StaysOpen, Handling
  <2> QED
    BY <2>1, <2>2, <2>3, <2>4
<1> QED
  BY <1>1, <1>4, <1>5, <1>6, <1>7, <1>8, <1>9

LEMMA PostsOldest ==
  ASSUME InOrder, MeetingInv, NEW t \in Courier, NEW i \in DOMAIN hooks, NEW event, Post(t, i, event),
         UNCHANGED sheet, Exists' => Exists
  PROVE  i = 1 /\ Oldest(event)
BY PostsFirst DEF Oldest

\* A webhook of the room changes no row.
LEMMA RoomHooks ==
  ASSUME InOrder, MeetingInv, TypeInv', PresenceInv, NEW t \in Courier, NEW i \in DOMAIN hooks,
         RoomStarted(t, i) \/ RoomFinished(t, i)
  PROVE  PresenceInv'
<1>1. PICK event \in {"room_started", "room_finished"} : Post(t, i, event) /\ UNCHANGED <<sheet, task>>
  BY DEF RoomStarted, RoomFinished
<1>2. Exists' => Exists
  BY DEF RoomStarted, RoomFinished, Starts, Exists
<1>3. Oldest(event)
  BY <1>1, <1>2, PostsOldest
<1>4. OneEach' /\ JoinsNew' /\ JoinsDiffer' /\ LeavesKnown'
  BY <1>3, OldestTaken
<1>5. \A u \in Slot : task'[u].op \notin {"joined", "left"}
  BY <1>1, <1>3 DEF Oldest, Handling
<1>6. HandledOnce' /\ LeavingRows'
  BY <1>5 DEF HandledOnce, LeavingRows
<1>7. ASSUME NEW p \in Person, Exists' PROVE Balanced(p)'
  <2>1. PICK a \in Nat : /\ Leads(conns', hooks', p, a + Delta(conns, hooks[1], p), Present(p)')
                         /\ Cardinality(OpenRows(p)) <= a
                         /\ Cardinality(OpenRows(p)) = a \/ Wiped(p)
    BY <1>2, <1>3, <1>7, OldestTaken
  <2>2. Delta(conns, hooks[1], p) = 0
    BY <1>3 DEF Oldest, Delta
  <2>3. a + Delta(conns, hooks[1], p) = a
    BY <2>2
  <2>4. Settled(p)' = OpenRows(p)
    BY <1>3, <1>5 DEF Oldest, Settled, StaysOpen, OpenRows
  <2>5. Wiped(p)' = Wiped(p)
    BY <1>3 DEF Oldest, Wiped
  <2> QED
    BY <2>1, <2>3, <2>4, <2>5 DEF Balanced
<1> QED
  BY <1>4, <1>6, <1>7 DEF PresenceInv, JoinsOnce

\* recordJoin begins.
LEMMA JoinedHook ==
  ASSUME InOrder, MeetingInv, TypeInv', PresenceInv, NEW t \in Courier, NEW i \in DOMAIN hooks, ParticipantJoined(t, i)
  PROVE  PresenceInv'
<1> DEFINE x == [Idle EXCEPT !.op = "joined", !.at = "look", !.conn = hooks[i].conn]
<1>1. Post(t, i, "participant_joined") /\ UNCHANGED sheet /\ Go(t, x)
  BY DEF ParticipantJoined
<1>2. Exists' => Exists
  BY DEF ParticipantJoined, Starts, Exists
<1>3. i = 1 /\ Oldest("participant_joined")
  BY <1>1, <1>2, PostsOldest
<1> DEFINE c == hooks[1].conn
<1>4. x.op = "joined" /\ x.conn = c
  BY <1>3, IdleType DEF TaskState
<1> HIDE DEF x
<1>5. /\ task'[t].op = "joined" /\ task'[t].conn = c /\ t \in Slot
      /\ \A u \in Slot : u # t => task'[u].op \notin {"joined", "left"}
  <2>1. t \in Slot
    BY DEF Slot
  <2>2. task'[t] = x /\ \A u \in Slot \ {t} : task'[u] = task[u]
    BY <1>1, <2>1, GoSets DEF MeetingInv, TypeInv, TypeOK, TasksOK
  <2> QED
    BY <1>3, <1>4, <2>1, <2>2 DEF Oldest, Handling
<1>6. c \in DOMAIN conns /\ Joining(hooks, 1, c)
  BY <1>3 DEF Oldest, Joining, MeetingInv, KnownInv, JoinsKnown
<1> HIDE DEF c
<1>7. OneEach' /\ JoinsNew' /\ JoinsDiffer' /\ LeavesKnown'
  BY <1>3, OldestTaken
<1>8. ~Recorded(c)
  BY <1>3, <1>6 DEF Oldest, PresenceInv, JoinsOnce, JoinsNew
<1>9. HandledOnce'
  <2>1. \A j \in 1 .. Len(hooks') : ~Joining(hooks', j, c)
    BY <1>3, <1>6, OldestTaken
  <2>2. \A u \in Slot : task'[u].op = "joined" => task'[u].conn = c
    BY <1>5
  <2> QED
    BY <1>3, <1>8, <2>1, <2>2 DEF HandledOnce, Recorded, Oldest
<1>10. LeavingRows'
  BY <1>5 DEF LeavingRows
<1>11. ASSUME NEW p \in Person, Exists' PROVE Balanced(p)'
  <2> DEFINE d == Delta(conns, hooks[1], p)
  <2>1. PICK a \in Nat : /\ a + d \in Nat
                         /\ Leads(conns', hooks', p, a + d, Present(p)')
                         /\ Cardinality(OpenRows(p)) <= a
                         /\ Cardinality(OpenRows(p)) = a \/ Wiped(p)
    BY <1>2, <1>3, <1>11, OldestTaken
  <2>2. d = IF conns[c].who = p THEN 1 ELSE 0
    BY <1>3 DEF Oldest, Delta, c
  <2>3. \A e \in DOMAIN conns : StaysOpen(e)' <=> sheet[e].row = "open" \/ e = c
    BY <1>3, <1>5 DEF StaysOpen, Oldest
  <2>4. Settled(p)' = IF conns[c].who = p THEN OpenRows(p) \cup {c} ELSE OpenRows(p)
    BY <1>3, <1>6, <2>3 DEF Settled, OpenRows, Oldest
  <2>5. c \notin OpenRows(p)
    BY <1>8 DEF OpenRows, Recorded
  <2>6. IsFiniteSet(OpenRows(p)) /\ Cardinality(OpenRows(p)) \in Nat
    <3>1. Settled(p) = OpenRows(p)
      BY <1>3 DEF Settled, OpenRows, StaysOpen, Handling, Oldest
    <3> QED
      BY <3>1, SettledFinite DEF MeetingInv
  <2>7. Cardinality(Settled(p)') = Cardinality(OpenRows(p)) + d
    <3>1. CASE conns[c].who = p
      <4>1. Cardinality(OpenRows(p) \cup {c}) = Cardinality(OpenRows(p)) + 1
        BY <2>5, <2>6, FS_AddElement
      <4> QED
        BY <2>2, <2>4, <3>1, <4>1
    <3>2. CASE conns[c].who # p
      BY <2>2, <2>4, <2>6, <3>2
    <3> QED
      BY <3>1, <3>2
  <2>8. Wiped(p)' = Wiped(p)
    BY <1>3 DEF Oldest, Wiped
  <2>9. d \in {0, 1}
    BY <2>2
  <2> HIDE DEF d
  <2>10. Cardinality(Settled(p)') <= a + d /\ (Cardinality(Settled(p)') = a + d \/ Wiped(p)')
    BY <2>1, <2>6, <2>7, <2>8, <2>9
  <2> QED
    BY <2>1, <2>10 DEF Balanced
<1> QED
  BY <1>7, <1>9, <1>10, <1>11 DEF PresenceInv, JoinsOnce

\* recordLeave begins: it will close the most recent open row of the person.
LEMMA LeftHook ==
  ASSUME InOrder, MeetingInv, TypeInv', PresenceInv, NEW t \in Courier, NEW i \in DOMAIN hooks, ParticipantLeft(t, i)
  PROVE  PresenceInv'
<1> DEFINE o == hooks[1].conn
           q == conns[o].who
           leave(c) == [Idle EXCEPT !.op = "left", !.at = "leave", !.conn = c]
<1>1. Post(t, i, "participant_left") /\ UNCHANGED dbVars
  BY DEF ParticipantLeft
<1>2. Exists' <=> Exists
  BY <1>1 DEF dbVars, Exists
<1>3. i = 1 /\ Oldest("participant_left")
  BY <1>1, <1>2, PostsOldest DEF dbVars
<1>4. \/ OpenRows(q) = {} /\ UNCHANGED task
      \/ \E c \in OpenRows(q) : Go(t, leave(c))
  BY <1>3 DEF ParticipantLeft
<1>5. \A c \in DOMAIN conns : leave(c).op = "left" /\ leave(c).conn = c
  <2>1. DOMAIN conns \subseteq 0 .. MaxConn
    BY LenProperties DEF MeetingInv, TypeInv, TypeOK
  <2> QED
    BY <2>1, IdleType DEF TaskState
<1> HIDE DEF leave, o, q
<1>6. OneEach' /\ JoinsNew' /\ JoinsDiffer' /\ LeavesKnown'
  BY <1>3, OldestTaken
<1>7. ASSUME NEW p \in Person
      PROVE  /\ Delta(conns, hooks[1], p) = IF q = p THEN -1 ELSE 0
             /\ Wiped(p)' = Wiped(p)
             /\ IsFiniteSet(OpenRows(p)) /\ Cardinality(OpenRows(p)) \in Nat
  <2>1. Delta(conns, hooks[1], p) = IF q = p THEN -1 ELSE 0
    BY <1>3 DEF Oldest, Delta, q, o
  <2>2. Wiped(p)' = Wiped(p)
    BY <1>3 DEF Oldest, Wiped
  <2>3. Settled(p) = OpenRows(p)
    BY <1>3 DEF Settled, OpenRows, StaysOpen, Handling, Oldest
  <2> QED
    BY <2>1, <2>2, <2>3, SettledFinite DEF MeetingInv
<1>8. CASE OpenRows(q) = {} /\ UNCHANGED task
  <2>1. \A u \in Slot : task'[u].op \notin {"joined", "left"}
    BY <1>3, <1>8 DEF Oldest, Handling
  <2>2. HandledOnce' /\ LeavingRows'
    BY <2>1 DEF HandledOnce, LeavingRows
  <2>3. ASSUME NEW p \in Person, Exists' PROVE Balanced(p)'
    <3>1. PICK a \in Nat : /\ a + Delta(conns, hooks[1], p) \in Nat
                           /\ Leads(conns', hooks', p, a + Delta(conns, hooks[1], p), Present(p)')
                           /\ Cardinality(OpenRows(p)) <= a
                           /\ Cardinality(OpenRows(p)) = a \/ Wiped(p)
      BY <1>2, <1>3, <2>3, OldestTaken
    <3>2. Settled(p)' = OpenRows(p)
      BY <1>3, <2>1 DEF Oldest, Settled, StaysOpen, OpenRows
    <3>3. CASE q # p
      <4>1. a + Delta(conns, hooks[1], p) = a
        BY <1>7, <3>3
      <4> QED
        BY <1>7, <3>1, <3>2, <4>1 DEF Balanced
    <3>4. CASE q = p
      <4>1. Cardinality(OpenRows(p)) = 0
        BY <1>8, <3>4, FS_EmptySet
      <4>2. a + (-1) \in Nat
        BY <1>7, <3>1, <3>4
      <4>3. a # 0
        BY <4>2
      <4>4. Wiped(p)'
        BY <1>7, <3>1, <4>1, <4>3
      <4> QED
        BY <3>1, <3>2, <4>1, <4>4 DEF Balanced
    <3> QED
      BY <3>3, <3>4
  <2> QED
    BY <1>6, <2>2, <2>3 DEF PresenceInv, JoinsOnce
<1>9. ASSUME NEW c \in OpenRows(q), Go(t, leave(c)) PROVE PresenceInv'
  <2>1. c \in DOMAIN conns /\ conns[c].who = q /\ sheet[c].row = "open"
    BY DEF OpenRows
  <2>2. /\ task'[t].op = "left" /\ task'[t].conn = c /\ t \in Slot
        /\ \A u \in Slot : u # t => task'[u].op \notin {"joined", "left"}
    <3>1. t \in Slot
      BY DEF Slot
    <3>2. task'[t] = leave(c) /\ \A u \in Slot \ {t} : task'[u] = task[u]
      BY <1>9, <3>1, GoSets DEF MeetingInv, TypeInv, TypeOK, TasksOK
    <3> QED
      BY <1>3, <1>5, <2>1, <3>1, <3>2 DEF Oldest, Handling
  <2>3. HandledOnce'
    BY <2>2 DEF HandledOnce
  <2>4. LeavingRows'
    <3>1. \A u \in Slot : task'[u].op = "left" => task'[u].conn = c
      BY <2>2
    <3> QED
      BY <1>3, <2>1, <3>1 DEF LeavingRows, Oldest
  <2>5. ASSUME NEW p \in Person, Exists' PROVE Balanced(p)'
    <3> DEFINE d == Delta(conns, hooks[1], p)
    <3>1. PICK a \in Nat : /\ a + d \in Nat
                           /\ Leads(conns', hooks', p, a + d, Present(p)')
                           /\ Cardinality(OpenRows(p)) <= a
                           /\ Cardinality(OpenRows(p)) = a \/ Wiped(p)
      BY <1>2, <1>3, <2>5, OldestTaken
    <3>2. \A e \in DOMAIN conns : StaysOpen(e)' <=> sheet[e].row = "open" /\ e # c
      BY <1>3, <2>2 DEF StaysOpen, Oldest
    <3>3. Settled(p)' = IF q = p THEN OpenRows(p) \ {c} ELSE OpenRows(p)
      BY <1>3, <2>1, <3>2 DEF Settled, OpenRows, Oldest
    <3>4. q = p => c \in OpenRows(p)
      OBVIOUS
    <3>5. d = IF q = p THEN -1 ELSE 0
      BY <1>7
    <3>6. Cardinality(Settled(p)') = Cardinality(OpenRows(p)) + d
      <4>1. CASE q = p
        <5>1. Cardinality(OpenRows(p) \ {c}) = Cardinality(OpenRows(p)) - 1
          BY <1>7, <3>4, <4>1, FS_RemoveElement
        <5> QED
          BY <1>7, <3>3, <3>5, <4>1, <5>1
      <4>2. CASE q # p
        BY <1>7, <3>3, <3>5, <4>2
      <4> QED
        BY <4>1, <4>2
    <3> HIDE DEF d
    <3>7. Cardinality(Settled(p)') <= a + d /\ (Cardinality(Settled(p)') = a + d \/ Wiped(p)')
      BY <1>7, <3>1, <3>5, <3>6
    <3> QED
      BY <3>1, <3>7 DEF Balanced
  <2> QED
    BY <1>6, <2>3, <2>4, <2>5 DEF PresenceInv, JoinsOnce
<1> QED
  BY <1>4, <1>8, <1>9

\* recordJoin ends: the row that was to be is there.
LEMMA RecordJoinKeeps ==
  ASSUME MeetingInv, TypeInv', PresenceInv, NEW t \in Slot, RecordJoin(t)
  PROVE  PresenceInv'
<1> DEFINE c == task[t].conn
<1>1. At(t, "joined", "record") /\ Done(t) /\ UNCHANGED <<status, lkVars>>
  BY DEF RecordJoin
<1>2. task[t].op = "joined" /\ Handling(t) /\ c \in DOMAIN conns
  BY <1>1 DEF At, Handling, MeetingInv, KnownInv, HandledKnown
<1>3. \A u \in Slot : ~Handling(u)' /\ task'[u].op \notin {"joined", "left"}
  <2>1. ~Handling(t)' /\ \A u \in Slot : Handling(u)' => Handling(u) /\ u # t
    BY <1>1, OneIsDone
  <2>2. \A u \in Slot : Handling(u) => u = t
    BY <1>2 DEF MeetingInv, Handlers
  <2> QED
    BY <2>1, <2>2 DEF Handling
<1>4. UNCHANGED <<hooks, conns, inside>> /\ (Exists' <=> Exists)
  BY <1>1 DEF lkVars, Exists
<1>5. CASE ~Exists
  <2>1. sheet' = sheet
    BY <1>5 DEF RecordJoin
  <2> QED
    BY <1>3, <1>4, <1>5, <2>1, GoneKeeps DEF Recorded
<1>6. CASE Exists
  <2>1. DOMAIN conns \subseteq Conn /\ sheet \in [Conn -> [row : RowState, stamp : Int]]
    BY SheetTypes DEF MeetingInv
  <2>2. sheet'[c].row = "open" /\ \A d \in Conn \ {c} : sheet'[d] = sheet[d]
    BY <1>2, <1>6, <2>1 DEF RecordJoin
  <2>3. ~Recorded(c) /\ \A j \in 1 .. Len(hooks) : ~Joining(hooks, j, c)
    BY <1>2 DEF PresenceInv, JoinsOnce, HandledOnce
  <2>4. \A u \in Slot : task[u].op \in {"joined", "left"} => u = t
    BY <1>2 DEF MeetingInv, Handlers, Handling
  <2> HIDE DEF c
  <2>5. \A d \in DOMAIN conns : StaysOpen(d)' <=> StaysOpen(d)
    <3> SUFFICES ASSUME NEW d \in DOMAIN conns PROVE StaysOpen(d)' <=> StaysOpen(d)
      OBVIOUS
    <3>1. StaysOpen(d)' <=> sheet'[d].row = "open"
      BY <1>3 DEF StaysOpen
    <3>2. StaysOpen(d) <=> sheet[d].row = "open" \/ d = c
      BY <1>2, <2>4 DEF StaysOpen, c
    <3> QED
      BY <2>1, <2>2, <3>1, <3>2
  <2>6. \A d \in DOMAIN conns : sheet[d].row = "deleted" => sheet'[d].row = "deleted"
    BY <2>1, <2>2, <2>3 DEF Recorded
  <2>7. \A p \in Person : Balanced(p)'
    BY <1>4, <1>6, <2>5, <2>6, BalancedKept DEF PresenceInv, MeetingInv
  <2>8. OneEach' /\ LeavesKnown' /\ JoinsDiffer'
    BY <1>4 DEF PresenceInv, OneEach, LeavesKnown, JoinsOnce, JoinsDiffer
  <2>9. JoinsNew'
    <3> SUFFICES ASSUME NEW j \in 1 .. Len(hooks), NEW d \in DOMAIN conns, Joining(hooks, j, d) PROVE ~Recorded(d)'
      BY <1>4 DEF JoinsNew
    <3>1. d # c /\ ~Recorded(d)
      BY <2>3 DEF PresenceInv, JoinsOnce, JoinsNew
    <3> QED
      BY <2>1, <2>2, <3>1 DEF Recorded
  <2>10. HandledOnce' /\ LeavingRows'
    BY <1>3 DEF HandledOnce, LeavingRows
  <2> QED
    BY <2>7, <2>8, <2>9, <2>10 DEF PresenceInv, JoinsOnce
<1> QED
  BY <1>5, <1>6

\* recordLeave ends: the row is closed, or was deleted.
LEMMA RecordLeaveKeeps ==
  ASSUME MeetingInv, TypeInv', PresenceInv, NEW t \in Slot, RecordLeave(t)
  PROVE  PresenceInv'
<1> DEFINE c == task[t].conn
<1>1. At(t, "left", "leave") /\ Done(t) /\ UNCHANGED <<status, lkVars>>
  BY DEF RecordLeave
<1>2. task[t].op = "left" /\ Handling(t) /\ c \in DOMAIN conns
  BY <1>1 DEF At, Handling, MeetingInv, KnownInv, HandledKnown
<1>3. \A u \in Slot : task'[u].op \notin {"joined", "left"}
  <2>1. ~Handling(t)' /\ \A u \in Slot : Handling(u)' => Handling(u) /\ u # t
    BY <1>1, OneIsDone
  <2>2. \A u \in Slot : Handling(u) => u = t
    BY <1>2 DEF MeetingInv, Handlers
  <2> QED
    BY <2>1, <2>2 DEF Handling
<1>4. UNCHANGED <<hooks, conns, inside>> /\ (Exists' <=> Exists)
  BY <1>1 DEF lkVars, Exists
<1>5. DOMAIN conns \subseteq Conn /\ sheet \in [Conn -> [row : RowState, stamp : Int]]
  BY SheetTypes DEF MeetingInv
<1>6. /\ sheet'[c].row = IF sheet[c].row \in {"open", "left"} THEN "left" ELSE sheet[c].row
      /\ \A d \in Conn \ {c} : sheet'[d] = sheet[d]
  <2>1. c \in Conn /\ sheet[c] \in [row : RowState, stamp : Int]
    BY <1>2, <1>5
  <2> QED
    BY <1>5, <2>1 DEF RecordLeave
<1>7. \A d \in Conn : Recorded(d)' <=> Recorded(d)
  BY <1>6 DEF Recorded
<1>8. CASE ~Exists
  BY <1>3, <1>4, <1>5, <1>7, <1>8, GoneKeeps
<1>9. CASE Exists
  <2>1. sheet[c].row \in {"open", "deleted"}
    BY <1>2, <1>9 DEF PresenceInv, LeavingRows
  <2>2. \A u \in Slot : task[u].op \in {"joined", "left"} => u = t
    BY <1>2 DEF MeetingInv, Handlers, Handling
  <2> HIDE DEF c
  <2>3. \A d \in DOMAIN conns : StaysOpen(d)' <=> StaysOpen(d)
    <3> SUFFICES ASSUME NEW d \in DOMAIN conns PROVE StaysOpen(d)' <=> StaysOpen(d)
      OBVIOUS
    <3>1. StaysOpen(d)' <=> sheet'[d].row = "open"
      BY <1>3 DEF StaysOpen
    <3>2. StaysOpen(d) <=> sheet[d].row = "open" /\ d # c
      BY <1>2, <2>2 DEF StaysOpen, c
    <3> QED
      BY <1>5, <1>6, <2>1, <3>1, <3>2
  <2>4. \A d \in DOMAIN conns : sheet[d].row = "deleted" => sheet'[d].row = "deleted"
    BY <1>5, <1>6
  <2>5. \A p \in Person : Balanced(p)'
    BY <1>4, <1>9, <2>3, <2>4, BalancedKept DEF PresenceInv, MeetingInv
  <2>6. OneEach' /\ LeavesKnown' /\ JoinsDiffer'
    BY <1>4 DEF PresenceInv, OneEach, LeavesKnown, JoinsOnce, JoinsDiffer
  <2>7. JoinsNew'
    BY <1>4, <1>5, <1>7 DEF PresenceInv, JoinsOnce, JoinsNew
  <2>8. HandledOnce' /\ LeavingRows'
    BY <1>3 DEF HandledOnce, LeavingRows
  <2> QED
    BY <2>5, <2>6, <2>7, <2>8 DEF PresenceInv, JoinsOnce
<1> QED
  BY <1>8, <1>9

\* A manager deletes the rows of a meeting.
LEMMA DeleteSessionKeeps ==
  ASSUME MeetingInv, TypeInv', PresenceInv, DeleteSession
  PROVE  PresenceInv'
<1>1. PICK stamp : sheet' = [c \in Conn |->
                     IF sheet[c].row \in {"open", "left"} /\ sheet[c].stamp = stamp
                     THEN [sheet[c] EXCEPT !.row = "deleted"] ELSE sheet[c]]
  BY DEF DeleteSession
<1>2. UNCHANGED <<status, hooks, conns, inside, task>>
  BY DEF DeleteSession, lkVars
<1>3. DOMAIN conns \subseteq Conn /\ sheet \in [Conn -> [row : RowState, stamp : Int]]
  BY SheetTypes DEF MeetingInv
<1>4. \A c \in Conn : sheet'[c].row = sheet[c].row \/ (sheet[c].row \in {"open", "left"} /\ sheet'[c].row = "deleted")
  BY <1>1, <1>3
<1>5. \A c \in Conn : Recorded(c)' <=> Recorded(c)
  BY <1>4 DEF Recorded
<1>6. \A c \in DOMAIN conns : /\ StaysOpen(c)' => StaysOpen(c)
                              /\ StaysOpen(c) => StaysOpen(c)' \/ sheet'[c].row = "deleted"
                              /\ sheet[c].row = "deleted" => sheet'[c].row = "deleted"
  BY <1>2, <1>3, <1>4 DEF StaysOpen
<1>7. Exists' => \A p \in Person : Balanced(p)'
  BY <1>2, <1>6, BalancedKept DEF PresenceInv, MeetingInv, Exists
<1>8. OneEach' /\ LeavesKnown' /\ JoinsDiffer'
  BY <1>2 DEF PresenceInv, OneEach, LeavesKnown, JoinsOnce, JoinsDiffer
<1>9. JoinsNew'
  BY <1>2, <1>3, <1>5 DEF PresenceInv, JoinsOnce, JoinsNew
<1>10. \A t \in Slot : task[t].op \in {"joined", "left"} => task[t].conn \in Conn
  BY <1>3 DEF MeetingInv, KnownInv, HandledKnown, Handling
<1>11. HandledOnce'
  BY <1>2, <1>5, <1>10 DEF PresenceInv, JoinsOnce, HandledOnce
<1>12. LeavingRows'
  BY <1>2, <1>4, <1>10 DEF PresenceInv, LeavingRows, Exists
<1> QED
  BY <1>7, <1>8, <1>9, <1>11, <1>12 DEF PresenceInv, JoinsOnce

\* The process restarts: LiveKit posts again the webhook that was not answered.
LEMMA RestartKeeps ==
  ASSUME MeetingInv, TypeInv', PresenceInv, Restart
  PROVE  PresenceInv'
<1> DEFINE again == {t \in Courier : ~Free(t)}
           event(t) == IF task[t].op = "joined" THEN "participant_joined" ELSE "participant_left"
           e(t) == About(event(t), task[t].conn)
<1>1. PICK s \in [1 .. Cardinality(again) -> again] : hooks' = [i \in DOMAIN s |-> e(s[i])] \o hooks
  BY DEF Restart
<1>2. task' = [t \in Slot |-> Idle] /\ UNCHANGED <<status, sheet, conns, inside>>
  BY DEF Restart, dbVars
<1>3. \A t \in Slot : ~Handling(t)' /\ task'[t].op \notin {"joined", "left"}
  BY <1>2, IdleType DEF Handling
<1>4. \A t \in Slot : Handling(t) <=> t \in again
  <2>1. \A t \in Slot : Handling(t) => t \in Courier /\ task[t] # Idle
    BY IdleType DEF MeetingInv, Handlers, Handling
  <2>2. \A t \in Courier : task[t] = Idle <=> Free(t)
    BY DEF MeetingInv, Handlers, Free, Idle
  <2>3. \A t \in Courier : task[t] = Idle \/ Handling(t)
    BY DEF MeetingInv, Handlers
  <2> QED
    BY <2>1, <2>2, <2>3
<1>5. again = {} \/ \E u \in Courier : again = {u}
  BY <1>4 DEF MeetingInv, Handlers, Slot
<1>6. hooks \in Seq(Hook) /\ task \in [Slot -> TaskState] /\ TypeInv
  BY DEF MeetingInv, TypeInv, TypeOK
<1>7. CASE again = {}
  <2>1. Cardinality(again) = 0
    BY <1>7, FS_EmptySet
  <2>2. DOMAIN s = {}
    BY <2>1
  <2>3. [i \in DOMAIN s |-> e(s[i])] = <<>>
    BY <2>2
  <2>4. hooks' = hooks
    BY <1>1, <1>6, <2>3, ConcatEmptySeq
  <2>5. Still
    BY <1>2, <1>3, <1>4, <1>7, <2>4 DEF Still, Exists
  <2> QED
    BY <1>6, <2>5, StillKeeps
<1>8. ASSUME NEW u \in Courier, again = {u} PROVE PresenceInv'
  <2> DEFINE c == task[u].conn
             n == Len(hooks)
  <2>1. Cardinality(again) = 1
    BY <1>8, FS_Singleton
  <2>2. DOMAIN s = 1 .. 1 /\ s[1] = u
    BY <1>8, <2>1
  <2>3. /\ u \in Slot /\ c \in DOMAIN conns /\ task[u].op \in {"joined", "left"} /\ c \in 0 .. MaxConn
        /\ \A t \in Slot : task[t].op \in {"joined", "left"} => t = u
    BY <1>4, <1>6, <1>8 DEF MeetingInv, KnownInv, HandledKnown, Handling, Slot, TaskState
  <2>4. e(u) \in Hook /\ e(u).conn = c /\ e(u).event = event(u)
    BY <2>3 DEF About, Hook
  <2>5. [i \in DOMAIN s |-> e(s[i])] = <<e(u)>>
    BY <2>2
  <2>6. hooks' = <<e(u)>> \o hooks
    BY <1>1, <2>5
  <2>7. event(u) = IF task[u].op = "joined" THEN "participant_joined" ELSE "participant_left"
    OBVIOUS
  <2> HIDE DEF e, event, again, c
  <2>8. n \in Nat /\ Len(hooks') = n + 1 /\ hooks'[1] = e(u)
        /\ \A j \in 2 .. n + 1 : j - 1 \in 1 .. n /\ hooks'[j] = hooks[j - 1]
    <3>1. <<e(u)>> \in Seq(Hook) /\ Len(<<e(u)>>) = 1 /\ <<e(u)>>[1] = e(u) /\ n \in Nat
      BY <1>6, <2>4, LenProperties
    <3> DEFINE q == <<e(u)>>
    <3> HIDE DEF q
    <3>2. /\ Len(q \o hooks) = Len(q) + Len(hooks)
          /\ \A i \in 1 .. Len(q) + Len(hooks) : (q \o hooks)[i] = IF i <= Len(q) THEN q[i] ELSE hooks[i - Len(q)]
      BY <1>6, <3>1, ConcatProperties DEF q
    <3>3. Len(q) = 1 /\ q[1] = e(u) /\ hooks' = q \o hooks
      BY <2>6, <3>1 DEF q
    <3>4. Len(hooks') = n + 1 /\ hooks'[1] = e(u)
      BY <3>1, <3>2, <3>3
    <3>5. \A j \in 2 .. n + 1 : j - 1 \in 1 .. n /\ j \in 1 .. Len(q) + Len(hooks) /\ ~(j <= Len(q))
      BY <3>1, <3>3
    <3>6. \A j \in 2 .. n + 1 : hooks'[j] = hooks[j - 1]
      BY <3>2, <3>3, <3>5
    <3> QED
      BY <3>1, <3>4, <3>5, <3>6
  <2> HIDE DEF n
  <2>9. OneEach' /\ HandledOnce' /\ LeavingRows'
    BY <1>2, <1>3 DEF PresenceInv, OneEach, HandledOnce, LeavingRows
  <2>10. \A j \in 1 .. n + 1 : j = 1 \/ j \in 2 .. n + 1
    BY <2>8
  <2>11. LeavesKnown'
    <3> SUFFICES ASSUME NEW j \in 1 .. n + 1, hooks'[j].event = "participant_left" PROVE hooks'[j].conn \in DOMAIN conns
      BY <1>2, <2>8 DEF LeavesKnown
    <3>1. CASE j = 1
      BY <2>3, <2>4, <2>8, <3>1
    <3>2. CASE j \in 2 .. n + 1
      BY <2>8, <3>2 DEF PresenceInv, LeavesKnown, n
    <3> QED
      BY <2>10, <3>1, <3>2
  <2>12. \A j \in 1 .. n + 1 : \A d : Joining(hooks', j, d) =>
           \/ j = 1 /\ d = c /\ task[u].op = "joined"
           \/ j \in 2 .. n + 1 /\ Joining(hooks, j - 1, d)
    BY <2>4, <2>7, <2>8, <2>10 DEF Joining
  <2>13. task[u].op = "joined" => ~Recorded(c) /\ \A j \in 1 .. n : ~Joining(hooks, j, c)
    BY <2>3 DEF PresenceInv, JoinsOnce, HandledOnce, n, c
  <2>14. JoinsNew'
    <3> SUFFICES ASSUME NEW j \in 1 .. n + 1, NEW d \in DOMAIN conns, Joining(hooks', j, d) PROVE ~Recorded(d)
      BY <1>2, <2>8 DEF JoinsNew, Recorded
    <3>1. CASE j = 1 /\ d = c /\ task[u].op = "joined"
      BY <2>13, <3>1
    <3>2. CASE j \in 2 .. n + 1 /\ Joining(hooks, j - 1, d)
      BY <2>8, <3>2 DEF PresenceInv, JoinsOnce, JoinsNew, n
    <3> QED
      BY <2>12, <3>1, <3>2
  <2>15. JoinsDiffer'
    <3> SUFFICES ASSUME NEW i \in 1 .. n + 1, NEW j \in 1 .. n + 1, NEW d \in DOMAIN conns,
                        Joining(hooks', i, d), Joining(hooks', j, d)
                 PROVE  i = j
      BY <1>2, <2>8 DEF JoinsDiffer
    <3>1. CASE i = 1 /\ d = c /\ task[u].op = "joined"
      <4>1. ~(j \in 2 .. n + 1 /\ Joining(hooks, j - 1, d))
        BY <2>8, <2>13, <3>1
      <4> QED
        BY <2>12, <3>1, <4>1
    <3>2. CASE j = 1 /\ d = c /\ task[u].op = "joined"
      <4>1. ~(i \in 2 .. n + 1 /\ Joining(hooks, i - 1, d))
        BY <2>8, <2>13, <3>2
      <4> QED
        BY <2>12, <3>2, <4>1
    <3>3. CASE /\ i \in 2 .. n + 1 /\ Joining(hooks, i - 1, d)
               /\ j \in 2 .. n + 1 /\ Joining(hooks, j - 1, d)
      <4>1. i - 1 = j - 1
        BY <2>8, <3>3 DEF PresenceInv, JoinsOnce, JoinsDiffer, n
      <4> QED
        BY <2>8, <4>1
    <3> QED
      BY <2>12, <3>1, <3>2, <3>3
  <2>16. ASSUME NEW p \in Person, Exists' PROVE Balanced(p)'
    <3> DEFINE d == Delta(conns, e(u), p)
               k == Cardinality(Settled(p))
    <3>1. PICK a \in Nat : Leads(conns, hooks, p, a, Present(p)) /\ k <= a /\ (k = a \/ Wiped(p))
      BY <1>2, <2>16 DEF PresenceInv, Balanced, Exists
    <3>2. d = IF conns[c].who # p THEN 0 ELSE IF task[u].op = "joined" THEN 1 ELSE -1
      BY <2>3, <2>4, <2>7 DEF Delta
    <3>3. Present(p)' = Present(p) /\ Wiped(p)' = Wiped(p)
      BY <1>2 DEF Present, Wiped
    <3>4. Settled(p)' = OpenRows(p)
      BY <1>2, <1>3 DEF Settled, StaysOpen, OpenRows
    <3>5. \A f \in DOMAIN conns :
            StaysOpen(f) <=> \/ sheet[f].row = "open" /\ ~(task[u].op = "left" /\ f = c)
                             \/ task[u].op = "joined" /\ f = c
      <4>1. \A f : (\E t \in Slot : task[t].op = "left" /\ task[t].conn = f) <=> task[u].op = "left" /\ f = c
        BY <2>3 DEF c
      <4>2. \A f : (\E t \in Slot : task[t].op = "joined" /\ task[t].conn = f) <=> task[u].op = "joined" /\ f = c
        BY <2>3 DEF c
      <4> QED
        BY <4>1, <4>2 DEF StaysOpen
    <3>6. IsFiniteSet(Settled(p)) /\ k \in Nat
      BY <1>6, SettledFinite
\* The number of open rows, and the number the webhooks lead from, step back alike.
    <3>7. \E b \in Nat : /\ b + d = a
                         /\ Cardinality(OpenRows(p)) <= b
                         /\ Cardinality(OpenRows(p)) = b \/ Wiped(p)
      <4>1. CASE conns[c].who # p
        <5>1. OpenRows(p) = Settled(p)
          BY <3>5, <4>1 DEF Settled, OpenRows
        <5> QED
          BY <3>1, <3>2, <4>1, <5>1
      <4>2. CASE conns[c].who = p /\ task[u].op = "joined"
        <5>1. sheet[c].row = "none"
          BY <2>13, <4>2 DEF Recorded
        <5>2. c \in Settled(p)
          BY <2>3, <3>5, <4>2 DEF Settled
        <5>3. OpenRows(p) = Settled(p) \ {c}
          BY <3>5, <4>2, <5>1 DEF Settled, OpenRows
        <5>4. Cardinality(OpenRows(p)) = k - 1
          BY <3>6, <5>2, <5>3, FS_RemoveElement
        <5>5. Cardinality(OpenRows(p)) \in Nat
          <6>1. IsFiniteSet(OpenRows(p))
            BY <3>6, <5>3, FS_RemoveElement
          <6> QED
            BY <6>1, FS_CardinalityType
        <5>6. a - 1 \in Nat /\ (a - 1) + d = a
          BY <3>1, <3>2, <3>6, <4>2, <5>4, <5>5
        <5> HIDE DEF k, d
        <5> QED
          BY <3>1, <3>6, <5>4, <5>6
      <4>3. CASE conns[c].who = p /\ task[u].op = "left"
        <5>1. sheet[c].row \in {"open", "deleted"}
          BY <1>2, <2>3, <2>16, <4>3 DEF PresenceInv, LeavingRows, Exists, c
        <5>2. c \notin Settled(p)
          BY <2>3, <3>5, <4>3 DEF Settled
        <5>3. (a + 1) + d = a /\ a + 1 \in Nat
          BY <3>2, <4>3
        <5>4. CASE sheet[c].row = "open"
          <6>1. OpenRows(p) = Settled(p) \cup {c}
            BY <2>3, <3>5, <4>3, <5>4 DEF Settled, OpenRows
          <6>2. Cardinality(OpenRows(p)) = k + 1
            BY <3>6, <5>2, <6>1, FS_AddElement
          <6> HIDE DEF k, d
          <6> QED
            BY <3>1, <3>6, <5>3, <6>2
        <5>5. CASE sheet[c].row = "deleted"
          <6>1. OpenRows(p) = Settled(p)
            BY <2>3, <3>5, <4>3, <5>5 DEF Settled, OpenRows
          <6>2. Wiped(p)
            BY <2>3, <4>3, <5>5 DEF Wiped
          <6>3. Cardinality(OpenRows(p)) = k
            BY <6>1
          <6> HIDE DEF k, d
          <6> QED
            BY <3>1, <3>6, <5>3, <6>2, <6>3
        <5> QED
          BY <5>1, <5>4, <5>5
      <4> QED
        BY <2>3, <4>1, <4>2, <4>3
    <3>8. PICK b \in Nat : /\ b + d = a
                           /\ Cardinality(OpenRows(p)) <= b
                           /\ Cardinality(OpenRows(p)) = b \/ Wiped(p)
      BY <3>7
    <3>9. Leads(conns, <<e(u)>>, p, b, a)
      BY <2>4, <3>8, LeadsOne
    <3>10. Leads(conns, <<e(u)>> \o hooks, p, b, Present(p))
      <4>1. <<e(u)>> \in Seq(Hook)
        BY <2>4
      <4> QED
        BY <1>6, <3>1, <3>9, <4>1, LeadsConcat
    <3>11. Leads(conns', hooks', p, b, Present(p)')
      BY <1>2, <2>6, <3>3, <3>10
    <3> QED
      BY <3>3, <3>4, <3>8, <3>11 DEF Balanced
  <2> QED
    BY <2>9, <2>11, <2>14, <2>15, <2>16 DEF PresenceInv, JoinsOnce
<1> QED
  BY <1>5, <1>7, <1>8

-----------------------------------------------------------------------------
(* Every step                                                               *)

\* A handler of something else than a webhook goes on, or begins.
LEMMA OtherKeeps ==
  ASSUME MeetingInv, TypeInv', PresenceInv, NEW t \in Slot, NEW x, Go(t, x), t \notin Courier,
         x.op \notin {"joined", "left"}, UNCHANGED sheet, Exists' => Exists
  PROVE  SameWebhook /\ (UNCHANGED <<hooks, conns, inside>> => PresenceInv')
<1>1. task'[t] = x /\ \A u \in Slot \ {t} : task'[u] = task[u]
  BY GoSets DEF MeetingInv, TypeInv, TypeOK, TasksOK
<1>2. ~Handling(t) /\ ~Handling(t)'
  BY <1>1 DEF MeetingInv, Handlers, Handling
<1>3. SameWebhook
  BY <1>1, <1>2 DEF SameWebhook, Handling
<1>4. ASSUME UNCHANGED <<hooks, conns, inside>> PROVE PresenceInv'
  <2>1. Still
    BY <1>3, <1>4 DEF Still, SameWebhook
  <2> QED
    BY <2>1, StillKeeps DEF MeetingInv
<1> QED
  BY <1>3, <1>4

\* Join, close, the cron and remove.
LEMMA OtherSteps ==
  ASSUME MeetingInv, TypeInv', PresenceInv, NEW t \in Slot
  PROVE  /\ t \in Request /\ Arrives(t) => PresenceInv'
         /\ JoinCreates(t) \/ JoinWipes(t) \/ JoinResets(t) \/ HasActiveModerator(t) => PresenceInv'
         /\ CloseKills(t) \/ CloseEnds(t) \/ RemoveDrops(t) => PresenceInv'
         /\ CronRead \/ CronLists \/ CronListFails => PresenceInv'
<1>r. (t \in Request => t \notin Courier) /\ Cron \notin Courier /\ Cron \in Slot
  BY DEF Slot
<1>i. Idle.op = "none" /\ \A u \in Slot : task[u] \in TaskState
  BY IdleType DEF MeetingInv, TypeInv, TypeOK
<1>1. ASSUME t \in Request, Arrives(t) PROVE PresenceInv'
  <2>1. UNCHANGED <<dbVars, lkVars>>
    BY <1>1 DEF Arrives, JoinAsManager, JoinAsViewer, CloseRequest, RemoveRequest
  <2>2. PICK x : Go(t, x) /\ x.op \in {"join", "enter", "close", "remove"}
    <3>1. ASSUME NEW p \in Person
          PROVE  /\ [Idle EXCEPT !.op = "join", !.at = "create", !.who = p, !.seen = status].op = "join"
                 /\ [Idle EXCEPT !.op = "enter", !.at = "presence", !.who = p].op = "enter"
      BY IdleType DEF TaskState
    <3>2. /\ [Idle EXCEPT !.op = "close", !.at = "kill"].op = "close"
          /\ [Idle EXCEPT !.op = "remove", !.at = "drop"].op = "remove"
      BY IdleType DEF TaskState
    <3>3. CASE \E p \in Manager : JoinAsManager(t, p)
      BY <3>1, <3>3 DEF JoinAsManager, Person
    <3>4. CASE \E p \in Viewer : JoinAsViewer(t, p)
      BY <3>1, <3>4 DEF JoinAsViewer, Person
    <3>5. CASE CloseRequest(t)
      BY <3>2, <3>5 DEF CloseRequest
    <3>6. CASE RemoveRequest(t)
      BY <3>2, <3>6 DEF RemoveRequest
    <3> QED
      BY <1>1, <3>3, <3>4, <3>5, <3>6 DEF Arrives
  <2> QED
    BY <1>1, <1>r, <2>1, <2>2, OtherKeeps DEF dbVars, lkVars, Exists
<1>2. ASSUME JoinCreates(t) PROVE PresenceInv'
  <2>1. Opens(<<>>) /\ UNCHANGED <<dbVars, conns, inside>> /\ task[t].op = "join"
    BY <1>2 DEF JoinCreates, At
  <2>2. PICK x : Go(t, x) /\ x.op \in {"join", "none"}
    <3>1. [task[t] EXCEPT !.at = "wipe"].op = "join"
      BY <1>i, <2>1 DEF TaskState
    <3> QED
      BY <1>2, <1>i, <3>1 DEF JoinCreates, Done
  <2>3. SameWebhook
    BY <2>1, <2>2, NotCourier, OtherKeeps DEF dbVars, Exists
  <2> QED
    BY <2>1, <2>3, JoinCreatesKeeps DEF dbVars, Exists
<1>3. ASSUME JoinWipes(t) \/ JoinResets(t) \/ HasActiveModerator(t) \/ CloseEnds(t) PROVE PresenceInv'
  <2>1. UNCHANGED <<sheet, lkVars>> /\ task[t].op \in {"join", "enter", "close"} /\ (Exists' => Exists)
    BY <1>3 DEF JoinWipes, JoinResets, HasActiveModerator, CloseEnds, At, dbVars, Exists
  <2>2. PICK x : Go(t, x) /\ x.op \in {"join", "none"}
    <3>1. JoinWipes(t) => [task[t] EXCEPT !.at = "reset"].op = "join"
      BY <1>i DEF TaskState, JoinWipes, At
    <3> QED
      BY <1>3, <1>i, <3>1 DEF JoinWipes, JoinResets, HasActiveModerator, CloseEnds, Done
  <2> QED
    BY <2>1, <2>2, NotCourier, OtherKeeps DEF lkVars
<1>4. ASSUME CloseKills(t) PROVE PresenceInv'
  <2>1. UNCHANGED dbVars /\ task[t].op = "close" /\ (Closes \/ UNCHANGED lkVars)
    BY <1>4 DEF CloseKills, At
  <2>2. PICK x : Go(t, x) /\ x.op = "close"
    <3>1. [task[t] EXCEPT !.at = "end"].op = "close"
      BY <1>i, <2>1 DEF TaskState
    <3> QED
      BY <1>4, <3>1 DEF CloseKills
  <2>3. SameWebhook /\ (UNCHANGED <<hooks, conns, inside>> => PresenceInv')
    BY <2>1, <2>2, NotCourier, OtherKeeps DEF dbVars, Exists
  <2> QED
    BY <2>1, <2>3, ClosesKeeps DEF dbVars, lkVars, Exists
<1>5. ASSUME RemoveDrops(t) PROVE PresenceInv'
  <2>1. Done(t) /\ UNCHANGED lkVars /\ ~Exists'
    BY <1>5 DEF RemoveDrops, Exists
  <2>2. \A c \in DOMAIN conns : ~Recorded(c)'
    <3>1. DOMAIN conns \subseteq Conn
      BY SheetTypes DEF MeetingInv
    <3> QED
      BY <1>5, <3>1 DEF RemoveDrops, Recorded
  <2>3. \A u \in Slot : task'[u].op = "joined" => task[u].op = "joined" /\ task'[u].conn = task[u].conn
    BY <2>1, OneIsDone DEF Handling
  <2>4. \A u \in Slot : task'[u].op = "joined" => task'[u].conn \in DOMAIN conns
    BY <2>3 DEF MeetingInv, KnownInv, HandledKnown, Handling
  <2> QED
    BY <2>1, <2>2, <2>3, <2>4, GoneKeeps DEF lkVars
<1>6. ASSUME CronRead \/ CronLists \/ CronListFails PROVE PresenceInv'
  <2>1. UNCHANGED <<dbVars, lkVars>>
    BY <1>6 DEF CronRead, CronLists, CronListFails
  <2>2. PICK x : Go(Cron, x) /\ x.op \in {"close", "none"}
    <3>1. [Idle EXCEPT !.op = "close", !.at = "list"].op = "close"
      BY IdleType DEF TaskState
    <3>2. CronLists => [task[Cron] EXCEPT !.at = "kill"].op = "close"
      BY <1>r, <1>i DEF TaskState, CronLists, At
    <3> QED
      BY <1>6, <1>i, <3>1, <3>2 DEF CronRead, CronLists, CronListFails, Done
  <2> QED
    BY <1>r, <2>1, <2>2, OtherKeeps DEF dbVars, lkVars, Exists
<1> QED
  BY <1>1, <1>2, <1>3, <1>4, <1>5, <1>6

\* The first half of recordJoin changes nothing, unless the room is gone.
LEMMA ReadsKeeps ==
  ASSUME MeetingInv, TypeInv', PresenceInv, NEW t \in Slot, RecordJoinReads(t)
  PROVE  PresenceInv'
<1> DEFINE stamp == IF startedAt = 0 THEN - task[t].conn ELSE startedAt
           x == [task[t] EXCEPT !.at = "record", !.stamp = stamp]
<1>1. At(t, "joined", "look") /\ UNCHANGED <<dbVars, lkVars>> /\ (IF Exists THEN Go(t, x) ELSE Done(t))
  BY DEF RecordJoinReads
<1>2. task[t].op = "joined" /\ task[t] \in TaskState
  BY <1>1 DEF At, MeetingInv, TypeInv, TypeOK
<1>3. x.op = "joined" /\ x.conn = task[t].conn
  BY <1>2 DEF TaskState
<1> HIDE DEF x
<1>4. CASE Exists
  <2>1. task'[t] = x /\ \A u \in Slot \ {t} : task'[u] = task[u]
    BY <1>1, <1>4, GoSets DEF MeetingInv, TypeInv, TypeOK, TasksOK
  <2>2. Still
    BY <1>1, <1>2, <1>3, <2>1 DEF Still, Handling, dbVars, lkVars, Exists
  <2> QED
    BY <2>2, StillKeeps DEF MeetingInv
<1>5. CASE ~Exists
  <2>1. \A u \in Slot : Handling(u)' => task'[u] = task[u] /\ Handling(u)
    BY <1>1, <1>5, OneIsDone
  <2>2. \A u \in Slot : task'[u].op = "joined" => task[u].op = "joined" /\ task'[u].conn = task[u].conn
    BY <2>1 DEF Handling
  <2>3. \A u \in Slot : task'[u].op = "joined" => task'[u].conn \in DOMAIN conns
    BY <2>2 DEF MeetingInv, KnownInv, HandledKnown, Handling
  <2>4. ~Exists' /\ UNCHANGED <<hooks, conns, inside, sheet>>
    BY <1>1, <1>5 DEF dbVars, lkVars, Exists
  <2> QED
    BY <2>2, <2>3, <2>4, GoneKeeps DEF Recorded
<1> QED
  BY <1>4, <1>5

LEMMA PresenceInvStep == InOrder /\ MeetingInv /\ MeetingInv' /\ PresenceInv /\ [Next]_vars => PresenceInv'
<1> SUFFICES ASSUME InOrder, MeetingInv, TypeInv', PresenceInv, [Next]_vars PROVE PresenceInv'
  BY DEF MeetingInv
<1>1. ASSUME LiveKitMoves PROVE PresenceInv'
  <2>1. ASSUME NEW p \in Person, Connect(p) PROVE PresenceInv'
    BY <2>1, ConnectKeeps
  <2>2. ASSUME NEW c \in inside, Leave(c) PROVE PresenceInv'
    BY <2>2, LeaveKeeps
  <2>3. ASSUME NEW c \in inside, SaveBoard(c) PROVE PresenceInv'
    <3>1. Still
      BY <2>3 DEF SaveBoard, Still, lkVars, Exists, Handling
    <3> QED
      BY <3>1, StillKeeps DEF MeetingInv
  <2>4. ASSUME EmptyTimeout PROVE PresenceInv'
    BY <2>4, ClosesKeeps DEF EmptyTimeout, SameWebhook, dbVars, Exists, Handling
  <2> QED
    BY <1>1, <2>1, <2>2, <2>3, <2>4 DEF LiveKitMoves
<1>2. ASSUME NEW t \in Request, Arrives(t) PROVE PresenceInv'
  <2>1. t \in Slot
    BY DEF Slot
  <2> QED
    BY <1>2, <2>1, OtherSteps
<1>3. ASSUME NEW t \in Courier, NEW i \in DOMAIN hooks, Delivers(t, i) PROVE PresenceInv'
  BY <1>3, RoomHooks, JoinedHook, LeftHook DEF Delivers
<1>4. ASSUME NEW t \in Slot, Continues(t) PROVE PresenceInv'
  BY <1>4, OtherSteps, ReadsKeeps, RecordJoinKeeps, RecordLeaveKeeps DEF Continues
<1>5. ASSUME CronRead \/ CronLists \/ CronListFails PROVE PresenceInv'
  <2>1. Cron \in Slot
    BY DEF Slot
  <2> QED
    BY <1>5, <2>1, OtherSteps
<1>6. ASSUME DeleteSession PROVE PresenceInv'
  BY <1>6, DeleteSessionKeeps
<1>7. ASSUME Restart PROVE PresenceInv'
  BY <1>7, RestartKeeps
<1>8. ASSUME UNCHANGED vars PROVE PresenceInv'
  <2>1. Still
    BY <1>8 DEF vars, dbVars, lkVars, Still, Exists, Handling
  <2> QED
    BY <2>1, StillKeeps DEF MeetingInv
<1> QED
  BY <1>1, <1>2, <1>3, <1>4, <1>5, <1>6, <1>7, <1>8 DEF Next

\* When no webhook is to come, the rows are those of the connections that are up.
LEMMA PresenceInvMeans == MeetingInv /\ PresenceInv => PresenceIsExact
<1> SUFFICES ASSUME MeetingInv, PresenceInv, Quiet, Exists, NEW p \in Person
             PROVE  /\ Cardinality(OpenRows(p)) <= Cardinality(InsideOf(p))
                    /\ \/ Cardinality(OpenRows(p)) = Cardinality(InsideOf(p))
                       \/ \E c \in DOMAIN conns : conns[c].who = p /\ sheet[c].row = "deleted"
  BY DEF PresenceIsExact
<1>1. PICK a \in Nat : /\ Leads(conns, hooks, p, a, Present(p))
                       /\ Cardinality(Settled(p)) <= a
                       /\ Cardinality(Settled(p)) = a \/ Wiped(p)
  BY DEF PresenceInv, Balanced
<1>2. a = Present(p)
  <2>1. Len(hooks) = 0
    BY DEF Quiet
  <2> QED
    BY <1>1, <2>1 DEF Leads
<1>3. \A t \in Slot : task[t].op \notin {"joined", "left"}
  <2>1. \A t \in Slot : Handling(t) => t \in Courier /\ ~Free(t)
    <3>1. \A t \in Slot : Handling(t) => t \in Courier /\ task[t] # Idle
      BY IdleType DEF MeetingInv, Handlers, Handling
    <3> QED
      BY <3>1 DEF MeetingInv, Handlers
  <2> QED
    BY <2>1 DEF Quiet, Handling
<1>4. Settled(p) = OpenRows(p)
  BY <1>3 DEF Settled, OpenRows, StaysOpen
<1>5. Cardinality(InsideOf(p)) = Present(p)
  <2>1. CASE \E c \in inside : conns[c].who = p
    <3>1. PICK c \in inside : conns[c].who = p
      BY <2>1
    <3>2. InsideOf(p) = {c}
      BY <3>1 DEF InsideOf, PresenceInv, OneEach
    <3> QED
      BY <2>1, <3>2, FS_Singleton DEF Present
  <2>2. CASE ~\E c \in inside : conns[c].who = p
    <3>1. InsideOf(p) = {}
      BY <2>2 DEF InsideOf
    <3> QED
      BY <2>2, <3>1, FS_EmptySet DEF Present
  <2> QED
    BY <2>1, <2>2
<1> QED
  BY <1>1, <1>2, <1>4, <1>5 DEF Wiped

\* When every webhook has been handled, in order, the sheet has one open row for each
\* connection that is up, or fewer if rows of that person were deleted, whatever join,
\* close, the cron, deletions and restarts do meanwhile (recordJoin and recordLeave).
THEOREM SheetIsExact ==
  ASSUME InOrder
  PROVE  Spec => []PresenceIsExact
<1> DEFINE Inv == MeetingInv /\ PresenceInv
<1>1. Init => Inv
  BY MeetingInvInit, PresenceInvInit
<1>2. Inv /\ [Next]_vars => Inv'
  BY MeetingInvStep, PresenceInvStep
<1>3. Inv => PresenceIsExact
  BY PresenceInvMeans
<1> QED
  BY <1>1, <1>2, <1>3, PTL DEF Spec

=============================================================================
