----------------------------- MODULE Recordings -----------------------------
(***************************************************************************)
(* The recordings of a room: RecordingsService, EgressReconciliationService,*)
(* the egress and room_finished branches of LiveKitWebhookController, the   *)
(* two crons and the part of RoomsService.remove that touches recordings.   *)
(*                                                                          *)
(* The backend is one Node process.  A handler runs without interruption    *)
(* from one `await' to the next, and anything may run in between, so every  *)
(* action below is the code between two awaits that touch shared state.     *)
(* Three stores are shared: Postgres (room, status, s3Key, aged),           *)
(* LiveKit (egress, home, forgotten and the webhooks it sends) and S3       *)
(* (objects).  A restart of the process loses the tasks and nothing else.   *)
(*                                                                          *)
(* RecordingsService.start is the only place that inserts a row, with the   *)
(* id of the egress it just obtained, so a row is named here by its egress. *)
(***************************************************************************)
EXTENDS Naturals, FiniteSets

CONSTANTS
    Room,           \* rooms
    Egress,         \* egress ids LiveKit may hand out
    Request,        \* slots for concurrent HTTP requests, webhooks and the purge
    Cron,           \* the slot of the reconciliation cron
    None,
    MaxConcurrent,  \* recordings.maxConcurrent
    Outages         \* whether calls of LiveKit and S3 may fail and the process restart

ASSUME SlotsAssumption == Cron \notin Request
ASSUME NoneAssumption  == None \notin Room \cup Egress
ASSUME BoundAssumption == /\ MaxConcurrent \in Nat \ {0}
                          /\ Outages \in BOOLEAN

VARIABLES
    room,        \* rooms.status, "REMOVED" once the row is gone
    status,      \* recordings.status; "NONE" before the row, and the way it went
    s3Key,       \* rows whose s3Key is set
    aged,        \* rows whose startedAt is older than STUCK_THRESHOLD_MS
    egress,      \* LiveKit's state of each egress
    home,        \* the room an egress records
    forgotten,   \* finished egresses that listEgress no longer returns
    egressHooks, \* egress_* webhooks sent, as <<egress, state>>
    roomHooks,   \* room_finished webhooks on their way
    objects,     \* recordings present in the bucket
    task         \* the handlers in flight

dbVars   == <<room, status, s3Key, aged>>
lkVars   == <<egress, home, forgotten, egressHooks, roomHooks>>
vars     == <<dbVars, lkVars, objects, task>>

Task         == Request \cup {Cron}
RoomStatus   == {"LIVE", "ENDED", "REMOVED"}
InProgress   == {"STARTING", "ACTIVE", "ENDING"}
Final        == {"READY", "FAILED"}
Absent       == {"NONE", "DELETED", "CASCADED"}
RowStatus    == InProgress \cup Final \cup Absent
Over         == {"COMPLETE", "FAILED", "LIMIT_REACHED"}
EgressStatus == {"NONE"} \cup InProgress \cup Over

(***************************************************************************)
(* A handler in flight: which operation, where it is suspended, and the     *)
(* values it read before the await it is suspended at.                      *)
(***************************************************************************)
Op == {"none", "start", "stop", "hook", "cron", "list", "purge", "remove",
       "finish", "destroy"}
Step == {"idle", "check", "capacity", "launch", "insert", "halt", "mark",
         "lookup", "update", "missing", "loop", "unlink", "delete", "scan"}

TaskState == [op    : Op,
              at    : Step,
              room  : Room \cup {None},
              cur   : Egress \cup {None},
              todo  : SUBSET Egress,      \* what is left of the list it loops on
              snap  : EgressStatus,       \* the EgressInfo being reconciled
              stamp : BOOLEAN]            \* startedAt is part of the update

Idle == [op |-> "none", at |-> "idle", room |-> None, cur |-> None,
         todo |-> {}, snap |-> "NONE", stamp |-> FALSE]

At(t, op, at)  == task[t].op = op /\ task[t].at = at
Free(t)        == task[t].at = "idle"
Go(t, s)       == task' = [task EXCEPT ![t] = s]
Done(t)        == Go(t, Idle)

HasRow(e)      == status[e] \notin Absent
Running(e)     == egress[e] \in InProgress
RowsOf(r)      == {e \in Egress : HasRow(e) /\ home[e] = r}
InProgressOf(r) == {e \in RowsOf(r) : status[e] \in InProgress}

(* The loop of operation op goes on with S; a handler with nothing left     *)
(* returns.                                                                 *)
Iterate(t, op, S) ==
    Go(t, IF S = {} THEN Idle
          ELSE [Idle EXCEPT !.op = op, !.at = "loop", !.todo = S])

(* What follows the awaited call of reconcileRecording or of a row delete:  *)
(* the next element for a loop, the response otherwise.                     *)
Return(t) == Iterate(t, task[t].op, task[t].todo)

TypeOK ==
    /\ room        \in [Room -> RoomStatus]
    /\ status      \in [Egress -> RowStatus]
    /\ s3Key       \in SUBSET Egress
    /\ aged        \in SUBSET Egress
    /\ egress      \in [Egress -> EgressStatus]
    /\ home        \in [Egress -> Room \cup {None}]
    /\ forgotten   \in SUBSET Egress
    /\ egressHooks \in SUBSET (Egress \X EgressStatus)
    /\ roomHooks   \in SUBSET Room
    /\ objects     \in SUBSET Egress
    /\ task        \in [Task -> TaskState]

Init ==
    /\ room        = [r \in Room |-> "LIVE"]
    /\ status      = [e \in Egress |-> "NONE"]
    /\ egress      = [e \in Egress |-> "NONE"]
    /\ home        = [e \in Egress |-> None]
    /\ task        = [t \in Task |-> Idle]
    /\ s3Key = {} /\ aged = {} /\ objects = {}
    /\ forgotten = {} /\ egressHooks = {} /\ roomHooks = {}

-----------------------------------------------------------------------------
(* LiveKit, as far as the backend relies on it.                             *)

(* An egress reaches state s and the egress_* webhook for it is sent.       *)
Reaches(e, s) ==
    /\ egress' = [egress EXCEPT ![e] = s]
    /\ egressHooks' = egressHooks \cup {<<e, s>>}

(* The egress worker makes progress on its own.  The file is uploaded       *)
(* before the egress is reported over, be it complete or cut at the maximum *)
(* duration of LiveKit's configuration; FAILED stands for ABORTED too.      *)
EgressProgress(e) ==
    /\ \/ egress[e] = "STARTING" /\ Reaches(e, "ACTIVE")  /\ UNCHANGED objects
       \/ egress[e] = "ACTIVE"   /\ Reaches(e, "ENDING")  /\ UNCHANGED objects
       \/ Running(e)             /\ Reaches(e, "FAILED")  /\ UNCHANGED objects
       \/ /\ \/ egress[e] = "ENDING" /\ Reaches(e, "COMPLETE")
             \/ egress[e] = "ACTIVE" /\ Reaches(e, "LIMIT_REACHED")
          /\ objects' = objects \cup {e}
    /\ UNCHANGED <<dbVars, home, forgotten, roomHooks, task>>

(* LiveKit drops the record of an egress some time after it ended.          *)
EgressForgotten(e) ==
    /\ egress[e] \in Over /\ e \notin forgotten
    /\ forgotten' = forgotten \cup {e}
    /\ UNCHANGED <<dbVars, egress, home, egressHooks, roomHooks, objects, task>>

(* LiveKit closes the room: everybody left, or RoomsService.close deleted   *)
(* it.  The recording egress is not tied to the room and goes on.           *)
RoomFinishes(r) ==
    /\ room[r] = "LIVE"
    /\ r \notin roomHooks
    /\ roomHooks' = roomHooks \cup {r}
    /\ UNCHANGED <<dbVars, egress, home, forgotten, egressHooks, objects, task>>

(* stopEgress succeeds on an egress that has not been asked to stop yet.    *)
Stoppable(e) == egress[e] \in {"STARTING", "ACTIVE"}

LiveKitStop(e) ==
    /\ Stoppable(e)
    /\ Reaches(e, "ENDING")
    /\ UNCHANGED <<home, forgotten, roomHooks>>

(* A row's startedAt becomes older than ten minutes.                        *)
RowAges(e) ==
    /\ status[e] \in InProgress /\ e \notin aged
    /\ aged' = aged \cup {e}
    /\ UNCHANGED <<room, status, s3Key, lkVars, objects, task>>

-----------------------------------------------------------------------------
(* RecordingsService.start                                                  *)

(* The room is read and must be live.                                       *)
StartRequest(t, r) ==
    /\ Free(t) /\ t \in Request
    /\ room[r] = "LIVE"
    /\ Go(t, [Idle EXCEPT !.op = "start", !.at = "check", !.room = r])
    /\ UNCHANGED <<dbVars, lkVars, objects>>

(* No other recording of the room may be in progress.                       *)
StartCheck(t) ==
    /\ At(t, "start", "check")
    /\ IF InProgressOf(task[t].room) # {}
       THEN Done(t)
       ELSE Go(t, [task[t] EXCEPT !.at = "capacity"])
    /\ UNCHANGED <<dbVars, lkVars, objects>>

(* assertCapacityAvailable: LiveKit's count of unfinished egresses, or when *)
(* listEgress fails the number of rows in progress.                         *)
AssertCapacityAvailable(t) ==
    /\ At(t, "start", "capacity")
    /\ \E active \in {{e \in Egress : Running(e)}}
           \cup IF Outages THEN {{e \in Egress : status[e] \in InProgress}} ELSE {} :
         IF Cardinality(active) >= MaxConcurrent
         THEN Done(t)
         ELSE Go(t, [task[t] EXCEPT !.at = "launch"])
    /\ UNCHANGED <<dbVars, lkVars, objects>>

(* startWebEgress returns a new egress.                                     *)
StartEgress(t, e) ==
    /\ At(t, "start", "launch")
    /\ egress[e] = "NONE"
    /\ Reaches(e, "STARTING")
    /\ home' = [home EXCEPT ![e] = task[t].room]
    /\ Go(t, [task[t] EXCEPT !.at = "insert", !.cur = e])
    /\ UNCHANGED <<dbVars, forgotten, roomHooks, objects>>

(* recording.create; the foreign key refuses the row of a deleted room.     *)
StartInsert(t) ==
    LET e == task[t].cur IN
    /\ At(t, "start", "insert")
    /\ status' = IF room[task[t].room] = "REMOVED" THEN status
                 ELSE [status EXCEPT ![e] = "STARTING"]
    /\ Done(t)
    /\ UNCHANGED <<room, s3Key, aged, lkVars, objects>>

-----------------------------------------------------------------------------
(* RecordingsService.stop                                                   *)

StopRequest(t, e) ==
    /\ Free(t) /\ t \in Request
    /\ status[e] \in InProgress
    /\ Go(t, [Idle EXCEPT !.op = "stop", !.at = "halt", !.cur = e])
    /\ UNCHANGED <<dbVars, lkVars, objects>>

(* stopEgress throws when LiveKit has nothing left to stop.                 *)
StopEgress(t) ==
    LET e == task[t].cur IN
    /\ At(t, "stop", "halt")
    /\ \/ LiveKitStop(e) /\ Go(t, [task[t] EXCEPT !.at = "mark"])
       \/ ~Stoppable(e) /\ Done(t) /\ UNCHANGED lkVars
    /\ UNCHANGED <<dbVars, objects>>

(* The row becomes ENDING whatever happened to it since it was read.        *)
StopMark(t) ==
    LET e == task[t].cur IN
    /\ At(t, "stop", "mark")
    /\ status' = IF HasRow(e) THEN [status EXCEPT ![e] = "ENDING"] ELSE status
    /\ Done(t)
    /\ UNCHANGED <<room, s3Key, aged, lkVars, objects>>

-----------------------------------------------------------------------------
(* EgressReconciliationService.reconcileRecording, called with the egress   *)
(* state task[t].snap by a webhook, by the cron and by list().              *)

(* What reconcileRecording decides to do from the row as it is read: update *)
(* it, or return.  task[t] is then suspended on the update.  No branch is   *)
(* for LIMIT_REACHED.                                                       *)
Reconcile(t, call) ==
    LET s == call.snap
        seen == status[call.cur]
    IN
    IF /\ seen \notin Absent
       /\ s \in {"COMPLETE", "FAILED"} \/ (s \in InProgress /\ seen \in InProgress)
    THEN Go(t, [call EXCEPT !.at = "update",
                            !.stamp = (s = "ACTIVE" /\ seen = "STARTING")])
    ELSE Iterate(t, call.op, call.todo)

(* An egress_* webhook arrives, maybe late, out of order or not for the     *)
(* first time: one that was sent may always arrive, and need never arrive.  *)
EgressHook(t, h) ==
    /\ Free(t) /\ t \in Request
    /\ h \in egressHooks
    /\ Reconcile(t, [Idle EXCEPT !.op = "hook", !.cur = h[1], !.snap = h[2]])
    /\ UNCHANGED <<dbVars, lkVars, objects>>

(* The row is read after the answer of listEgress, task[t].snap.            *)
ReconcileRead(t) ==
    /\ task[t].at = "lookup"
    /\ Reconcile(t, task[t])
    /\ UNCHANGED <<dbVars, lkVars, objects>>

(* Mutant: the terminal state of LiveKit is stored as it came.              *)
RowStatusOf_AsIs(s) == s

(* EGRESS_STATUS_TO_RECORDING_STATUS and the two terminal branches.         *)
RowStatusOf(s) == IF s = "COMPLETE" THEN "READY" ELSE s

(* recording.update by id; it throws on a row deleted meanwhile, which ends *)
(* a webhook and is caught by the two loops.                                *)
ReconcileUpdate(t) ==
    LET e == task[t].cur
        s == task[t].snap
    IN
    /\ task[t].at = "update"
    /\ IF HasRow(e)
       THEN /\ status'   = [status EXCEPT ![e] = RowStatusOf(s)]
            /\ s3Key'    = IF s = "COMPLETE" THEN s3Key \cup {e} ELSE s3Key
            /\ aged'     = IF task[t].stamp THEN aged \ {e} ELSE aged
       ELSE UNCHANGED <<status, s3Key, aged>>
    /\ Return(t)
    /\ UNCHANGED <<room, lkVars, objects>>

-----------------------------------------------------------------------------
(* RecordingsReconciliationCron and the repair done by list().              *)

(* Mutant: ENDING is not counted as in progress.                            *)
CronRead_NotEnding ==
    LET stuck == {e \in aged : status[e] \in {"STARTING", "ACTIVE"}} IN
    /\ Free(Cron)
    /\ stuck # {}
    /\ Go(Cron, [Idle EXCEPT !.op = "cron", !.at = "loop", !.todo = stuck])
    /\ UNCHANGED <<dbVars, lkVars, objects>>

(* reconcileStuckRecordings reads the rows stuck for ten minutes.           *)
CronRead ==
    LET stuck == {e \in Egress : status[e] \in InProgress /\ e \in aged} IN
    /\ Free(Cron)
    /\ stuck # {}
    /\ Go(Cron, [Idle EXCEPT !.op = "cron", !.at = "loop", !.todo = stuck])
    /\ UNCHANGED <<dbVars, lkVars, objects>>

(* list() reads the rows of the room; those STARTING for over a minute (any *)
(* of the STARTING ones: createdAt is never rewritten) are reconciled.      *)
ListRead(t, r) ==
    /\ Free(t) /\ t \in Request
    /\ \E stale \in SUBSET {e \in RowsOf(r) : status[e] = "STARTING"} :
         /\ stale # {}
         /\ Go(t, [Idle EXCEPT !.op = "list", !.at = "loop", !.todo = stale])
    /\ UNCHANGED <<dbVars, lkVars, objects>>

(* listEgress by id, for the next row of the list.                          *)
Lookup(t) ==
    /\ task[t].at = "loop" /\ task[t].op \in {"cron", "list"}
    /\ \E e \in task[t].todo :
         LET rest == task[t].todo \ {e} IN
         IF e \notin forgotten
         THEN Go(t, [task[t] EXCEPT !.at = "lookup", !.cur = e,
                                    !.snap = egress[e], !.todo = rest])
         ELSE IF task[t].op = "cron"
              THEN Go(t, [task[t] EXCEPT !.at = "missing", !.cur = e, !.todo = rest])
              ELSE Iterate(t, task[t].op, rest)
    /\ UNCHANGED <<dbVars, lkVars, objects>>

(* Mutant: an unanswered listEgress is taken for an unknown egress.         *)
LookupFails_AsMissing(t) ==
    /\ At(t, "cron", "loop")
    /\ \E e \in task[t].todo :
         Go(t, [task[t] EXCEPT !.at = "missing", !.cur = e, !.todo = task[t].todo \ {e}])
    /\ UNCHANGED <<dbVars, lkVars, objects>>

(* listEgress throws: both loops go on with the next row.                   *)
LookupFails(t) ==
    /\ task[t].at = "loop" /\ task[t].op \in {"cron", "list"}
    /\ \E e \in task[t].todo : Iterate(t, task[t].op, task[t].todo \ {e})
    /\ UNCHANGED <<dbVars, lkVars, objects>>

(* The cron gives up on an egress that LiveKit does not know any more.      *)
FailMissing(t) ==
    LET e == task[t].cur IN
    /\ task[t].at = "missing"
    /\ status' = IF HasRow(e) THEN [status EXCEPT ![e] = "FAILED"] ELSE status
    /\ Return(t)
    /\ UNCHANGED <<room, s3Key, aged, lkVars, objects>>

-----------------------------------------------------------------------------
(* RecordingsService.purgeExpired and RecordingsService.remove              *)

(* The READY rows past the retention period: any of the READY ones.         *)
PurgeRead(t) ==
    /\ Free(t) /\ t \in Request
    /\ \E expired \in SUBSET {e \in Egress : status[e] = "READY"} :
         /\ expired # {}
         /\ Go(t, [Idle EXCEPT !.op = "purge", !.at = "loop", !.todo = expired])
    /\ UNCHANGED <<dbVars, lkVars, objects>>

(* S3 first.  A READY row has a key and no write ever clears it.            *)
PurgeObject(t) ==
    /\ At(t, "purge", "loop")
    /\ \E e \in task[t].todo :
         /\ objects' = IF e \in s3Key THEN objects \ {e} ELSE objects
         /\ Go(t, [task[t] EXCEPT !.at = "delete", !.cur = e,
                                  !.todo = task[t].todo \ {e}])
    /\ UNCHANGED <<dbVars, lkVars>>

(* Mutant: the row is deleted all the same.                                 *)
PurgeObjectFails_DeletesRow(t) ==
    /\ At(t, "purge", "loop")
    /\ \E e \in task[t].todo :
         Go(t, [task[t] EXCEPT !.at = "delete", !.cur = e, !.todo = task[t].todo \ {e}])
    /\ UNCHANGED <<dbVars, lkVars, objects>>

(* S3 is unavailable: the row is left for the next night.                   *)
PurgeObjectFails(t) ==
    /\ At(t, "purge", "loop")
    /\ \E e \in task[t].todo \cap s3Key : Iterate(t, task[t].op, task[t].todo \ {e})
    /\ UNCHANGED <<dbVars, lkVars, objects>>

(* Mutant: the status of the row is not looked at.                          *)
RemoveRequest_AnyStatus(t, e) ==
    /\ Free(t) /\ t \in Request
    /\ HasRow(e)
    /\ Go(t, [Idle EXCEPT !.op = "remove", !.cur = e,
                          !.at = IF e \in s3Key THEN "unlink" ELSE "delete"])
    /\ UNCHANGED <<dbVars, lkVars, objects>>

(* remove() reads the row and refuses one in progress.                      *)
RemoveRequest(t, e) ==
    /\ Free(t) /\ t \in Request
    /\ HasRow(e) /\ status[e] \notin InProgress
    /\ Go(t, [Idle EXCEPT !.op = "remove", !.cur = e,
                          !.at = IF e \in s3Key THEN "unlink" ELSE "delete"])
    /\ UNCHANGED <<dbVars, lkVars, objects>>

RemoveObject(t) ==
    /\ At(t, "remove", "unlink")
    /\ objects' = objects \ {task[t].cur}
    /\ Go(t, [task[t] EXCEPT !.at = "delete"])
    /\ UNCHANGED <<dbVars, lkVars>>

(* S3 is unavailable: the request fails and nothing has changed.            *)
RemoveObjectFails(t) ==
    /\ At(t, "remove", "unlink")
    /\ Done(t)
    /\ UNCHANGED <<dbVars, lkVars, objects>>

(* recording.delete by id; on a row already gone it throws, which ends the  *)
(* whole purge.                                                             *)
DeleteRow(t) ==
    LET e == task[t].cur IN
    /\ task[t].at = "delete"
    /\ IF HasRow(e)
       THEN status' = [status EXCEPT ![e] = "DELETED"] /\ Return(t)
       ELSE UNCHANGED status /\ Done(t)
    /\ UNCHANGED <<room, s3Key, aged, lkVars, objects>>

-----------------------------------------------------------------------------
(* Rooms: what the webhooks, close() and remove() do that concerns          *)
(* recordings.                                                              *)

(* room_started: an ended room is live again.                               *)
RoomStarted(r) ==
    /\ room[r] = "ENDED"
    /\ room' = [room EXCEPT ![r] = "LIVE"]
    /\ UNCHANGED <<status, s3Key, aged, lkVars, objects, task>>

(* The last step of RoomsService.close.                                     *)
RoomClosed(r) ==
    /\ room[r] = "LIVE"
    /\ room' = [room EXCEPT ![r] = "ENDED"]
    /\ roomHooks' = roomHooks \cup {r}
    /\ UNCHANGED <<status, s3Key, aged, egress, home, forgotten,
                   egressHooks, objects, task>>

(* room_finished: a LIVE room is ENDED, then its recordings are looked up.  *)
RoomFinishedHook(t, r) ==
    /\ Free(t) /\ t \in Request
    /\ r \in roomHooks
    /\ roomHooks' = roomHooks \ {r}
    /\ room' = IF room[r] = "LIVE" THEN [room EXCEPT ![r] = "ENDED"] ELSE room
    /\ Go(t, [Idle EXCEPT !.op = "finish", !.at = "scan", !.room = r])
    /\ UNCHANGED <<status, s3Key, aged, egress, home, forgotten,
                   egressHooks, objects>>

RoomFinishedScan(t) ==
    /\ At(t, "finish", "scan")
    /\ Iterate(t, task[t].op, InProgressOf(task[t].room))
    /\ UNCHANGED <<dbVars, lkVars, objects>>

(* stopEgress for each of them; an error is taken to mean "already over".   *)
RoomFinishedStop(t) ==
    /\ At(t, "finish", "loop")
    /\ \E e \in task[t].todo :
         /\ \/ LiveKitStop(e)
            \/ ~Stoppable(e) /\ UNCHANGED lkVars
         /\ Iterate(t, task[t].op, task[t].todo \ {e})
    /\ UNCHANGED <<dbVars, objects>>

(* RoomsService.remove: refused while LIVE, then the recordings that have a *)
(* key are listed.                                                          *)
RoomRemoveRequest(t, r) ==
    /\ Free(t) /\ t \in Request
    /\ room[r] = "ENDED"
    /\ Go(t, [Idle EXCEPT !.op = "destroy", !.at = "scan", !.room = r])
    /\ UNCHANGED <<dbVars, lkVars, objects>>

RoomRemoveScan(t) ==
    /\ At(t, "destroy", "scan")
    /\ Go(t, [task[t] EXCEPT !.at = "loop",
                             !.todo = RowsOf(task[t].room) \cap s3Key])
    /\ UNCHANGED <<dbVars, lkVars, objects>>

(* Each object is deleted; a failure is ignored.                            *)
RoomRemoveObject(t) ==
    /\ At(t, "destroy", "loop")
    /\ \E e \in task[t].todo :
         /\ objects' \in {objects, objects \ {e}}
         /\ Go(t, [task[t] EXCEPT !.todo = task[t].todo \ {e}])
    /\ UNCHANGED <<dbVars, lkVars>>

(* room.delete cascades to the recordings, whatever their status.           *)
RoomRemoveRow(t) ==
    LET r == task[t].room IN
    /\ At(t, "destroy", "loop") /\ task[t].todo = {}
    /\ room' = [room EXCEPT ![r] = "REMOVED"]
    /\ status' = [e \in Egress |-> IF e \in RowsOf(r) THEN "CASCADED" ELSE status[e]]
    /\ Done(t)
    /\ UNCHANGED <<s3Key, aged, lkVars, objects>>

-----------------------------------------------------------------------------
(* A LiveKit call that start, stop or a room_finished loop awaits fails     *)
(* with nothing done; the loop goes on.                                     *)
LiveKitUnreachable(t) ==
    /\ \/ At(t, "start", "launch") /\ Done(t)
       \/ At(t, "stop", "halt") /\ Done(t)
       \/ /\ At(t, "finish", "loop")
          /\ \E e \in task[t].todo : Iterate(t, task[t].op, task[t].todo \ {e})
    /\ UNCHANGED <<dbVars, lkVars, objects>>

(* The process restarts: every handler in flight is gone.                   *)
Restart ==
    /\ Outages
    /\ \E t \in Task : ~Free(t)
    /\ task' = [t \in Task |-> Idle]
    /\ UNCHANGED <<dbVars, lkVars, objects>>

Environment ==
    \/ \E e \in Egress : EgressProgress(e) \/ EgressForgotten(e) \/ RowAges(e)
    \/ \E r \in Room : RoomFinishes(r) \/ RoomStarted(r) \/ RoomClosed(r)
    \/ Restart

Arrives(t) ==
    \/ \E r \in Room : \/ StartRequest(t, r) \/ ListRead(t, r)
                       \/ RoomFinishedHook(t, r) \/ RoomRemoveRequest(t, r)
    \/ \E e \in Egress : StopRequest(t, e) \/ RemoveRequest(t, e)
    \/ \E h \in egressHooks : EgressHook(t, h)
    \/ PurgeRead(t)

Continues(t) ==
    \/ StartCheck(t) \/ AssertCapacityAvailable(t) \/ StartInsert(t)
    \/ \E e \in Egress : StartEgress(t, e)
    \/ StopEgress(t) \/ StopMark(t)
    \/ ReconcileRead(t) \/ ReconcileUpdate(t)
    \/ Lookup(t) \/ FailMissing(t)
    \/ PurgeObject(t) \/ RemoveObject(t) \/ DeleteRow(t)
    \/ RoomFinishedScan(t) \/ RoomFinishedStop(t)
    \/ RoomRemoveScan(t) \/ RoomRemoveObject(t) \/ RoomRemoveRow(t)

Errs(t) ==
    /\ Outages
    /\ \/ LookupFails(t) \/ PurgeObjectFails(t) \/ RemoveObjectFails(t)
       \/ LiveKitUnreachable(t)

Next ==
    \/ Environment
    \/ CronRead
    \/ \E t \in Task : Arrives(t) \/ Continues(t) \/ Errs(t)

Spec == Init /\ [][Next]_vars

(***************************************************************************)
(* Fairness.  A handler whose awaited call is answered goes on; the cron is *)
(* run every five minutes; rows grow old; and LiveKit is not unreachable    *)
(* every time the cron asks.  Nothing is assumed of LiveKit's egresses, of  *)
(* the users, nor of the delivery of egress webhooks.                       *)
(***************************************************************************)
Fairness ==
    /\ \A t \in Task : WF_vars(Continues(t))
    /\ WF_vars(CronRead)
    /\ SF_vars(Lookup(Cron))
    /\ \A e \in Egress : WF_vars(RowAges(e))

FairSpec == Spec /\ Fairness

(* An egress is ACTIVE once the page it records has joined the room and     *)
(* signalled the start (EgressRecordingSignal); the page signals the end    *)
(* when the closing of the room disconnects it.                             *)
RecorderDisconnected(e) ==
    /\ egress[e] = "ACTIVE"
    /\ home[e] # None /\ room[home[e]] = "ENDED"
    /\ EgressProgress(e)

(* With, in addition, the recorder's own end signal and every room_finished *)
(* webhook delivered: strong, since the slots that model concurrent         *)
(* requests are few and those of the program are not.                       *)
DeliveringSpec ==
    /\ FairSpec
    /\ \A e \in Egress : WF_vars(RecorderDisconnected(e))
    /\ \A r \in Room : SF_vars(\E t \in Request : RoomFinishedHook(t, r))

-----------------------------------------------------------------------------
(* Properties                                                               *)

(* A READY row is downloadable: its egress completed and its key is known.  *)
(* A row is FAILED only if its egress failed or if LiveKit lost track of    *)
(* it.  Late, repeated and concurrent reconciliations (webhook, cron and    *)
(* list) and unanswered listEgress calls do not change that.                *)
FinalAgrees ==
    \A e \in Egress :
        /\ status[e] = "READY" => egress[e] = "COMPLETE" /\ e \in s3Key
        /\ status[e] = "FAILED" => egress[e] = "FAILED" \/ e \in forgotten

(* remove() and the purge never take the row of an egress that still runs,  *)
(* though both decide on a row read before the calls of S3 that precede the *)
(* delete: from then on nobody could stop the egress.                       *)
DeletedIsOver ==
    \A e \in Egress : status[e] = "DELETED" => egress[e] \in Over

(* "S3 d'abord, base ensuite": a row deleted by remove() or by the purge    *)
(* leaves no object behind, whatever failed or restarted in between, except *)
(* when the cron had given up on an egress LiveKit no longer knew.          *)
NoOrphanObject ==
    \A e \in Egress : status[e] = "DELETED" /\ e \in objects => e \in forgotten

(* From some point on the process stays up and no egress webhook arrives.   *)
Calm == <>[][~Restart /\ \A t \in Request, h \in egressHooks : ~EgressHook(t, h)]_vars

(* A row left in progress after its egress ended (lost webhook, restart,    *)
(* outage, a stop or a stale reconciliation that reopened it) is settled by *)
(* the cron: once webhooks stop arriving, the row of an egress that is      *)
(* complete, failed or forgotten is READY or FAILED, or gone, for ever.     *)
(* While they keep arriving this is not so: a STARTING and an ACTIVE        *)
(* webhook, delivered again and again, keep moving startedAt and hide the   *)
(* row from the cron.                                                       *)
SettlesForGood ==
    Calm =>
        \A e \in Egress :
            <>[](egress[e] \in {"COMPLETE", "FAILED"} \/ e \in forgotten
                    => status[e] \notin InProgress)

(* The cron as its comment has it, a net without which recordings stay "en  *)
(* cours" indefinitely: the same of an egress that is over in any way.      *)
SettlesEveryEnd ==
    Calm =>
        \A e \in Egress : <>[](egress[e] \in Over => status[e] \notin InProgress)

(* The guard of the room_finished webhook: when a room is over for good, no *)
(* egress that it started runs for ever, the one whose page found no room   *)
(* to join included.                                                        *)
FinishedRoomStopsEgress ==
    \A e \in Egress :
        <>[](home[e] # None /\ room[home[e]] = "ENDED") => <>[]~Stoppable(e)

(* A reconciliation, whoever called it, never reopens a finalised row.      *)
ReconcileNeverReopens ==
    [][\A t \in Task, e \in Egress :
         status[e] \in Final /\ status'[e] \in InProgress
             => ~(task[t].at = "update" /\ task[t].cur = e /\ task'[t] # task[t])]_vars

=============================================================================
