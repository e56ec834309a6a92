-------------------------- MODULE RecordingsProofs --------------------------
(***************************************************************************)
(* Type correctness of Recordings and its three state invariants, for any   *)
(* set of rooms, egresses and concurrent requests and any number of         *)
(* restarts, with or without outages.                                       *)
(***************************************************************************)
EXTENDS Recordings, TLAPS

-----------------------------------------------------------------------------
(* Types                                                                    *)

(* The steps at which a handler is suspended with a recording in hand.      *)
Holding == {"insert", "halt", "mark", "lookup", "update", "missing", "unlink", "delete"}

(* ... and the egress states on which a row may be updated.                 *)
InHand(c) == c.at \in Holding => /\ c.cur \in Egress
                                 /\ c.at = "update" => c.snap # "LIMIT_REACHED"

CursorOK == \A t \in Task : InHand(task[t])

TInv == TypeOK /\ CursorOK

(* A handler moves to a well-formed state: so do all of them.               *)
LEMMA GoTyped ==
  ASSUME task \in [Task -> TaskState], CursorOK,
         NEW t \in Task, NEW s \in TaskState, InHand(s),
         Go(t, s)
  PROVE  task' \in [Task -> TaskState] /\ CursorOK'
  BY DEF InHand, Go, CursorOK

LEMMA IdleTyped == Idle \in TaskState /\ Idle.at \notin Holding /\ InHand(Idle)
  BY DEF Idle, TaskState, Op, Step, Holding, EgressStatus, InHand

LEMMA DoneTyped ==
  ASSUME TInv, NEW t \in Task, Done(t)
  PROVE  task' \in [Task -> TaskState] /\ CursorOK'
  BY GoTyped, IdleTyped DEF Done, TInv, TypeOK

LEMMA IterateTyped ==
  ASSUME TInv, NEW t \in Task, NEW op \in Op, NEW S \in SUBSET Egress, Iterate(t, op, S)
  PROVE  task' \in [Task -> TaskState] /\ CursorOK'
<1> DEFINE s == IF S = {} THEN Idle
                ELSE [Idle EXCEPT !.op = op, !.at = "loop", !.todo = S]
<1>1. s \in TaskState /\ InHand(s)
  BY IdleTyped DEF InHand, Idle, TaskState, Op, Step, Holding, EgressStatus
<1> QED  BY <1>1, GoTyped DEF Iterate, TInv, TypeOK

LEMMA ReturnTyped ==
  ASSUME TInv, NEW t \in Task, Return(t)
  PROVE  task' \in [Task -> TaskState] /\ CursorOK'
<1>1. task[t].op \in Op /\ task[t].todo \in SUBSET Egress
  BY DEF TInv, TypeOK, TaskState
<1> QED  BY <1>1, IterateTyped DEF Return

LEMMA ReconcileTyped ==
  ASSUME TInv, NEW t \in Task, NEW c \in TaskState, c.cur \in Egress, Reconcile(t, c)
  PROVE  task' \in [Task -> TaskState] /\ CursorOK'
<1> DEFINE s == [c EXCEPT !.at = "update",
                          !.stamp = (c.snap = "ACTIVE" /\ status[c.cur] = "STARTING")]
<1>1. s \in TaskState /\ s.cur \in Egress /\ s.snap = c.snap
  BY DEF TaskState, Step
<1>2. CASE Go(t, s) /\ c.snap # "LIMIT_REACHED"
  BY <1>1, <1>2, GoTyped DEF TInv, TypeOK, InHand
<1>3. CASE Iterate(t, c.op, c.todo)
  <2>1. c.op \in Op /\ c.todo \in SUBSET Egress
    BY DEF TaskState
  <2> QED  BY <2>1, <1>3, IterateTyped
<1> QED  BY <1>2, <1>3 DEF Reconcile, InProgress

LEMMA ReachesTyped ==
  ASSUME TypeOK, NEW e \in Egress, NEW s \in EgressStatus, Reaches(e, s)
  PROVE  /\ egress' \in [Egress -> EgressStatus]
         /\ egressHooks' \in SUBSET (Egress \X EgressStatus)
  BY DEF Reaches, TypeOK

LEMMA TypeInit == Init => TInv
  BY IdleTyped, BoundAssumption, NoneAssumption
  DEF InHand, Init, TInv, TypeOK, CursorOK, Task, RoomStatus, RowStatus, InProgress, Absent, EgressStatus

(* The stores keep their types when LiveKit, the clock or rooms move.       *)
LEMMA TypeEnvironment ==
  ASSUME TInv, Environment
  PROVE  TInv'
<1> USE DEF TInv
<1>1. ASSUME NEW e \in Egress, EgressProgress(e)  PROVE TInv'
  <2>1. \E s \in EgressStatus : Reaches(e, s)
    BY <1>1 DEF EgressProgress, EgressStatus, InProgress, Over
  <2>2. objects' \in SUBSET Egress
    BY <1>1 DEF EgressProgress, TypeOK
  <2> QED  BY <1>1, <2>1, <2>2, ReachesTyped DEF InHand, EgressProgress, TypeOK, CursorOK, dbVars
<1>2. ASSUME NEW e \in Egress, EgressForgotten(e) \/ RowAges(e)  PROVE TInv'
  BY <1>2 DEF InHand, EgressForgotten, RowAges, TypeOK, CursorOK, dbVars, lkVars
<1>3. ASSUME NEW r \in Room, RoomFinishes(r) \/ RoomStarted(r) \/ RoomClosed(r)  PROVE TInv'
  BY <1>3 DEF InHand, RoomFinishes, RoomStarted, RoomClosed, TypeOK, CursorOK, RoomStatus, dbVars, lkVars
<1>4. CASE Restart
  BY <1>4, IdleTyped, BoundAssumption DEF InHand, Restart, TypeOK, CursorOK, dbVars, lkVars
<1> QED  BY <1>1, <1>2, <1>3, <1>4 DEF Environment

LEMMA TypeArrives ==
  ASSUME TInv, NEW t \in Task, Arrives(t)
  PROVE  TInv'
<1> USE DEF TInv
<1>1. ASSUME NEW r \in Room, StartRequest(t, r)  PROVE TInv'
  <2> DEFINE s == [Idle EXCEPT !.op = "start", !.at = "check", !.room = r]
  <2>1. s \in TaskState /\ InHand(s)
    BY IdleTyped DEF InHand, Idle, TaskState, Op, Step, Holding
  <2> QED  BY <1>1, <2>1, GoTyped DEF StartRequest, TypeOK, dbVars, lkVars
<1>2. ASSUME NEW r \in Room, ListRead(t, r)  PROVE TInv'
  <2>1. PICK S \in SUBSET Egress :
               Go(t, [Idle EXCEPT !.op = "list", !.at = "loop", !.todo = S])
    BY <1>2 DEF ListRead, RowsOf
  <2> DEFINE s == [Idle EXCEPT !.op = "list", !.at = "loop", !.todo = S]
  <2>2. s \in TaskState /\ InHand(s)
    BY IdleTyped DEF InHand, Idle, TaskState, Op, Step, Holding
  <2> QED  BY <1>2, <2>1, <2>2, GoTyped DEF ListRead, TypeOK, dbVars, lkVars
<1>3. ASSUME NEW r \in Room, RoomFinishedHook(t, r)  PROVE TInv'
  <2> DEFINE s == [Idle EXCEPT !.op = "finish", !.at = "scan", !.room = r]
  <2>1. s \in TaskState /\ InHand(s)
    BY IdleTyped DEF InHand, Idle, TaskState, Op, Step, Holding
  <2> QED  BY <1>3, <2>1, GoTyped DEF RoomFinishedHook, TypeOK, RoomStatus
<1>4. ASSUME NEW r \in Room, RoomRemoveRequest(t, r)  PROVE TInv'
  <2> DEFINE s == [Idle EXCEPT !.op = "destroy", !.at = "scan", !.room = r]
  <2>1. s \in TaskState /\ InHand(s)
    BY IdleTyped DEF InHand, Idle, TaskState, Op, Step, Holding
  <2> QED  BY <1>4, <2>1, GoTyped DEF RoomRemoveRequest, TypeOK, dbVars, lkVars
<1>5. ASSUME NEW e \in Egress, StopRequest(t, e)  PROVE TInv'
  <2> DEFINE s == [Idle EXCEPT !.op = "stop", !.at = "halt", !.cur = e]
  <2>1. s \in TaskState /\ s.cur \in Egress /\ InHand(s)
    BY IdleTyped DEF Idle, TaskState, Op, Step, InHand
  <2> QED  BY <1>5, <2>1, GoTyped DEF StopRequest, TypeOK, dbVars, lkVars
<1>6. ASSUME NEW e \in Egress, RemoveRequest(t, e)  PROVE TInv'
  <2> DEFINE s == [Idle EXCEPT !.op = "remove", !.cur = e,
                              !.at = IF e \in s3Key THEN "unlink" ELSE "delete"]
  <2>1. s \in TaskState /\ s.cur \in Egress /\ InHand(s)
    BY IdleTyped DEF Idle, TaskState, Op, Step, InHand
  <2> QED  BY <1>6, <2>1, GoTyped DEF RemoveRequest, TypeOK, dbVars, lkVars
<1>7. ASSUME NEW h \in egressHooks, EgressHook(t, h)  PROVE TInv'
  <2> DEFINE s == [Idle EXCEPT !.op = "hook", !.cur = h[1], !.snap = h[2]]
  <2>1. h[1] \in Egress /\ h[2] \in EgressStatus
    BY DEF TypeOK
  <2>2. s \in TaskState /\ s.cur \in Egress
    BY <2>1, IdleTyped DEF Idle, TaskState, Op, Step
  <2> QED  BY <1>7, <2>2, ReconcileTyped DEF EgressHook, TypeOK, dbVars, lkVars
<1>8. CASE PurgeRead(t)
  <2>1. PICK S \in SUBSET Egress :
               Go(t, [Idle EXCEPT !.op = "purge", !.at = "loop", !.todo = S])
    BY <1>8 DEF PurgeRead
  <2> DEFINE s == [Idle EXCEPT !.op = "purge", !.at = "loop", !.todo = S]
  <2>2. s \in TaskState /\ InHand(s)
    BY IdleTyped DEF InHand, Idle, TaskState, Op, Step, Holding
  <2> QED  BY <1>8, <2>1, <2>2, GoTyped DEF PurgeRead, TypeOK, dbVars, lkVars
<1> QED  BY <1>1, <1>2, <1>3, <1>4, <1>5, <1>6, <1>7, <1>8 DEF Arrives

LEMMA TypeContinues ==
  ASSUME TInv, NEW t \in Task, Continues(t)
  PROVE  TInv'
<1> USE DEF TInv
<1>1. task[t] \in TaskState
  BY DEF TypeOK
<1>2. CASE StartCheck(t) \/ AssertCapacityAvailable(t)
  <2>1. PICK a \in {"capacity", "launch"} :
               Done(t) \/ Go(t, [task[t] EXCEPT !.at = a])
    BY <1>2 DEF StartCheck, AssertCapacityAvailable
  <2> DEFINE s == [task[t] EXCEPT !.at = a]
  <2>2. s \in TaskState /\ InHand(s)
    BY <1>1, <2>1 DEF InHand, TaskState, Step, Holding
  <2> QED
    BY <1>2, <2>1, <2>2, GoTyped, DoneTyped
    DEF StartCheck, AssertCapacityAvailable, TypeOK, dbVars, lkVars
<1>3. ASSUME NEW e \in Egress, StartEgress(t, e)  PROVE TInv'
  <2> DEFINE s == [task[t] EXCEPT !.at = "insert", !.cur = e]
  <2>1. s \in TaskState /\ s.cur \in Egress /\ InHand(s)
    BY <1>1 DEF TaskState, Step, InHand
  <2>2. home' \in [Egress -> Room \cup {None}]
    BY <1>1, <1>3 DEF StartEgress, TypeOK, TaskState
  <2>3. "STARTING" \in EgressStatus
    BY DEF EgressStatus, InProgress
  <2> QED
    BY <1>3, <2>1, <2>2, <2>3, GoTyped, ReachesTyped DEF StartEgress, TypeOK, dbVars
<1>4. CASE StartInsert(t) \/ StopMark(t)
  BY <1>4, DoneTyped DEF StartInsert, StopMark, TypeOK, RowStatus, InProgress, lkVars
<1>5. CASE StopEgress(t)
  <2> DEFINE s == [task[t] EXCEPT !.at = "mark"]
  <2>1. task[t].cur \in Egress
    BY <1>5 DEF InHand, StopEgress, At, CursorOK, Holding
  <2>2. s \in TaskState /\ s.cur \in Egress /\ InHand(s)
    BY <1>1, <2>1 DEF TaskState, Step, InHand
  <2>3. "ENDING" \in EgressStatus
    BY DEF EgressStatus, InProgress
  <2>4. CASE LiveKitStop(task[t].cur) /\ Go(t, s)
    BY <1>5, <2>1, <2>2, <2>3, <2>4, GoTyped, ReachesTyped
    DEF StopEgress, LiveKitStop, TypeOK, dbVars
  <2>5. CASE Done(t) /\ UNCHANGED lkVars
    BY <1>5, <2>5, DoneTyped DEF StopEgress, TypeOK, dbVars, lkVars
  <2> QED  BY <1>5, <2>4, <2>5 DEF StopEgress
<1>6. CASE ReconcileRead(t)
  <2>1. task[t].cur \in Egress
    BY <1>6 DEF InHand, ReconcileRead, CursorOK, Holding
  <2> QED  BY <1>1, <1>6, <2>1, ReconcileTyped DEF ReconcileRead, TypeOK, dbVars, lkVars
<1>7. CASE ReconcileUpdate(t)
  <2>1. task[t].cur \in Egress /\ task[t].snap \in EgressStatus \ {"LIMIT_REACHED"}
    BY <1>1, <1>7 DEF InHand, ReconcileUpdate, CursorOK, Holding, TaskState
  <2>2. RowStatusOf(task[t].snap) \in RowStatus
    BY <2>1 DEF RowStatusOf, EgressStatus, RowStatus, InProgress, Over, Final, Absent
  <2>3. /\ status' \in [Egress -> RowStatus]
        /\ s3Key' \in SUBSET Egress /\ aged' \in SUBSET Egress
    BY <1>7, <2>1, <2>2 DEF ReconcileUpdate, TypeOK
  <2>4. Return(t) /\ UNCHANGED <<room, lkVars, objects>>
    BY <1>7 DEF ReconcileUpdate
  <2> QED  BY <2>3, <2>4, ReturnTyped DEF TypeOK, lkVars
<1>8. CASE Lookup(t)
  <2>1. PICK e \in task[t].todo :
               \/ Go(t, [task[t] EXCEPT !.at = "lookup", !.cur = e,
                                        !.snap = egress[e], !.todo = task[t].todo \ {e}])
               \/ Go(t, [task[t] EXCEPT !.at = "missing", !.cur = e,
                                        !.todo = task[t].todo \ {e}])
               \/ Iterate(t, task[t].op, task[t].todo \ {e})
    BY <1>8 DEF Lookup
  <2>2. e \in Egress /\ task[t].todo \ {e} \in SUBSET Egress /\ task[t].op \in Op
    BY <1>1 DEF TaskState
  <2> DEFINE found == [task[t] EXCEPT !.at = "lookup", !.cur = e,
                                     !.snap = egress[e], !.todo = task[t].todo \ {e}]
             lost  == [task[t] EXCEPT !.at = "missing", !.cur = e,
                                     !.todo = task[t].todo \ {e}]
  <2>3. found \in TaskState /\ lost \in TaskState /\ InHand(found) /\ InHand(lost)
    BY <1>1, <2>2 DEF TaskState, Step, TypeOK, InHand
  <2>4. task' \in [Task -> TaskState] /\ CursorOK'
    BY <2>1, <2>2, <2>3, GoTyped, IterateTyped DEF TypeOK
  <2> QED  BY <1>8, <2>4 DEF Lookup, TypeOK, dbVars, lkVars
<1>9. CASE FailMissing(t)
  BY <1>9, ReturnTyped DEF FailMissing, TypeOK, RowStatus, Final, lkVars
<1>10. CASE PurgeObject(t)
  <2>1. PICK e \in task[t].todo :
               /\ objects' \in SUBSET Egress
               /\ Go(t, [task[t] EXCEPT !.at = "delete", !.cur = e,
                                        !.todo = task[t].todo \ {e}])
    BY <1>10 DEF PurgeObject, TypeOK
  <2> DEFINE s == [task[t] EXCEPT !.at = "delete", !.cur = e, !.todo = task[t].todo \ {e}]
  <2>2. s \in TaskState /\ s.cur \in Egress /\ InHand(s)
    BY <1>1 DEF TaskState, Step, InHand
  <2> QED  BY <1>10, <2>1, <2>2, GoTyped DEF PurgeObject, TypeOK, dbVars, lkVars
<1>11. CASE RemoveObject(t)
  <2> DEFINE s == [task[t] EXCEPT !.at = "delete"]
  <2>1. s \in TaskState /\ s.cur \in Egress /\ InHand(s)
    BY <1>1, <1>11 DEF InHand, RemoveObject, At, TaskState, Step, CursorOK, Holding
  <2> QED  BY <1>11, <2>1, GoTyped DEF RemoveObject, TypeOK, dbVars, lkVars
<1>12. CASE DeleteRow(t)
  <2>1. task' \in [Task -> TaskState] /\ CursorOK'
    BY <1>12, ReturnTyped, DoneTyped DEF DeleteRow
  <2>2. status' \in [Egress -> RowStatus]
    BY <1>12 DEF DeleteRow, TypeOK, RowStatus, Absent
  <2> QED  BY <1>12, <2>1, <2>2 DEF DeleteRow, TypeOK, lkVars
<1>13. CASE RoomFinishedScan(t)
  <2>1. task[t].op \in Op /\ InProgressOf(task[t].room) \in SUBSET Egress
    BY <1>1 DEF TaskState, InProgressOf, RowsOf
  <2> QED  BY <1>13, <2>1, IterateTyped DEF RoomFinishedScan, TypeOK, dbVars, lkVars
<1>14. CASE RoomFinishedStop(t)
  <2>1. PICK e \in task[t].todo :
               /\ LiveKitStop(e) \/ UNCHANGED lkVars
               /\ Iterate(t, task[t].op, task[t].todo \ {e})
    BY <1>14 DEF RoomFinishedStop
  <2>2. e \in Egress /\ task[t].todo \ {e} \in SUBSET Egress /\ task[t].op \in Op
    BY <1>1 DEF TaskState
  <2>3. "ENDING" \in EgressStatus
    BY DEF EgressStatus, InProgress
  <2>4. task' \in [Task -> TaskState] /\ CursorOK'
    BY <2>1, <2>2, IterateTyped
  <2> QED
    BY <1>14, <2>1, <2>2, <2>3, <2>4, ReachesTyped
    DEF RoomFinishedStop, LiveKitStop, TypeOK, dbVars, lkVars
<1>15. CASE RoomRemoveScan(t) \/ RoomRemoveObject(t)
  <2>1. PICK a \in {"loop", task[t].at}, S \in SUBSET Egress :
               Go(t, [task[t] EXCEPT !.at = a, !.todo = S])
    <3>1. CASE RoomRemoveScan(t)
      BY <3>1 DEF RoomRemoveScan, RowsOf
    <3>2. CASE RoomRemoveObject(t)
      <4>1. PICK e \in task[t].todo : Go(t, [task[t] EXCEPT !.todo = task[t].todo \ {e}])
        BY <3>2 DEF RoomRemoveObject
      <4>2. /\ task[t].todo \ {e} \in SUBSET Egress
            /\ [task[t] EXCEPT !.todo = task[t].todo \ {e}]
                 = [task[t] EXCEPT !.at = task[t].at, !.todo = task[t].todo \ {e}]
        BY <1>1 DEF TaskState
      <4> QED  BY <4>1, <4>2
    <3> QED  BY <1>15, <3>1, <3>2
  <2> DEFINE s == [task[t] EXCEPT !.at = a, !.todo = S]
  <2>2. task[t].at \in Step /\ InHand(task[t])
    BY <1>1 DEF InHand, TaskState, CursorOK
  <2>3. s \in TaskState /\ InHand(s)
    BY <1>1, <2>2 DEF InHand, TaskState, Step, Holding
  <2>4. objects' \in SUBSET Egress
    BY <1>15 DEF RoomRemoveScan, RoomRemoveObject, TypeOK
  <2> QED
    BY <1>15, <2>1, <2>3, <2>4, GoTyped
    DEF RoomRemoveScan, RoomRemoveObject, TypeOK, dbVars, lkVars
<1>16. CASE RoomRemoveRow(t)
  BY <1>16, DoneTyped DEF RoomRemoveRow, TypeOK, RoomStatus, RowStatus, Absent, lkVars
<1> QED
  BY <1>2, <1>3, <1>4, <1>5, <1>6, <1>7, <1>8, <1>9, <1>10, <1>11, <1>12, <1>13, <1>14,
     <1>15, <1>16 DEF Continues

LEMMA TypeErrs ==
  ASSUME TInv, NEW t \in Task, Errs(t)
  PROVE  TInv'
<1>1. task[t].op \in Op /\ \A e : task[t].todo \ {e} \in SUBSET Egress
  BY DEF TInv, TypeOK, TaskState
<1>2. task' \in [Task -> TaskState] /\ CursorOK'
  BY <1>1, DoneTyped, IterateTyped
  DEF Errs, LookupFails, PurgeObjectFails, RemoveObjectFails, LiveKitUnreachable
<1> QED
  BY <1>2 DEF Errs, LookupFails, PurgeObjectFails, RemoveObjectFails, LiveKitUnreachable,
              TInv, TypeOK, dbVars, lkVars

LEMMA TypeCron ==
  ASSUME TInv, CronRead
  PROVE  TInv'
<1> DEFINE stuck == {e \in Egress : status[e] \in InProgress /\ e \in aged}
           s == [Idle EXCEPT !.op = "cron", !.at = "loop", !.todo = stuck]
<1>1. s \in TaskState /\ InHand(s)
  BY IdleTyped DEF InHand, Idle, TaskState, Op, Step, Holding
<1>2. Cron \in Task
  BY DEF Task
<1> QED  BY <1>1, <1>2, GoTyped DEF CronRead, TInv, TypeOK, dbVars, lkVars

LEMMA TypeStep == TInv /\ [Next]_vars => TInv'
<1> SUFFICES ASSUME TInv, [Next]_vars  PROVE TInv'
  OBVIOUS
<1>1. CASE UNCHANGED vars
  BY <1>1 DEF InHand, vars, dbVars, lkVars, TInv, TypeOK, CursorOK
<1>2. CASE Next
  BY <1>2, TypeEnvironment, TypeCron, TypeArrives, TypeContinues, TypeErrs DEF Next
<1> QED  BY <1>1, <1>2

(* Every variable of Recordings keeps its type, and a handler suspended on  *)
(* a call about a recording has that recording in hand.                     *)
THEOREM TypeCorrect == Spec => []TypeOK
<1>1. TInv => TypeOK
  BY DEF TInv
<1> QED  BY TypeInit, TypeStep, <1>1, PTL DEF Spec


-----------------------------------------------------------------------------
(* The inductive invariant.  What a handler read before its last await is   *)
(* stale; Sound says what of it still holds.                                *)

StoresAgree ==
    /\ \A e \in objects   : egress[e] \in {"COMPLETE", "LIMIT_REACHED"}
    /\ \A e \in forgotten : egress[e] \in Over
    /\ \A e \in s3Key     : egress[e] = "COMPLETE"
    /\ \A h \in egressHooks : h[2] \in Over => egress[h[1]] = h[2]

(* For a handler c, against the egresses eg, those forgotten fo, the        *)
(* objects ob and the rows that have a key.                                 *)
Sound(c, eg, fo, ob, keys) ==
    /\ c.at \in {"lookup", "update"} /\ c.snap \in Over => eg[c.cur] = c.snap
    /\ c.at = "missing" => c.cur \in fo
    /\ c.at = "unlink"  => eg[c.cur] \in Over
    /\ c.at = "delete"  => eg[c.cur] \in Over /\ (c.cur \in ob => c.cur \in fo)
    /\ c.op = "purge"   => c.todo \subseteq keys

TasksSound == \A t \in Task : Sound(task[t], egress, forgotten, objects, s3Key)

IInv ==
    /\ TInv
    /\ StoresAgree
    /\ FinalAgrees
    /\ DeletedIsOver
    /\ NoOrphanObject
    /\ TasksSound

(* What every step does to the stores.                                      *)
Stable ==
    /\ \A e \in Egress : egress[e] \in Over => egress'[e] = egress[e]
    /\ forgotten \subseteq forgotten'
    /\ s3Key \subseteq s3Key'
    /\ \A e \in objects' \ objects : egress[e] \notin Over

LEMMA IdleSound ==
  ASSUME NEW eg, NEW fo, NEW ob, NEW keys
  PROVE  Sound(Idle, eg, fo, ob, keys)
  BY DEF Sound, Idle

(* A handler that does not move stays sound.                                *)
LEMMA SoundStable ==
  ASSUME TypeOK, Stable, NEW c \in TaskState, c.at \in Holding => c.cur \in Egress,
         Sound(c, egress, forgotten, objects, s3Key)
  PROVE  Sound(c, egress', forgotten', objects', s3Key')
  BY DEF InHand, Sound, Stable, Holding

(* So only the record of the handler that moves has to be looked at.        *)
LEMMA GoSound ==
  ASSUME IInv, Stable, NEW t \in Task, NEW s, Go(t, s),
         Sound(s, egress', forgotten', objects', s3Key')
  PROVE  TasksSound'
<1> SUFFICES ASSUME NEW u \in Task
             PROVE  Sound(task'[u], egress', forgotten', objects', s3Key')
  BY DEF TasksSound
<1>1. task \in [Task -> TaskState]
  BY DEF IInv, TInv, TypeOK
<1>2. CASE u = t
  BY <1>1, <1>2 DEF Go
<1>3. CASE u # t
  <2>1. task'[u] = task[u] /\ task[u] \in TaskState
    BY <1>1, <1>3 DEF Go
  <2>2. /\ task[u].at \in Holding => task[u].cur \in Egress
        /\ Sound(task[u], egress, forgotten, objects, s3Key)
    BY DEF InHand, IInv, TInv, CursorOK, TasksSound
  <2> QED  BY <2>1, <2>2, SoundStable DEF IInv, TInv
<1> QED  BY <1>2, <1>3

LEMMA DoneSound ==
  ASSUME IInv, Stable, NEW t \in Task, Done(t)
  PROVE  TasksSound'
<1>1. Sound(Idle, egress', forgotten', objects', s3Key')
  BY IdleSound
<1> QED  BY <1>1, GoSound DEF Done

LEMMA IterateSound ==
  ASSUME IInv, Stable, NEW t \in Task, NEW op \in Op, NEW S \in SUBSET Egress,
         Iterate(t, op, S), op = "purge" => S \subseteq s3Key
  PROVE  TasksSound'
<1> DEFINE s == [Idle EXCEPT !.op = op, !.at = "loop", !.todo = S]
<1>1. Sound(s, egress', forgotten', objects', s3Key')
  BY DEF Sound, Idle, Stable
<1>2. CASE S = {}
  BY <1>2, DoneSound DEF Iterate, Done
<1>3. CASE S # {}
  BY <1>1, <1>3, GoSound DEF Iterate
<1> QED  BY <1>2, <1>3

LEMMA ReturnSound ==
  ASSUME IInv, Stable, NEW t \in Task, Return(t)
  PROVE  TasksSound'
<1>1. task[t].op \in Op /\ task[t].todo \in SUBSET Egress
  BY DEF IInv, TInv, TypeOK, TaskState
<1>2. task[t].op = "purge" => task[t].todo \subseteq s3Key
  BY DEF IInv, TasksSound, Sound
<1> QED  BY <1>1, <1>2, IterateSound DEF Return

LEMMA ReconcileSound ==
  ASSUME IInv, Stable, NEW t \in Task, NEW c \in TaskState, c.cur \in Egress,
         c.snap \in Over => egress[c.cur] = c.snap,
         c.op = "purge" => c.todo \subseteq s3Key,
         Reconcile(t, c)
  PROVE  TasksSound'
<1> DEFINE s == [c EXCEPT !.at = "update",
                          !.stamp = (c.snap = "ACTIVE" /\ status[c.cur] = "STARTING")]
<1>1. Sound(s, egress', forgotten', objects', s3Key')
  <2>1. /\ s.at = "update" /\ s.snap = c.snap /\ s.cur = c.cur
        /\ s.op = c.op /\ s.todo = c.todo
    BY DEF TaskState
  <2> QED  BY <2>1 DEF Sound, Stable
<1>2. CASE Go(t, s)
  BY <1>1, <1>2, GoSound
<1>3. CASE Iterate(t, c.op, c.todo)
  <2>1. c.op \in Op /\ c.todo \in SUBSET Egress
    BY DEF TaskState
  <2> QED  BY <2>1, <1>3, IterateSound
<1> QED  BY <1>2, <1>3 DEF Reconcile

(* The properties of the stores survive a step that touches no row.         *)
RowsUnchanged == status' = status /\ s3Key' = s3Key

LEMMA StoresStable ==
  ASSUME IInv, TInv', Stable, RowsUnchanged, StoresAgree'
  PROVE  (FinalAgrees /\ DeletedIsOver /\ NoOrphanObject)'
  BY DEF IInv, TInv, TypeOK, Stable, RowsUnchanged, StoresAgree, FinalAgrees, DeletedIsOver,
         NoOrphanObject, Over

LEMMA Untouched ==
  ASSUME IInv, UNCHANGED <<dbVars, lkVars, objects>>
  PROVE  /\ Stable /\ RowsUnchanged
         /\ (StoresAgree /\ FinalAgrees /\ DeletedIsOver /\ NoOrphanObject)'
  BY DEF IInv, Stable, RowsUnchanged, StoresAgree, FinalAgrees, DeletedIsOver, NoOrphanObject,
         dbVars, lkVars

-----------------------------------------------------------------------------
(* The invariant is inductive: one case per action.                         *)

LEMMA InitSound == Init => IInv
<1> SUFFICES ASSUME Init  PROVE IInv
  OBVIOUS
<1>1. TasksSound
  BY IdleSound DEF Init, TasksSound
<1>2. StoresAgree /\ FinalAgrees /\ DeletedIsOver /\ NoOrphanObject
  BY DEF Init, StoresAgree, FinalAgrees, DeletedIsOver, NoOrphanObject
<1> QED  BY <1>1, <1>2, TypeInit DEF IInv

(* An egress that is not over moves to s, and the file of a complete one is *)
(* uploaded.                                                                *)
LEMMA ReachesSound ==
  ASSUME IInv, NEW e \in Egress, NEW s \in EgressStatus, Reaches(e, s), Running(e) \/ egress[e] = "NONE",
         UNCHANGED <<forgotten, s3Key>>,
         objects' = objects \/ (s \in {"COMPLETE", "LIMIT_REACHED"} /\ objects' = objects \cup {e})
  PROVE  Stable /\ StoresAgree'
<1>1. egress[e] \notin Over
  BY DEF Running, InProgress, Over
<1>2. /\ egress' = [egress EXCEPT ![e] = s] /\ egress \in [Egress -> EgressStatus]
      /\ egressHooks' = egressHooks \cup {<<e, s>>}
      /\ egressHooks \in SUBSET (Egress \X EgressStatus)
      /\ objects \in SUBSET Egress /\ forgotten \in SUBSET Egress /\ s3Key \in SUBSET Egress
  BY DEF Reaches, IInv, TInv, TypeOK
<1>3. Stable
  BY <1>1, <1>2 DEF Stable
<1>4. (\A f \in objects : egress[f] \in {"COMPLETE", "LIMIT_REACHED"})'
  BY <1>1, <1>2 DEF IInv, StoresAgree, Over
<1>5. (\A f \in forgotten : egress[f] \in Over)' /\ (\A f \in s3Key : egress[f] = "COMPLETE")'
  BY <1>1, <1>2 DEF IInv, StoresAgree, Over
<1>6. (\A h \in egressHooks : h[2] \in Over => egress[h[1]] = h[2])'
  BY <1>1, <1>2 DEF IInv, StoresAgree
<1> QED  BY <1>3, <1>4, <1>5, <1>6 DEF StoresAgree

LEMMA KeepTasks ==
  ASSUME IInv, Stable, task' = task
  PROVE  TasksSound'
<1> SUFFICES ASSUME NEW t \in Task
             PROVE  Sound(task[t], egress', forgotten', objects', s3Key')
  BY DEF TasksSound
<1>1. /\ task[t] \in TaskState
      /\ task[t].at \in Holding => task[t].cur \in Egress
      /\ Sound(task[t], egress, forgotten, objects, s3Key)
  BY DEF InHand, IInv, TInv, TypeOK, CursorOK, TasksSound
<1> QED  BY <1>1, SoundStable DEF IInv, TInv

LEMMA EnvironmentSound ==
  ASSUME IInv, TInv', Environment
  PROVE  IInv'
<1>1. ASSUME NEW e \in Egress, EgressProgress(e)  PROVE IInv'
  <2>1. PICK s \in EgressStatus :
             /\ Reaches(e, s)
             /\ objects' = objects \/ (s \in {"COMPLETE", "LIMIT_REACHED"} /\ objects' = objects \cup {e})
    BY <1>1 DEF EgressProgress, EgressStatus, InProgress, Over
  <2>2. Running(e)
    BY <1>1 DEF EgressProgress, Running, InProgress
  <2>3. UNCHANGED <<dbVars, forgotten, task>>
    BY <1>1 DEF EgressProgress
  <2>4. Stable /\ StoresAgree' /\ RowsUnchanged
    BY <2>1, <2>2, <2>3, ReachesSound DEF dbVars, RowsUnchanged
  <2> QED  BY <2>3, <2>4, StoresStable, KeepTasks DEF IInv
<1>2. ASSUME NEW e \in Egress, EgressForgotten(e)  PROVE IInv'
  <2>1. /\ egress' = egress /\ egressHooks' = egressHooks /\ objects' = objects
        /\ UNCHANGED <<status, s3Key, task>>
        /\ forgotten' = forgotten \cup {e} /\ egress[e] \in Over
    BY <1>2 DEF EgressForgotten, dbVars
  <2>2. Stable /\ StoresAgree' /\ RowsUnchanged
    BY <2>1 DEF IInv, Stable, StoresAgree, RowsUnchanged
  <2> QED  BY <2>1, <2>2, StoresStable, KeepTasks DEF IInv
<1>3. ASSUME UNCHANGED <<status, s3Key, egress, forgotten, egressHooks, objects, task>>
      PROVE IInv'
  <2>1. Stable /\ StoresAgree' /\ RowsUnchanged
    BY <1>3 DEF IInv, Stable, StoresAgree, RowsUnchanged
  <2> QED  BY <1>3, <2>1, StoresStable, KeepTasks DEF IInv
<1>4. ASSUME NEW e \in Egress, RowAges(e)  PROVE IInv'
  BY <1>3, <1>4 DEF RowAges, lkVars
<1>5. ASSUME NEW r \in Room, RoomFinishes(r) \/ RoomStarted(r) \/ RoomClosed(r)  PROVE IInv'
  BY <1>3, <1>5 DEF RoomFinishes, RoomStarted, RoomClosed, dbVars, lkVars
<1>6. CASE Restart
  <2>1. UNCHANGED <<dbVars, lkVars, objects>> /\ task' = [t \in Task |-> Idle]
    BY <1>6 DEF Restart
  <2>2. TasksSound'
    BY <2>1, IdleSound DEF TasksSound
  <2> QED  BY <2>1, <2>2, Untouched DEF IInv
<1> QED  BY <1>1, <1>2, <1>4, <1>5, <1>6 DEF Environment

(* A step that only moves a handler.                                        *)
LEMMA OnlyTask ==
  ASSUME IInv, TInv', UNCHANGED <<dbVars, lkVars, objects>>, Stable => TasksSound'
  PROVE  IInv'
  BY Untouched DEF IInv

LEMMA CronSound ==
  ASSUME IInv, TInv', CronRead
  PROVE  IInv'
<1> DEFINE stuck == {e \in Egress : status[e] \in InProgress /\ e \in aged}
           s == [Idle EXCEPT !.op = "cron", !.at = "loop", !.todo = stuck]
<1>1. Sound(s, egress', forgotten', objects', s3Key')
  BY DEF Sound, Idle
<1>2. Cron \in Task /\ Go(Cron, s) /\ UNCHANGED <<dbVars, lkVars, objects>>
  BY DEF Task, CronRead
<1> QED  BY <1>1, <1>2, OnlyTask, GoSound

LEMMA ErrsSound ==
  ASSUME IInv, TInv', NEW t \in Task, Errs(t)
  PROVE  IInv'
<1>1. /\ task[t].op \in Op /\ \A e : task[t].todo \ {e} \in SUBSET Egress
      /\ task[t].op = "purge" => task[t].todo \subseteq s3Key
  BY DEF IInv, TInv, TypeOK, TaskState, TasksSound, Sound
<1>2. UNCHANGED <<dbVars, lkVars, objects>>
  BY DEF Errs, LookupFails, PurgeObjectFails, RemoveObjectFails, LiveKitUnreachable
<1>3. Done(t) \/ \E e \in Egress : Iterate(t, task[t].op, task[t].todo \ {e})
  <2>1. task[t].todo \subseteq Egress
    BY DEF IInv, TInv, TypeOK, TaskState
  <2> QED
    BY <2>1 DEF Errs, LookupFails, PurgeObjectFails, RemoveObjectFails, LiveKitUnreachable
<1>4. ASSUME Stable  PROVE TasksSound'
  <2>1. ASSUME NEW e \in Egress, Iterate(t, task[t].op, task[t].todo \ {e})  PROVE TasksSound'
    <3>1. task[t].op = "purge" => task[t].todo \ {e} \subseteq s3Key
      BY <1>1
    <3> QED  BY <1>1, <1>4, <2>1, <3>1, IterateSound
  <2> QED  BY <1>3, <1>4, <2>1, DoneSound
<1> QED  BY <1>2, <1>4, OnlyTask

LEMMA ArrivesSound ==
  ASSUME IInv, TInv', NEW t \in Task, Arrives(t)
  PROVE  IInv'
<1> DEFINE same == UNCHANGED <<dbVars, lkVars, objects>>
<1>1. ASSUME NEW r \in Room, StartRequest(t, r) \/ RoomRemoveRequest(t, r)  PROVE IInv'
  <2>1. PICK c \in {"start", "destroy"}, a \in {"check", "scan"} :
               Go(t, [Idle EXCEPT !.op = c, !.at = a, !.room = r]) /\ same
    BY <1>1 DEF StartRequest, RoomRemoveRequest
  <2> DEFINE s == [Idle EXCEPT !.op = c, !.at = a, !.room = r]
  <2>2. s.op = c /\ s.at = a
    BY DEF Idle
  <2>3. Sound(s, egress', forgotten', objects', s3Key')
    BY <2>2 DEF Sound
  <2> QED  BY <2>1, <2>3, OnlyTask, GoSound
<1>2. ASSUME NEW r \in Room, ListRead(t, r)  PROVE IInv'
  <2>1. PICK S : Go(t, [Idle EXCEPT !.op = "list", !.at = "loop", !.todo = S]) /\ same
    BY <1>2 DEF ListRead
  <2> DEFINE s == [Idle EXCEPT !.op = "list", !.at = "loop", !.todo = S]
  <2>2. Sound(s, egress', forgotten', objects', s3Key')
    BY DEF Sound, Idle
  <2> QED  BY <2>1, <2>2, OnlyTask, GoSound
<1>3. ASSUME NEW r \in Room, RoomFinishedHook(t, r)  PROVE IInv'
  <2> DEFINE s == [Idle EXCEPT !.op = "finish", !.at = "scan", !.room = r]
  <2>1. Sound(s, egress', forgotten', objects', s3Key')
    BY DEF Sound, Idle
  <2>2. Stable /\ StoresAgree' /\ RowsUnchanged /\ Go(t, s)
    BY <1>3 DEF RoomFinishedHook, IInv, Stable, StoresAgree, RowsUnchanged
  <2> QED  BY <2>1, <2>2, GoSound, StoresStable DEF IInv
<1>4. ASSUME NEW e \in Egress, StopRequest(t, e)  PROVE IInv'
  <2> DEFINE s == [Idle EXCEPT !.op = "stop", !.at = "halt", !.cur = e]
  <2>1. Sound(s, egress', forgotten', objects', s3Key')
    BY DEF Sound, Idle
  <2> QED  BY <1>4, <2>1, OnlyTask, GoSound DEF StopRequest
<1>5. ASSUME NEW e \in Egress, RemoveRequest(t, e)  PROVE IInv'
  <2> DEFINE s == [Idle EXCEPT !.op = "remove", !.cur = e,
                              !.at = IF e \in s3Key THEN "unlink" ELSE "delete"]
  <2>1. same /\ Go(t, s) /\ status[e] \in Final \cup {"NONE"} /\ HasRow(e)
    BY <1>5 DEF RemoveRequest, HasRow, IInv, TInv, TypeOK, RowStatus, Absent
  <2>2. egress[e] \in Over
    BY <2>1 DEF HasRow, Absent, Final, IInv, FinalAgrees, StoresAgree, Over
  <2>3. e \notin s3Key /\ e \in objects => e \in forgotten
    BY <2>1 DEF HasRow, Absent, Final, IInv, FinalAgrees, StoresAgree
  <2>4. /\ s.op = "remove" /\ s.cur = e
        /\ s.at = IF e \in s3Key THEN "unlink" ELSE "delete"
    BY DEF Idle
  <2>5. Sound(s, egress, forgotten, objects, s3Key)
    BY <2>2, <2>3, <2>4 DEF Sound
  <2>6. Sound(s, egress', forgotten', objects', s3Key')
    BY <2>1, <2>5 DEF dbVars, lkVars
  <2> QED  BY <2>1, <2>6, OnlyTask, GoSound
<1>6. ASSUME NEW h \in egressHooks, EgressHook(t, h)  PROVE IInv'
  <2> DEFINE s == [Idle EXCEPT !.op = "hook", !.cur = h[1], !.snap = h[2]]
  <2>1. h[1] \in Egress /\ h[2] \in EgressStatus /\ (h[2] \in Over => egress[h[1]] = h[2])
    BY DEF IInv, TInv, TypeOK, StoresAgree
  <2>2. s \in TaskState /\ s.cur = h[1] /\ s.snap = h[2] /\ s.op = "hook"
    BY <2>1, IdleTyped DEF Idle, TaskState, Op, Step
  <2>3. Stable => TasksSound'
    BY <1>6, <2>1, <2>2, ReconcileSound DEF EgressHook
  <2> QED  BY <1>6, <2>3, OnlyTask DEF EgressHook
<1>7. CASE PurgeRead(t)
  <2>1. PICK S \in SUBSET {e \in Egress : status[e] = "READY"} :
               Go(t, [Idle EXCEPT !.op = "purge", !.at = "loop", !.todo = S]) /\ same
    BY <1>7 DEF PurgeRead
  <2> DEFINE s == [Idle EXCEPT !.op = "purge", !.at = "loop", !.todo = S]
  <2>2. S \subseteq s3Key /\ s3Key' = s3Key
    BY <2>1 DEF IInv, FinalAgrees, dbVars
  <2>3. s.op = "purge" /\ s.at = "loop" /\ s.todo = S
    BY DEF Idle
  <2>4. Sound(s, egress', forgotten', objects', s3Key')
    BY <2>2, <2>3 DEF Sound
  <2> QED  BY <2>1, <2>4, OnlyTask, GoSound
<1> QED  BY <1>1, <1>2, <1>3, <1>4, <1>5, <1>6, <1>7 DEF Arrives

(* A row is written by the handler that moves: what it must know of it.     *)
LEMMA RowWritten ==
  ASSUME IInv, TInv', Stable, NEW e \in Egress, NEW v \in RowStatus,
         status' = [status EXCEPT ![e] = v] \/ status' = status,
         UNCHANGED lkVars, objects' \subseteq objects, StoresAgree', TasksSound',
         v = "READY"   => egress[e] = "COMPLETE" /\ e \in s3Key',
         v = "FAILED"  => egress[e] = "FAILED" \/ e \in forgotten,
         v = "DELETED" => egress[e] \in Over /\ (e \in objects => e \in forgotten)
  PROVE  IInv'
<1>1. /\ status \in [Egress -> RowStatus]
      /\ \A f \in Egress : status'[f] = status[f] \/ (f = e /\ status'[f] = v)
  BY DEF IInv, TInv, TypeOK
<1>2. egress' = egress /\ forgotten' = forgotten /\ s3Key \subseteq s3Key'
  BY DEF lkVars, Stable
<1> QED  BY <1>1, <1>2 DEF IInv, FinalAgrees, DeletedIsOver, NoOrphanObject

LEMMA ContinuesSound ==
  ASSUME IInv, TInv', NEW t \in Task, Continues(t)
  PROVE  IInv'
<1> DEFINE same == UNCHANGED <<dbVars, lkVars, objects>>
<1>0. /\ task[t] \in TaskState /\ task[t].op \in Op /\ task[t].todo \in SUBSET Egress
      /\ InHand(task[t]) /\ (task[t].at \in Holding => task[t].cur \in Egress)
      /\ Sound(task[t], egress, forgotten, objects, s3Key)
  BY DEF InHand, IInv, TInv, TypeOK, CursorOK, TaskState, TasksSound
<1>1. CASE StartCheck(t) \/ AssertCapacityAvailable(t)
  <2>1. PICK a \in {"capacity", "launch"} :
               Done(t) \/ (Go(t, [task[t] EXCEPT !.at = a]) /\ task[t].op = "start")
    BY <1>1 DEF StartCheck, AssertCapacityAvailable, At
  <2>2. task[t].op = "start" => Sound([task[t] EXCEPT !.at = a], egress', forgotten', objects', s3Key')
    BY <1>0 DEF Sound, TaskState
  <2>3. same
    BY <1>1 DEF StartCheck, AssertCapacityAvailable
  <2> QED  BY <2>1, <2>2, <2>3, OnlyTask, GoSound, DoneSound
<1>2. ASSUME NEW e \in Egress, StartEgress(t, e)  PROVE IInv'
  <2> DEFINE s == [task[t] EXCEPT !.at = "insert", !.cur = e]
  <2>1. /\ Reaches(e, "STARTING") /\ egress[e] = "NONE" /\ Go(t, s) /\ task[t].op = "start"
        /\ UNCHANGED <<dbVars, forgotten, objects>>
    BY <1>2 DEF StartEgress, At
  <2>2. "STARTING" \in EgressStatus
    BY DEF EgressStatus, InProgress
  <2>3. Stable /\ StoresAgree' /\ RowsUnchanged
    BY <2>1, <2>2, ReachesSound DEF dbVars, RowsUnchanged
  <2>4. Sound(s, egress', forgotten', objects', s3Key')
    BY <1>0, <2>1 DEF Sound, TaskState
  <2> QED  BY <2>1, <2>3, <2>4, GoSound, StoresStable DEF IInv
<1>3. CASE StartInsert(t) \/ StopMark(t)
  <2>1. PICK v \in {"STARTING", "ENDING"} :
               \/ status' = [status EXCEPT ![task[t].cur] = v]
               \/ status' = status
    BY <1>3 DEF StartInsert, StopMark
  <2>2. task[t].cur \in Egress
    BY <1>0, <1>3 DEF InHand, StartInsert, StopMark, At, Holding
  <2>3. Done(t) /\ UNCHANGED <<lkVars, s3Key, objects>>
    BY <1>3 DEF StartInsert, StopMark
  <2>4. Stable /\ StoresAgree'
    BY <2>3 DEF Stable, StoresAgree, IInv, lkVars
  <2>5. v \in RowStatus
    BY DEF RowStatus, InProgress
  <2> QED  BY <2>1, <2>2, <2>3, <2>4, <2>5, DoneSound, RowWritten
<1>4. CASE StopEgress(t)
  <2> DEFINE s == [task[t] EXCEPT !.at = "mark"]
             e == task[t].cur
  <2>1. CASE Done(t) /\ UNCHANGED lkVars
    <3>1. same
      BY <1>4, <2>1 DEF StopEgress
    <3> QED  BY <2>1, <3>1, OnlyTask, DoneSound
  <2>2. CASE LiveKitStop(e) /\ Go(t, s)
    <3>1. e \in Egress /\ task[t].op = "stop" /\ UNCHANGED <<dbVars, objects>>
      BY <1>0, <1>4 DEF InHand, StopEgress, At, Holding
    <3>2. Reaches(e, "ENDING") /\ Running(e) /\ forgotten' = forgotten
      BY <2>2 DEF LiveKitStop, Stoppable, Running, InProgress
    <3>3. "ENDING" \in EgressStatus
      BY DEF EgressStatus, InProgress
    <3>4. Stable /\ StoresAgree' /\ RowsUnchanged
      BY <3>1, <3>2, <3>3, ReachesSound DEF dbVars, RowsUnchanged
    <3>5. Sound(s, egress', forgotten', objects', s3Key')
      BY <1>0, <3>1 DEF Sound, TaskState
    <3> QED  BY <2>2, <3>4, <3>5, GoSound, StoresStable DEF IInv
  <2> QED  BY <1>4, <2>1, <2>2 DEF StopEgress
<1>5. CASE ReconcileRead(t)
  <2>1. /\ task[t].cur \in Egress /\ Reconcile(t, task[t]) /\ same
        /\ task[t].snap \in Over => egress[task[t].cur] = task[t].snap
        /\ task[t].op = "purge" => task[t].todo \subseteq s3Key
    BY <1>0, <1>5 DEF InHand, ReconcileRead, Holding, Sound
  <2>2. Stable => TasksSound'
    BY <1>0, <2>1, ReconcileSound
  <2> QED  BY <2>1, <2>2, OnlyTask
<1>6. CASE ReconcileUpdate(t)
  <2> DEFINE e == task[t].cur
             s == task[t].snap
  <2>1. /\ e \in Egress /\ s \in EgressStatus \ {"LIMIT_REACHED"}
        /\ s \in Over => egress[e] = s
        /\ Return(t) /\ UNCHANGED <<lkVars, objects>>
    BY <1>0, <1>6 DEF InHand, ReconcileUpdate, Holding, TaskState, Sound
  <2>2. \/ status' = [status EXCEPT ![e] = RowStatusOf(s)] /\ (s = "COMPLETE" => e \in s3Key')
        \/ status' = status
    BY <1>6 DEF ReconcileUpdate
  <2>3. s3Key' = s3Key \/ (s = "COMPLETE" /\ s3Key' = s3Key \cup {e})
    BY <1>6 DEF ReconcileUpdate
  <2>4. Stable /\ StoresAgree'
    BY <2>1, <2>3 DEF Stable, StoresAgree, IInv, lkVars, Over
  <2>5. TasksSound'
    BY <2>1, <2>4, ReturnSound
  <2>6. CASE status' = status
    <3>1. "STARTING" \in RowStatus
      BY DEF RowStatus, InProgress
    <3> QED  BY <2>1, <2>4, <2>5, <2>6, <3>1, RowWritten
  <2>7. CASE status' = [status EXCEPT ![e] = RowStatusOf(s)] /\ (s = "COMPLETE" => e \in s3Key')
    <3>1. /\ RowStatusOf(s) \in RowStatus /\ RowStatusOf(s) # "DELETED"
          /\ RowStatusOf(s) = "READY"  => s = "COMPLETE"
          /\ RowStatusOf(s) = "FAILED" => s = "FAILED"
      BY <2>1 DEF RowStatusOf, EgressStatus, RowStatus, InProgress, Over, Final, Absent
    <3>2. /\ RowStatusOf(s) = "READY"  => egress[e] = "COMPLETE" /\ e \in s3Key'
          /\ RowStatusOf(s) = "FAILED" => egress[e] = "FAILED"
      BY <2>1, <2>7, <3>1 DEF Over
    <3> QED  BY <2>1, <2>4, <2>5, <2>7, <3>1, <3>2, RowWritten
  <2> QED  BY <2>2, <2>6, <2>7
<1>7. CASE Lookup(t)
  <2>1. PICK e \in task[t].todo :
               \/ /\ Go(t, [task[t] EXCEPT !.at = "lookup", !.cur = e,
                                           !.snap = egress[e], !.todo = task[t].todo \ {e}])
               \/ /\ Go(t, [task[t] EXCEPT !.at = "missing", !.cur = e,
                                           !.todo = task[t].todo \ {e}])
                  /\ e \in forgotten
               \/ Iterate(t, task[t].op, task[t].todo \ {e})
    BY <1>7 DEF Lookup
  <2>2. same /\ task[t].op # "purge"
    BY <1>7 DEF Lookup
  <2> DEFINE found == [task[t] EXCEPT !.at = "lookup", !.cur = e,
                                     !.snap = egress[e], !.todo = task[t].todo \ {e}]
             lost  == [task[t] EXCEPT !.at = "missing", !.cur = e,
                                     !.todo = task[t].todo \ {e}]
  <2>3. Sound(found, egress, forgotten, objects, s3Key)
    BY <1>0, <2>2 DEF Sound, TaskState
  <2>4. e \in forgotten => Sound(lost, egress, forgotten, objects, s3Key)
    BY <1>0, <2>2 DEF Sound, TaskState
  <2>5. ASSUME Stable  PROVE TasksSound'
    <3>1. UNCHANGED <<egress, forgotten, objects, s3Key>> /\ task[t].todo \ {e} \in SUBSET Egress
      BY <1>0, <2>2 DEF dbVars, lkVars
    <3>2. CASE Go(t, found)
      BY <2>3, <2>5, <3>1, <3>2, GoSound
    <3>3. CASE Go(t, lost) /\ e \in forgotten
      BY <2>4, <2>5, <3>1, <3>3, GoSound
    <3>4. CASE Iterate(t, task[t].op, task[t].todo \ {e})
      BY <1>0, <2>2, <2>5, <3>1, <3>4, IterateSound
    <3> QED  BY <2>1, <3>2, <3>3, <3>4
  <2> QED  BY <2>2, <2>5, OnlyTask
<1>8. CASE FailMissing(t)
  <2> DEFINE e == task[t].cur
  <2>1. /\ e \in Egress /\ e \in forgotten /\ Return(t)
        /\ status' = [status EXCEPT ![e] = "FAILED"] \/ status' = status
        /\ UNCHANGED <<s3Key, lkVars, objects>>
    BY <1>0, <1>8 DEF InHand, FailMissing, Holding, Sound
  <2>2. Stable /\ StoresAgree'
    BY <2>1 DEF Stable, StoresAgree, IInv, lkVars
  <2>3. TasksSound' /\ "FAILED" \in RowStatus
    BY <2>1, <2>2, ReturnSound DEF RowStatus, Final
  <2> QED  BY <2>1, <2>2, <2>3, RowWritten
<1>9. CASE PurgeObject(t) \/ RemoveObject(t)
  <2>1. PICK e \in Egress, S \in SUBSET Egress :
          /\ Go(t, [task[t] EXCEPT !.at = "delete", !.cur = e, !.todo = S])
          /\ egress[e] \in Over /\ objects' = objects \ {e}
          /\ task[t].op = "purge" => S \subseteq s3Key
    <3>1. CASE PurgeObject(t)
      <4>1. PICK e \in task[t].todo :
              /\ Go(t, [task[t] EXCEPT !.at = "delete", !.cur = e, !.todo = task[t].todo \ {e}])
              /\ objects' = IF e \in s3Key THEN objects \ {e} ELSE objects
        BY <3>1 DEF PurgeObject
      <4>2. e \in s3Key /\ e \in Egress
        BY <1>0, <3>1 DEF PurgeObject, At, Sound
      <4>3. egress[e] \in Over
        BY <4>2 DEF IInv, StoresAgree, Over
      <4>4. task[t].todo \ {e} \in SUBSET Egress /\ (task[t].op = "purge" => task[t].todo \ {e} \subseteq s3Key)
        BY <1>0 DEF Sound
      <4> QED  BY <4>1, <4>2, <4>3, <4>4
    <3>2. CASE RemoveObject(t)
      <4>1. /\ task[t].cur \in Egress /\ egress[task[t].cur] \in Over /\ task[t].op = "remove"
            /\ objects' = objects \ {task[t].cur}
            /\ Go(t, [task[t] EXCEPT !.at = "delete"])
        BY <1>0, <3>2 DEF InHand, RemoveObject, At, Holding, Sound
      <4>2. [task[t] EXCEPT !.at = "delete"]
              = [task[t] EXCEPT !.at = "delete", !.cur = task[t].cur, !.todo = task[t].todo]
        BY <1>0 DEF TaskState
      <4> QED  BY <1>0, <4>1, <4>2
    <3> QED  BY <1>9, <3>1, <3>2
  <2> DEFINE s == [task[t] EXCEPT !.at = "delete", !.cur = e, !.todo = S]
  <2>2. UNCHANGED <<dbVars, lkVars>>
    BY <1>9 DEF PurgeObject, RemoveObject
  <2>3. Stable /\ StoresAgree' /\ RowsUnchanged
    BY <2>1, <2>2 DEF Stable, StoresAgree, RowsUnchanged, IInv, dbVars, lkVars
  <2>4. s.at = "delete" /\ s.cur = e /\ s.todo = S /\ s.op = task[t].op
    BY <1>0 DEF TaskState
  <2>5. Sound(s, egress', forgotten', objects', s3Key')
    BY <2>1, <2>2, <2>4 DEF Sound, dbVars, lkVars
  <2> QED  BY <2>1, <2>3, <2>5, GoSound, StoresStable DEF IInv
<1>10. CASE DeleteRow(t)
  <2> DEFINE e == task[t].cur
  <2>1. /\ e \in Egress /\ egress[e] \in Over /\ (e \in objects => e \in forgotten)
        /\ Return(t) \/ Done(t)
        /\ status' = [status EXCEPT ![e] = "DELETED"] \/ status' = status
        /\ UNCHANGED <<s3Key, lkVars, objects>>
    BY <1>0, <1>10 DEF InHand, DeleteRow, Holding, Sound
  <2>2. Stable /\ StoresAgree'
    BY <2>1 DEF Stable, StoresAgree, IInv, lkVars
  <2>3. TasksSound' /\ "DELETED" \in RowStatus
    BY <2>1, <2>2, ReturnSound, DoneSound DEF RowStatus, Absent
  <2> QED  BY <2>1, <2>2, <2>3, RowWritten
<1>11. CASE RoomFinishedScan(t)
  <2>1. /\ task[t].op = "finish" /\ InProgressOf(task[t].room) \in SUBSET Egress
        /\ Iterate(t, task[t].op, InProgressOf(task[t].room)) /\ same
    BY <1>11 DEF RoomFinishedScan, At, InProgressOf, RowsOf
  <2>2. Stable => TasksSound'
    BY <1>0, <2>1, IterateSound
  <2> QED  BY <2>1, <2>2, OnlyTask
<1>12. CASE RoomFinishedStop(t)
  <2>1. PICK e \in task[t].todo :
          /\ LiveKitStop(e) \/ UNCHANGED lkVars
          /\ Iterate(t, task[t].op, task[t].todo \ {e})
    BY <1>12 DEF RoomFinishedStop
  <2>2. /\ e \in Egress /\ task[t].todo \ {e} \in SUBSET Egress /\ task[t].op = "finish"
        /\ UNCHANGED <<dbVars, objects>>
    BY <1>0, <1>12 DEF RoomFinishedStop, At
  <2>3. Stable /\ StoresAgree' /\ RowsUnchanged
    <3>1. CASE LiveKitStop(e)
      <4>1. Reaches(e, "ENDING") /\ Running(e) /\ forgotten' = forgotten
        BY <3>1 DEF LiveKitStop, Stoppable, Running, InProgress
      <4>2. "ENDING" \in EgressStatus
        BY DEF EgressStatus, InProgress
      <4> QED  BY <2>2, <4>1, <4>2, ReachesSound DEF dbVars, RowsUnchanged
    <3>2. CASE UNCHANGED lkVars
      BY <2>2, <3>2, Untouched DEF IInv
    <3> QED  BY <2>1, <3>1, <3>2
  <2> QED  BY <1>0, <2>1, <2>2, <2>3, IterateSound, StoresStable DEF IInv
<1>13. CASE RoomRemoveScan(t) \/ RoomRemoveObject(t)
  <2>1. PICK S : Go(t, [task[t] EXCEPT !.at = "loop", !.todo = S])
    <3>1. CASE RoomRemoveScan(t)
      BY <3>1 DEF RoomRemoveScan
    <3>2. CASE RoomRemoveObject(t)
      <4>1. PICK e : Go(t, [task[t] EXCEPT !.todo = task[t].todo \ {e}]) /\ task[t].at = "loop"
        BY <3>2 DEF RoomRemoveObject, At
      <4>2. [task[t] EXCEPT !.todo = task[t].todo \ {e}]
              = [task[t] EXCEPT !.at = "loop", !.todo = task[t].todo \ {e}]
        BY <1>0, <4>1 DEF TaskState
      <4> QED  BY <4>1, <4>2
    <3> QED  BY <1>13, <3>1, <3>2
  <2> DEFINE s == [task[t] EXCEPT !.at = "loop", !.todo = S]
  <2>2. task[t].op = "destroy" /\ UNCHANGED <<dbVars, lkVars>> /\ objects' \subseteq objects
    BY <1>13 DEF RoomRemoveScan, RoomRemoveObject, At
  <2>3. Stable /\ StoresAgree' /\ RowsUnchanged
    BY <2>2 DEF Stable, StoresAgree, RowsUnchanged, IInv, dbVars, lkVars
  <2>4. Sound(s, egress', forgotten', objects', s3Key')
    BY <1>0, <2>2 DEF Sound, TaskState
  <2> QED  BY <2>1, <2>3, <2>4, GoSound, StoresStable DEF IInv
<1>14. CASE RoomRemoveRow(t)
  <2>1. /\ Done(t) /\ UNCHANGED <<s3Key, lkVars, objects>>
        /\ \A e \in Egress : status'[e] \in {"CASCADED", status[e]}
    BY <1>14 DEF RoomRemoveRow
  <2>2. Stable /\ StoresAgree'
    BY <2>1 DEF Stable, StoresAgree, IInv, lkVars
  <2>3. (FinalAgrees /\ DeletedIsOver /\ NoOrphanObject)'
    BY <2>1 DEF FinalAgrees, DeletedIsOver, NoOrphanObject, IInv, lkVars
  <2> QED  BY <2>1, <2>2, <2>3, DoneSound DEF IInv
<1> QED
  BY <1>1, <1>2, <1>3, <1>4, <1>5, <1>6, <1>7, <1>8, <1>9, <1>10, <1>11, <1>12, <1>13, <1>14
  DEF Continues

LEMMA InductiveStep == IInv /\ [Next]_vars => IInv'
<1> SUFFICES ASSUME IInv, [Next]_vars  PROVE IInv'
  OBVIOUS
<1>1. TInv'
  BY TypeStep DEF IInv
<1>2. CASE UNCHANGED vars
  <2>1. UNCHANGED <<dbVars, lkVars, objects>> /\ task' = task
    BY <1>2 DEF vars
  <2> QED  BY <1>1, <2>1, OnlyTask, KeepTasks
<1>3. CASE Next
  BY <1>1, <1>3, EnvironmentSound, CronSound, ArrivesSound, ContinuesSound, ErrsSound DEF Next
<1> QED  BY <1>2, <1>3

(* What a handler remembers across an await, and what the stores say of     *)
(* each other, hold in every reachable state.                               *)
THEOREM Inductive == Spec => []IInv
BY InitSound, InductiveStep, PTL DEF Spec

(* Whatever late, repeated or concurrent reconciliations there are, a final *)
(* row tells the truth about its egress.                                    *)
THEOREM FinalAgreement == Spec => []FinalAgrees
<1>1. IInv => FinalAgrees
  BY DEF IInv
<1> QED  BY Inductive, <1>1, PTL

(* remove() and the purge only ever delete the row of a finished egress.    *)
THEOREM DeletionAfterCapture == Spec => []DeletedIsOver
<1>1. IInv => DeletedIsOver
  BY DEF IInv
<1> QED  BY Inductive, <1>1, PTL

(* remove() and the purge leave no object behind the row they delete.       *)
THEOREM NoOrphans == Spec => []NoOrphanObject
<1>1. IInv => NoOrphanObject
  BY DEF IInv
<1> QED  BY Inductive, <1>1, PTL

=============================================================================
