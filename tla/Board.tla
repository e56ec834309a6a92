------------------------------- MODULE Board -------------------------------
(***************************************************************************)
(* The shared whiteboard: a panel opened for everybody by a flag of the    *)
(* server that each browser polls, edits broadcast by data messages, and a *)
(* snapshot a moderator saves after a rest.  A scene is a set of edits and *)
(* reconcileElements their union: an edit is an element at a version, and  *)
(* none is ever undone but by another.  Watchers are the viewers and the   *)
(* recorder's page, which draws nothing.                                   *)
(***************************************************************************)
EXTENDS Naturals, FiniteSets

CONSTANTS
  Drawers,       \* the moderators of the room
  Watchers,
  Edits,         \* each made once
  MaxSwitches,   \* bounds on the openings and closings,
  MaxMishaps     \*   and on the failed saves, the cuts and the reloads

ASSUME BoardAssumption ==
  Drawers \cap Watchers = {} /\ MaxSwitches \in Nat /\ MaxMishaps \in Nat

VARIABLES
  boardOpen,    \* whiteboardOpen, in the room's row
  saved,        \* the snapshot in the database
  panel,        \* panel[c]: the browser shows the panel
  poll,         \* poll[c]: the answer to its poll of boardOpen, a set of at most one
  scene,        \* scene[c]: what the panel of c draws
  api,          \* api[c]: excalidrawAPI is set, by this panel or by a former one
  load,         \* load[c]: its request of the snapshot: "none", "sent", "read", or
                \*   "former" when the answer will be drawn on the former panel
  answer,       \*   and the snapshot read for it
  inbound,      \* inbound[c]: the edits in messages on their way to c
  pending,      \* pending[m]: the scene at the last onChange of moderator m
  sent,         \* sent[m]: what m believes broadcast (lastSentVersions)
  saveTimer,    \* saveTimer[m]: a save is planned
  put,          \* put[m]: the scene of the save on its way, a set of at most one
  overdue,      \* overdue[m]: SAVE_MAX_WAIT_MS passed since the last save, or the mount
  saveFailed,   \* saveFailed[m]: the warning m sees
  drawn, switches, mishaps

boardVars == <<boardOpen, saved, panel, poll, api, scene, load, answer, inbound, pending, sent,
               saveTimer, put, overdue, saveFailed, drawn, switches, mishaps>>
boardServer == <<boardOpen, saved>>
boardPanel  == <<panel, poll, api>>
boardLoad   == <<load, answer>>
boardSave   == <<saveTimer, put, overdue, saveFailed>>
boardBounds == <<drawn, switches, mishaps>>

Clients == Drawers \cup Watchers

BoardTypeOK ==
  /\ boardOpen \in BOOLEAN
  /\ saved \subseteq Edits
  /\ panel \in [Clients -> BOOLEAN]
  /\ poll \in [Clients -> {{}, {TRUE}, {FALSE}}]
  /\ scene \in [Clients -> SUBSET Edits]
  /\ api \in [Clients -> BOOLEAN]
  /\ load \in [Clients -> {"none", "sent", "read", "former"}]
  /\ answer \in [Clients -> SUBSET Edits]
  /\ inbound \in [Clients -> SUBSET Edits]
  /\ pending \in [Drawers -> SUBSET Edits]
  /\ sent \in [Drawers -> SUBSET Edits]
  /\ saveTimer \in [Drawers -> BOOLEAN]
  /\ \A m \in Drawers : put[m] \subseteq SUBSET Edits /\ Cardinality(put[m]) <= 1
  /\ overdue \in [Drawers -> BOOLEAN]
  /\ saveFailed \in [Drawers -> BOOLEAN]
  /\ drawn \subseteq Edits
  /\ switches \in 0..MaxSwitches
  /\ mishaps \in 0..MaxMishaps

BoardInit ==
  /\ boardOpen = FALSE
  /\ saved = {}
  /\ panel = [c \in Clients |-> FALSE]
  /\ poll = [c \in Clients |-> {}]
  /\ scene = [c \in Clients |-> {}]
  /\ api = [c \in Clients |-> FALSE]
  /\ load = [c \in Clients |-> "none"]
  /\ answer = [c \in Clients |-> {}]
  /\ inbound = [c \in Clients |-> {}]
  /\ pending = [m \in Drawers |-> {}]
  /\ sent = [m \in Drawers |-> {}]
  /\ saveTimer = [m \in Drawers |-> FALSE]
  /\ put = [m \in Drawers |-> {}]
  /\ overdue = [m \in Drawers |-> FALSE]
  /\ saveFailed = [m \in Drawers |-> FALSE]
  /\ drawn = {}
  /\ switches = 0
  /\ mishaps = 0

Mishap == mishaps < MaxMishaps /\ mishaps' = mishaps + 1

-----------------------------------------------------------------------------
(* Opening and closing                                                      *)

\* handleSelectPanel, and setOpenState behind it.
OpenBoard ==
  /\ ~boardOpen
  /\ switches < MaxSwitches
  /\ switches' = switches + 1
  /\ boardOpen' = TRUE
  /\ UNCHANGED <<saved, boardPanel, scene, boardLoad, inbound, pending, sent, boardSave, drawn, mishaps>>

\* The panel of c disappears, with its scene; the timers stay.
Hide(c) == /\ panel' = [panel EXCEPT ![c] = FALSE]
           /\ scene' = [scene EXCEPT ![c] = {}]
           /\ load' = [load EXCEPT ![c] = "none"]
           /\ answer' = [answer EXCEPT ![c] = {}]

\* handleClose, and the control message that makes the others poll at once.
CloseBoard(m) ==
  /\ panel[m]
  /\ boardOpen
  /\ switches < MaxSwitches
  /\ switches' = switches + 1
  /\ boardOpen' = FALSE
  /\ Hide(m)
  /\ UNCHANGED <<saved, poll, api, inbound, pending, sent, boardSave, drawn, mishaps>>

AskState(c) ==
  /\ poll[c] = {}
  /\ panel[c] # boardOpen
  /\ poll' = [poll EXCEPT ![c] = {boardOpen}]
  /\ UNCHANGED <<boardServer, panel, api, scene, boardLoad, inbound, pending, sent, boardSave, boardBounds>>

\* A new panel is empty: it asks for the snapshot, and tells a moderator of its
\* first, empty scene (handleChange).  excalidrawAPI is still that of the panel
\* closed before, unless Excalidraw has called back when the effect runs.
ShowState(c) ==
  /\ poll[c] # {}
  /\ poll' = [poll EXCEPT ![c] = {}]
  /\ \/ /\ poll[c] = {FALSE}
        /\ Hide(c)
        /\ UNCHANGED <<api, pending, saveTimer>>
     \/ /\ poll[c] = {TRUE} /\ panel[c]
        /\ UNCHANGED <<panel, api, scene, boardLoad, pending, saveTimer>>
     \/ /\ poll[c] = {TRUE} /\ ~panel[c]
        /\ panel' = [panel EXCEPT ![c] = TRUE]
        /\ api' = [api EXCEPT ![c] = TRUE]
        /\ \E l \in {"sent"} \cup {x \in {"former"} : api[c]} : load' = [load EXCEPT ![c] = l]
        /\ pending' = [m \in Drawers |-> IF m = c THEN {} ELSE pending[m]]
        /\ saveTimer' = [m \in Drawers |-> m = c \/ saveTimer[m]]
        /\ UNCHANGED <<scene, answer>>
  /\ UNCHANGED <<boardServer, inbound, sent, put, overdue, saveFailed, boardBounds>>

-----------------------------------------------------------------------------
(* The snapshot                                                             *)

\* A viewer asks again every eight seconds, a moderator only when reconnected.
Resync(c) ==
  /\ panel[c]
  /\ c \in Watchers
  /\ load[c] = "none"
  /\ ~(saved \subseteq scene[c])
  /\ load' = [load EXCEPT ![c] = "sent"]
  /\ UNCHANGED <<boardServer, boardPanel, scene, answer, inbound, pending, sent, boardSave, boardBounds>>

\* The data messages sent meanwhile are lost.
Reconnected(c) ==
  /\ Mishap
  /\ panel[c]
  /\ load[c] = "none"
  /\ load' = [load EXCEPT ![c] = "sent"]
  /\ inbound' = [inbound EXCEPT ![c] = {}]
  /\ UNCHANGED <<boardServer, boardPanel, scene, answer, pending, sent, boardSave, drawn, switches>>

ReadSnapshot(c) ==
  /\ load[c] = "sent"
  /\ load' = [load EXCEPT ![c] = "read"]
  /\ answer' = [answer EXCEPT ![c] = saved]
  /\ UNCHANGED <<boardServer, boardPanel, scene, inbound, pending, sent, boardSave, boardBounds>>

\* Mutant: the answer replaces the scene.
Replaced(old, new) == new

Reconciled(old, new) == old \cup new

\* A moderator's scene that changes is pending, for a broadcast and a save.
Changed(c, new) ==
  /\ scene' = [scene EXCEPT ![c] = new]
  /\ pending' = [m \in Drawers |-> IF m = c THEN new ELSE pending[m]]
  /\ saveTimer' = [m \in Drawers |-> m = c \/ saveTimer[m]]

\* What a panel shows is never replaced, the recorder's page included.
Merged(c, new) == Changed(c, Reconciled(scene[c], new))

\* loadSnapshot: everything reconciled counts as broadcast.
ApplySnapshot(c) ==
  /\ load[c] = "read"
  /\ Merged(c, answer[c])
  /\ load' = [load EXCEPT ![c] = "none"]
  /\ answer' = [answer EXCEPT ![c] = {}]
  /\ sent' = [m \in Drawers |-> IF m = c THEN scene'[c] ELSE sent[m]]
  /\ UNCHANGED <<boardServer, boardPanel, inbound, put, overdue, saveFailed, boardBounds>>

\* The former panel draws the answer, and is not shown.
FormerLoaded(c) ==
  /\ load[c] = "former"
  /\ load' = [load EXCEPT ![c] = "none"]
  /\ sent' = [m \in Drawers |-> IF m = c THEN sent[m] \cup saved ELSE sent[m]]
  /\ UNCHANGED <<boardServer, boardPanel, scene, answer, inbound, pending, boardSave, boardBounds>>

-----------------------------------------------------------------------------
(* Drawing, broadcasting, saving                                            *)

Draw(m, e) ==
  /\ panel[m]
  /\ e \notin drawn
  /\ drawn' = drawn \cup {e}
  /\ Changed(m, scene[m] \cup {e})
  /\ UNCHANGED <<boardServer, boardPanel, boardLoad, inbound, sent, put, overdue, saveFailed, switches, mishaps>>

\* flushBroadcast: the edits not sent yet, to everybody else.
Broadcast(m) ==
  /\ ~(pending[m] \subseteq sent[m])
  /\ sent' = [sent EXCEPT ![m] = @ \cup pending[m]]
  /\ inbound' = [c \in Clients |-> IF c = m THEN inbound[c] ELSE inbound[c] \cup (pending[m] \ sent[m])]
  /\ UNCHANGED <<boardServer, boardPanel, scene, boardLoad, pending, boardSave, boardBounds>>

\* handleData: ignored without a panel.  A message may as well never arrive.
Deliver(c, e) ==
  /\ e \in inbound[c]
  /\ inbound' = [inbound EXCEPT ![c] = @ \ {e}]
  /\ IF panel[c] THEN Merged(c, {e}) ELSE UNCHANGED <<scene, pending, saveTimer>>
  /\ UNCHANGED <<boardServer, boardPanel, boardLoad, sent, put, overdue, saveFailed, boardBounds>>

\* SAVE_MAX_WAIT_MS since the last save.
MaxWaitPasses(m) ==
  /\ ~overdue[m]
  /\ overdue' = [overdue EXCEPT ![m] = TRUE]
  /\ UNCHANGED <<boardServer, boardPanel, scene, boardLoad, inbound, pending, sent, saveTimer, put, saveFailed, boardBounds>>

\* flushSave: three seconds after the last change, by when the snapshot asked for
\* has come, or at once if the last save is too old.
FlushSave(m) ==
  /\ saveTimer[m]
  /\ put[m] = {}
  /\ overdue[m] \/ load[m] = "none"
  /\ saveTimer' = [saveTimer EXCEPT ![m] = FALSE]
  /\ put' = [put EXCEPT ![m] = {pending[m]}]
  /\ overdue' = [overdue EXCEPT ![m] = FALSE]
  /\ UNCHANGED <<boardServer, boardPanel, scene, boardLoad, inbound, pending, sent, saveFailed, boardBounds>>

\* Mutant: a failure is not told.
SaveFailsQuietly(m) ==
  /\ Mishap
  /\ put[m] # {}
  /\ put' = [put EXCEPT ![m] = {}]
  /\ UNCHANGED <<boardServer, boardPanel, scene, boardLoad, inbound, pending, sent, saveTimer, overdue, saveFailed, drawn, switches>>

SaveFails(m) ==
  /\ Mishap
  /\ put[m] # {}
  /\ put' = [put EXCEPT ![m] = {}]
  /\ saveFailed' = [saveFailed EXCEPT ![m] = TRUE]
  /\ UNCHANGED <<boardServer, boardPanel, scene, boardLoad, inbound, pending, sent, saveTimer, overdue, drawn, switches>>

\* WhiteboardService.save: the body replaces the snapshot.
SaveDone(m) ==
  /\ put[m] # {}
  /\ saved' \in put[m]
  /\ put' = [put EXCEPT ![m] = {}]
  /\ saveFailed' = [saveFailed EXCEPT ![m] = FALSE]
  /\ UNCHANGED <<boardOpen, boardPanel, scene, boardLoad, inbound, pending, sent, saveTimer, overdue, boardBounds>>

\* Another room, a reload: the timers are cleared, and the save they held is lost.
Remount(c) ==
  /\ Mishap
  /\ Hide(c)
  /\ poll' = [poll EXCEPT ![c] = {}]
  /\ api' = [api EXCEPT ![c] = FALSE]
  /\ inbound' = [inbound EXCEPT ![c] = {}]
  /\ pending' = [m \in Drawers |-> IF m = c THEN {} ELSE pending[m]]
  /\ sent' = [m \in Drawers |-> IF m = c THEN {} ELSE sent[m]]
  /\ saveTimer' = [m \in Drawers |-> m # c /\ saveTimer[m]]
  /\ overdue' = [m \in Drawers |-> IF m = c THEN FALSE ELSE overdue[m]]
  /\ saveFailed' = [m \in Drawers |-> IF m = c THEN FALSE ELSE saveFailed[m]]
  /\ UNCHANGED <<boardServer, put, drawn, switches>>

BoardNext ==
  \/ OpenBoard
  \/ \E c \in Clients : AskState(c) \/ ShowState(c) \/ Resync(c) \/ Reconnected(c) \/ ReadSnapshot(c)
                          \/ ApplySnapshot(c) \/ FormerLoaded(c) \/ Remount(c)
  \/ \E c \in Clients, e \in Edits : Deliver(c, e)
  \/ \E m \in Drawers, e \in Edits : Draw(m, e)
  \/ \E m \in Drawers : CloseBoard(m) \/ Broadcast(m) \/ MaxWaitPasses(m) \/ FlushSave(m)
                          \/ SaveFails(m) \/ SaveDone(m)

\* Timers fire, requests are answered; nothing is assumed of the messages.
BoardFairness ==
  /\ \A c \in Clients : WF_boardVars(AskState(c)) /\ WF_boardVars(ShowState(c)) /\ WF_boardVars(Resync(c))
                          /\ WF_boardVars(ReadSnapshot(c)) /\ WF_boardVars(ApplySnapshot(c))
                          /\ WF_boardVars(FormerLoaded(c))
  /\ \A m \in Drawers : WF_boardVars(FlushSave(m)) /\ WF_boardVars(SaveDone(m) \/ SaveFails(m))

BoardSpec == BoardInit /\ [][BoardNext]_boardVars /\ BoardFairness

-----------------------------------------------------------------------------
(* Properties                                                               *)

\* A panel that stays open never loses an edit: the snapshot asked for before a
\* message came is reconciled with it (the comment above loadSnapshot).
NothingFades ==
  [][\A c \in Clients : panel[c] /\ panel'[c] => scene[c] \subseteq scene'[c]]_boardVars

\* Whatever messages were lost, the panels of the watchers end up with all that a
\* moderator draws, or the moderator is warned that the snapshot is not saved.
WatchersCatchUp ==
  <>[]((boardOpen /\ \A c \in Clients : panel[c]) =>
         \A m \in Drawers, c \in Watchers : scene[m] \subseteq scene[c] \/ \E n \in Drawers : saveFailed[n])

\* What is saved is not erased by the panel that is opened again: it loads the snapshot, once for
\* every opening (Whiteboard.tsx:161), and saves nothing before its rest (Whiteboard.tsx:311).
SavedDrawingKept == [][saved \subseteq saved']_boardVars
=============================================================================
