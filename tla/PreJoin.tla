------------------------------- MODULE PreJoin -------------------------------
(***************************************************************************)
(* The device check before a meeting (PreJoinScreen): the preview of the   *)
(* microphone and the camera chosen, opened again at each choice, with a   *)
(* fallback when a device remembered from an earlier meeting is gone, and  *)
(* the echo test.  Each run of the effect is an acquisition of its own,    *)
(* whose answer may come after the screen has moved on.                    *)
(***************************************************************************)
EXTENDS Naturals, Sequences, FiniteSets

CONSTANTS
  Devices,       \* the device ids of each kind
  MaxPicks,      \* bounds on the devices picked by hand,
  MaxUnplugs,    \*   on those unplugged or plugged back,
  MaxRefusals    \*   and on the requests the browser refuses

Kinds    == {"audioinput", "videoinput"}
Unchosen == "unchosen"
Off      == "off"

\* Some device exists, and no id is one of the two marks of the model.
ASSUME PreAssumption ==
  /\ {MaxPicks, MaxUnplugs, MaxRefusals} \subseteq Nat
  /\ Devices # {} /\ {Unchosen, Off} \cap Devices = {}

Choice   == [Kinds -> Devices \cup {Unchosen}]

VARIABLES
  allowed,       \* the kinds the person may publish: canUseMic, canUseCamera
  plugged,       \* plugged[k]: the devices of the browser
  stored,        \* localStorage, and
  selection,     \*   the selection of the screen
  acqs,          \* acqs[i]: the i-th run of the effect
  stream,        \* the acquisition whose stream is previewed, 0 for none
  permission,    \* "pending", "granted", "denied" or "skipped"
  echo,          \* echoState: "idle", "recording", "playing", "verdict"
  screen,        \* "shown", "joined", "left"
  preActs        \* [pick, plug, refuse]: counters

preVars == <<allowed, plugged, stored, selection, acqs, stream, permission, echo, screen, preActs>>

Acq == [asked : Choice, step : {"exact", "default", "done"}, cancelled : BOOLEAN,
        tracks : [Kinds -> Devices \cup {Off}]]
NoTracks == [k \in Kinds |-> Off]
MaxAcqs  == 1 + MaxPicks + MaxUnplugs + MaxRefusals
PreCount(k) == preActs' = [preActs EXCEPT ![k] = @ + 1]

PreTypeOK ==
  /\ allowed \subseteq Kinds
  /\ plugged \in [Kinds -> SUBSET Devices]
  /\ {stored, selection} \subseteq Choice
  /\ Len(acqs) <= MaxAcqs
  /\ \A i \in DOMAIN acqs : acqs[i] \in Acq
  /\ stream \in 0..Len(acqs)
  /\ permission \in {"pending", "granted", "denied", "skipped"}
  /\ echo \in {"idle", "recording", "playing", "verdict"}
  /\ screen \in {"shown", "joined", "left"}
  /\ preActs \in [pick : 0..MaxPicks, plug : 0..MaxUnplugs, refuse : 0..MaxRefusals]

\* The effect runs: acquire(true) is called, unless both kinds are locked.
Started(sel) ==
  IF allowed = {} THEN <<>>
  ELSE <<[asked |-> sel, step |-> "exact", cancelled |-> FALSE, tracks |-> NoTracks]>>

PreInit ==
  /\ allowed \in SUBSET Kinds
  /\ plugged = [k \in Kinds |-> Devices]
  /\ stored \in Choice
  /\ selection = stored                     \* loadStoredDevices
  /\ acqs = Started(stored)
  /\ stream = 0
  /\ permission = IF allowed = {} THEN "skipped" ELSE "pending"
  /\ echo = "idle"
  /\ screen = "shown"
  /\ preActs = [pick |-> 0, plug |-> 0, refuse |-> 0]

-----------------------------------------------------------------------------
(* The acquisitions                                                         *)

Stopped(i)   == [acqs EXCEPT ![i].step = "done", ![i].tracks = NoTracks]
OpenedWith(i, t) == [acqs EXCEPT ![i].step = "done", ![i].tracks = t]

\* The clean-up of the effect: a stream already open is stopped, one to come will be.
Cleaned(as) ==
  [i \in DOMAIN as |->
     IF i = Len(as) THEN [as[i] EXCEPT !.cancelled = TRUE, !.tracks = NoTracks] ELSE as[i]]

\* What getUserMedia may open, when each kind in exact must be that very device.
Openable(exact) ==
  {t \in [Kinds -> Devices \cup {Off}] :
     \A k \in Kinds : IF k \notin allowed THEN t[k] = Off
                      ELSE t[k] \in plugged[k] /\ (exact[k] # Unchosen => t[k] = exact[k])}

Free == [k \in Kinds |-> Unchosen]

\* getUserMedia answers the first request.
ExactOpened(i) ==
  /\ acqs[i].step = "exact"
  /\ \E t \in Openable(acqs[i].asked) :
       IF acqs[i].cancelled
       THEN acqs' = Stopped(i) /\ UNCHANGED <<stream, permission>>
       ELSE acqs' = OpenedWith(i, t) /\ stream' = i /\ permission' = "granted"
  /\ UNCHANGED <<allowed, plugged, stored, selection, echo, screen, preActs>>

\* It fails: the device is gone, or the browser refuses (which is counted).
Refused(exact) ==
  IF Openable(exact) = {} THEN UNCHANGED preActs
  ELSE preActs.refuse < MaxRefusals /\ PreCount("refuse")

ExactFailed(i) ==
  LET remembered == \E k \in Kinds : acqs[i].asked[k] # Unchosen IN
  /\ acqs[i].step = "exact"
  /\ Refused(acqs[i].asked)
  /\ acqs' = [acqs EXCEPT ![i].step = IF ~acqs[i].cancelled /\ remembered THEN "default" ELSE "done"]
  /\ permission' = IF ~acqs[i].cancelled /\ ~remembered THEN "denied" ELSE permission
  /\ UNCHANGED <<allowed, plugged, stored, selection, stream, echo, screen>>

\* Mutant: the fallback does not look whether it was cancelled.
FallbackOpenedLate(i) ==
  /\ acqs[i].step = "default"
  /\ \E t \in Openable(Free) :
       LET actual == [k \in Kinds |-> IF t[k] = Off THEN selection[k] ELSE t[k]] IN
       /\ selection' = actual
       /\ stored' = actual
       /\ acqs' = IF actual = selection THEN OpenedWith(i, t)
                  ELSE Cleaned(OpenedWith(i, t)) \o Started(actual)
  /\ stream' = i
  /\ permission' = "granted"
  /\ UNCHANGED <<allowed, plugged, echo, screen, preActs>>

\* The fallback opens what there is, and the selection becomes that: the effect runs again.
FallbackOpened(i) ==
  /\ acqs[i].step = "default"
  /\ \E t \in Openable(Free) :
       LET actual == [k \in Kinds |-> IF t[k] = Off THEN selection[k] ELSE t[k]] IN
       IF acqs[i].cancelled
       THEN acqs' = Stopped(i) /\ UNCHANGED <<stored, selection, stream, permission>>
       ELSE /\ selection' = actual
            /\ stored' = actual
            /\ acqs' = IF actual = selection THEN OpenedWith(i, t)
                       ELSE Cleaned(OpenedWith(i, t)) \o Started(actual)
            /\ stream' = i
            /\ permission' = "granted"
  /\ UNCHANGED <<allowed, plugged, echo, screen, preActs>>

FallbackFailed(i) ==
  /\ acqs[i].step = "default"
  /\ Refused(Free)
  /\ acqs' = [acqs EXCEPT ![i].step = "done"]
  /\ permission' = IF acqs[i].cancelled THEN permission ELSE "denied"
  /\ UNCHANGED <<allowed, plugged, stored, selection, stream, echo, screen>>

-----------------------------------------------------------------------------
(* The person                                                               *)

\* pick: the choice is remembered, and the effect runs again. The lists are empty until then.
Pick(k, d) ==
  /\ screen = "shown" /\ k \in allowed /\ d \in plugged[k]
  /\ permission # "pending" /\ selection[k] # d /\ preActs.pick < MaxPicks
  /\ PreCount("pick")
  /\ stored' = [stored EXCEPT ![k] = d]
  /\ selection' = [selection EXCEPT ![k] = d]
  /\ acqs' = Cleaned(acqs) \o Started(selection')
  /\ UNCHANGED <<allowed, plugged, stream, permission, echo, screen>>

\* A device is unplugged, its track ends; or it is plugged back.
Unplug(k, d) ==
  /\ preActs.plug < MaxUnplugs
  /\ PreCount("plug")
  /\ plugged' = [plugged EXCEPT ![k] = IF d \in @ THEN @ \ {d} ELSE @ \cup {d}]
  /\ acqs' = [i \in DOMAIN acqs |->
                IF acqs[i].tracks[k] = d THEN [acqs[i] EXCEPT !.tracks[k] = Off] ELSE acqs[i]]
  /\ UNCHANGED <<allowed, stored, selection, stream, permission, echo, screen>>

\* handleJoin stops the preview, and the screen is unmounted; or the page is left.
Leave(s) ==
  /\ screen = "shown"
  /\ screen' = s
  /\ acqs' = Cleaned(acqs)
  /\ UNCHANGED <<allowed, plugged, stored, selection, stream, permission, echo, preActs>>

\* runEchoTest: the track of the preview is recorded,
RunEchoTest ==
  /\ screen = "shown" /\ permission = "granted"
  /\ "audioinput" \in allowed
  /\ echo \notin {"recording", "playing"}
  /\ stream # 0 /\ acqs[stream].tracks["audioinput"] # Off
  /\ echo' = "recording"
  /\ UNCHANGED <<allowed, plugged, stored, selection, acqs, stream, permission, screen, preActs>>

\* ... for five seconds or until the track ends, then played.
EchoRecorded ==
  /\ echo = "recording"
  /\ echo' = "playing"
  /\ UNCHANGED <<allowed, plugged, stored, selection, acqs, stream, permission, screen, preActs>>

\* Mutant: the end is told only while the preview is granted.
EchoPlayedIfAllowed ==
  /\ echo = "playing"
  /\ permission = "granted"
  /\ echo' = "verdict"
  /\ UNCHANGED <<allowed, plugged, stored, selection, acqs, stream, permission, screen, preActs>>

\* It ends, or the browser will not play it: the question is asked all the same.
EchoPlayed ==
  /\ echo = "playing"
  /\ echo' = "verdict"
  /\ UNCHANGED <<allowed, plugged, stored, selection, acqs, stream, permission, screen, preActs>>

PreNext ==
  \/ \E i \in DOMAIN acqs : ExactOpened(i) \/ ExactFailed(i) \/ FallbackOpened(i) \/ FallbackFailed(i)
  \/ \E k \in Kinds, d \in Devices : Pick(k, d) \/ Unplug(k, d)
  \/ \E s \in {"joined", "left"} : Leave(s)
  \/ RunEchoTest \/ EchoRecorded \/ EchoPlayed

PreFairness == WF_preVars(EchoRecorded) /\ WF_preVars(EchoPlayed)

PreSpec == PreInit /\ [][PreNext]_preVars /\ PreFairness

-----------------------------------------------------------------------------

\* A microphone or a camera is on only for the preview being shown: never for one already replaced,
\* nor once the screen is gone, however late the browser opens it.
NoDeviceLeftOn ==
  \A i \in DOMAIN acqs :
    acqs[i].tracks # NoTracks => screen = "shown" /\ i = Len(acqs) /\ i = stream

\* What is previewed is what was chosen, and what joining will use: a preview that opened shows the
\* device selected, for each kind chosen, unless that device has been unplugged since.
PreviewIsSelection ==
  (screen = "shown" /\ stream # 0) =>
    \A k \in allowed :
      acqs[stream].tracks[k] # Off /\ selection[k] # Unchosen => acqs[stream].tracks[k] = selection[k]

\* An echo test that has begun comes to its question, whatever happens to the devices meanwhile.
EchoTestEnds == []<>(echo \notin {"recording", "playing"})

\* What is on is the preview, and the preview is of what was chosen.
OnlyThePreview == NoDeviceLeftOn /\ PreviewIsSelection
=============================================================================
