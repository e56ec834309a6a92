--------------------------- MODULE Presentations ---------------------------
(***************************************************************************)
(* The presentations imported in one room: the upload and its detached     *)
(* conversion (PDF to slides, slides to S3, rows), the cron that fails     *)
(* stuck conversions, what the manager shows, and the clean-up that        *)
(* RoomsService.close runs through PresentationsService.deleteAllForRoom.  *)
(***************************************************************************)
EXTENDS Naturals, FiniteSets

CONSTANTS
  Docs,          \* presentations that may be imported
  MaxSlides,     \* pages of the longest PDF
  MaxCloses,     \* bounds on the closings of the room and
  MaxReboots     \*   on the restarts of the backend

ASSUME PresAssumption == MaxSlides \in Nat \ {0} /\ MaxCloses \in Nat /\ MaxReboots \in Nat

VARIABLES
  docStatus,     \* docStatus[d]: the status column, "new" before, "deleted" after
  slideCount,    \* and the two numbers of the row
  slideIndex,
  slideRows,     \* slideRows[d]: indexes of the PresentationSlide rows
  slideObjects,  \* slideObjects[d]: indexes of the images in the bucket
  conversion,    \* conversion[d]: the detached promise: its step, its pages
  longAgo,       \* docs created before the threshold of the cron
  shownDoc,      \* room.currentPresentationId, as a set of at most one
  activation,    \* a request to activate that has checked its presentation
  panelDoc,      \* what the manager's panel shows, a set of at most one view
  purge,         \* close(): its step and the slides it listed
  closes, reboots,
  mayLeak        \* docs whose objects nobody will delete; why is said where it grows

presVars == <<docStatus, slideCount, slideIndex, slideRows, slideObjects, conversion, longAgo,
              shownDoc, activation, panelDoc, purge, closes, reboots, mayLeak>>
docRow   == <<docStatus, slideCount, slideIndex>>
stage    == <<shownDoc, activation, panelDoc>>
purging  == <<purge, closes, reboots>>

Pages == 0..(MaxSlides - 1)
DocStatus == {"new", "UPLOADED", "CONVERTING", "READY", "FAILED", "deleted"}
Stored == {"UPLOADED", "CONVERTING", "READY", "FAILED"}
Exists(d) == docStatus[d] \in Stored
NoConversion == [step |-> "none", pages |-> 0, put |-> 0]
NoPurge == [step |-> "none", listed |-> {}]
PanelView == [doc : Docs, index : Pages, count : 0..MaxSlides]

PresTypeOK ==
  /\ docStatus \in [Docs -> DocStatus]
  /\ slideCount \in [Docs -> 0..MaxSlides]
  /\ slideIndex \in [Docs -> Pages]
  /\ slideRows \in [Docs -> SUBSET Pages]
  /\ slideObjects \in [Docs -> SUBSET Pages]
  /\ conversion \in [Docs -> [step : {"none", "start", "render", "put", "insert", "ready"},
                              pages : 0..MaxSlides, put : 0..MaxSlides]]
  /\ longAgo \subseteq Docs
  /\ shownDoc \subseteq Docs
  /\ activation \subseteq Docs
  /\ panelDoc \subseteq PanelView
  /\ purge \in [step : {"none", "objects", "rows", "end"}, listed : SUBSET (Docs \X Pages)]
  /\ closes \in 0..MaxCloses
  /\ reboots \in 0..MaxReboots
  /\ mayLeak \subseteq Docs

PresInit ==
  /\ docStatus = [d \in Docs |-> "new"]
  /\ slideCount = [d \in Docs |-> 0]
  /\ slideIndex = [d \in Docs |-> 0]
  /\ slideRows = [d \in Docs |-> {}]
  /\ slideObjects = [d \in Docs |-> {}]
  /\ conversion = [d \in Docs |-> NoConversion]
  /\ longAgo = {}
  /\ shownDoc = {}
  /\ activation = {}
  /\ panelDoc = {}
  /\ purge = NoPurge
  /\ closes = 0
  /\ reboots = 0
  /\ mayLeak = {}

-----------------------------------------------------------------------------
(* Upload and conversion                                                    *)

Upload(d) ==
  /\ docStatus[d] = "new"
  /\ docStatus' = [docStatus EXCEPT ![d] = "UPLOADED"]
  /\ conversion' = [conversion EXCEPT ![d].step = "start"]
  /\ UNCHANGED <<slideCount, slideIndex, slideRows, slideObjects, longAgo, stage, purging, mayLeak>>

\* The first update of convert() is outside its try: on a deleted row the
\* promise is rejected and logged, nothing more.
ConvertStart(d) ==
  /\ conversion[d].step = "start"
  /\ docStatus' = IF Exists(d) THEN [docStatus EXCEPT ![d] = "CONVERTING"] ELSE docStatus
  /\ conversion' = IF Exists(d) THEN [conversion EXCEPT ![d].step = "render"]
                   ELSE [conversion EXCEPT ![d] = NoConversion]
  /\ UNCHANGED <<slideCount, slideIndex, slideRows, slideObjects, longAgo, stage, purging, mayLeak>>

\* pdftoppm gives at least one page, or the conversion fails.
ConvertRender(d) ==
  /\ conversion[d].step = "render"
  /\ \E n \in 1..MaxSlides :
       conversion' = [conversion EXCEPT ![d] = [step |-> "put", pages |-> n, put |-> 0]]
  /\ UNCHANGED <<docRow, slideRows, slideObjects, longAgo, stage, purging, mayLeak>>

\* putObject writes whether or not the row still exists.
ConvertPut(d) ==
  LET c == conversion[d] IN
  /\ c.step = "put"
  /\ slideObjects' = [slideObjects EXCEPT ![d] = @ \cup {c.put}]
  /\ conversion' = [conversion EXCEPT
                      ![d].put = @ + 1,
                      ![d].step = IF c.put + 1 = c.pages THEN "insert" ELSE "put"]
  /\ UNCHANGED <<docRow, slideRows, longAgo, stage, purging, mayLeak>>

\* The catch: FAILED is written if the row is still there.  Leaks: the images
\* already stored are named by no row of slides.
FailConversion(d) ==
  /\ docStatus' = IF Exists(d) THEN [docStatus EXCEPT ![d] = "FAILED"] ELSE docStatus
  /\ conversion' = [conversion EXCEPT ![d] = NoConversion]
  /\ mayLeak' = mayLeak \cup {d}
  /\ UNCHANGED <<slideCount, slideIndex, slideRows, slideObjects, longAgo, stage, purging>>

ConvertFails(d) ==
  /\ conversion[d].step \in {"render", "put", "insert"}
  /\ FailConversion(d)

\* createMany, which the foreign key refuses once the row is deleted.
ConvertInsert(d) ==
  /\ conversion[d].step = "insert"
  /\ IF Exists(d)
       THEN /\ slideRows' = [slideRows EXCEPT ![d] = 0..(conversion[d].pages - 1)]
            /\ conversion' = [conversion EXCEPT ![d].step = "ready"]
            /\ UNCHANGED <<docRow, slideObjects, longAgo, stage, purging, mayLeak>>
       ELSE FailConversion(d)

ConvertReady(d) ==
  /\ conversion[d].step = "ready"
  /\ IF Exists(d)
       THEN /\ docStatus' = [docStatus EXCEPT ![d] = "READY"]
            /\ slideCount' = [slideCount EXCEPT ![d] = conversion[d].pages]
            /\ conversion' = [conversion EXCEPT ![d] = NoConversion]
            /\ UNCHANGED <<slideIndex, slideRows, slideObjects, longAgo, stage, purging, mayLeak>>
       ELSE FailConversion(d)

Ages(d) ==
  /\ Exists(d)
  /\ longAgo' = longAgo \cup {d}
  /\ UNCHANGED <<docRow, slideRows, slideObjects, conversion, stage, purging, mayLeak>>

\* Mutant: only conversions that nobody ever started are failed.
StuckCronUploaded ==
  /\ docStatus' = [d \in Docs |-> IF d \in longAgo /\ docStatus[d] = "UPLOADED"
                                    THEN "FAILED" ELSE docStatus[d]]
  /\ UNCHANGED <<slideCount, slideIndex, slideRows, slideObjects, conversion, longAgo, stage,
                 purging, mayLeak>>

StuckCron ==
  /\ docStatus' = [d \in Docs |-> IF d \in longAgo /\ docStatus[d] = "CONVERTING"
                                    THEN "FAILED" ELSE docStatus[d]]
  /\ UNCHANGED <<slideCount, slideIndex, slideRows, slideObjects, conversion, longAgo, stage,
                 purging, mayLeak>>

-----------------------------------------------------------------------------
(* What is shown                                                            *)

ActivateCheck(d) ==
  /\ docStatus[d] = "READY"
  /\ activation' = activation \cup {d}
  /\ UNCHANGED <<docRow, slideRows, slideObjects, conversion, longAgo, shownDoc, panelDoc,
                 purging, mayLeak>>

\* currentPresentationId is no foreign key: the presentation may be gone.
ActivateWrite(d) ==
  /\ d \in activation
  /\ activation' = activation \ {d}
  /\ shownDoc' = {d}
  /\ UNCHANGED <<docRow, slideRows, slideObjects, conversion, longAgo, panelDoc, purging, mayLeak>>

Deactivate ==
  /\ shownDoc # {}
  /\ shownDoc' = {}
  /\ panelDoc' = {}
  /\ UNCHANGED <<docRow, slideRows, slideObjects, conversion, longAgo, activation, purging, mayLeak>>

\* getActive: a pointer to nothing shows nothing.
ActiveView == {[doc |-> d, index |-> slideIndex[d], count |-> slideCount[d]]
                 : d \in {x \in shownDoc : Exists(x)}}

RefreshActive ==
  /\ panelDoc' = ActiveView
  /\ UNCHANGED <<docRow, slideRows, slideObjects, conversion, longAgo, shownDoc, activation,
                 purging, mayLeak>>

\* setCurrentSlide checks the slide asked for against the row.
HasSlide(d, i) == Exists(d) /\ i >= 0 /\ i < slideCount[d]

\* handleNavigate: one slide before or after the one shown on the panel, which
\* may be a view of the past.
Navigate(v) ==
  /\ \E i \in {v.index - 1, v.index + 1} :
       /\ i >= 0 /\ i < v.count
       /\ HasSlide(v.doc, i)
       /\ slideIndex' = [slideIndex EXCEPT ![v.doc] = i]
  /\ UNCHANGED <<docStatus, slideCount, slideRows, slideObjects, conversion, longAgo, stage,
                 purging, mayLeak>>

-----------------------------------------------------------------------------
(* The end of the meeting                                                   *)

Busy(d) == conversion[d].step # "none"

\* Leaks: what is being converted at this moment, or imported from now on.
PurgeList ==
  /\ purge.step = "none"
  /\ closes < MaxCloses
  /\ closes' = closes + 1
  /\ purge' = [step |-> "objects",
               listed |-> UNION {{d} \X slideRows[d] : d \in {x \in Docs : Exists(x)}}]
  /\ mayLeak' = mayLeak \cup {d \in Docs : Busy(d) \/ docStatus[d] = "new"}
  /\ UNCHANGED <<docRow, slideRows, slideObjects, conversion, longAgo, stage, reboots>>

\* Mutant: the rows go, the images stay.
PurgeRowsOnly ==
  /\ purge.step = "objects"
  /\ purge' = [step |-> "rows", listed |-> {}]
  /\ UNCHANGED <<docRow, slideRows, slideObjects, conversion, longAgo, stage, closes, reboots, mayLeak>>

\* One image after the other; a failure of S3 is swallowed, and leaks.
PurgeObject ==
  /\ purge.step = "objects"
  /\ \/ /\ purge.listed = {}
        /\ purge' = [purge EXCEPT !.step = "rows"]
        /\ UNCHANGED <<slideObjects, mayLeak>>
     \/ \E x \in purge.listed :
          /\ purge' = [purge EXCEPT !.listed = @ \ {x}]
          /\ \/ /\ slideObjects' = [slideObjects EXCEPT ![x[1]] = @ \ {x[2]}]
                /\ UNCHANGED mayLeak
             \/ /\ mayLeak' = mayLeak \cup {x[1]}
                /\ UNCHANGED slideObjects
  /\ UNCHANGED <<docRow, slideRows, conversion, longAgo, stage, closes, reboots>>

PurgeRows ==
  /\ purge.step = "rows"
  /\ docStatus' = [d \in Docs |-> IF Exists(d) THEN "deleted" ELSE docStatus[d]]
  /\ slideRows' = [d \in Docs |-> {}]
  /\ purge' = [purge EXCEPT !.step = "end"]
  /\ UNCHANGED <<slideCount, slideIndex, slideObjects, conversion, longAgo, stage, closes, reboots, mayLeak>>

\* The last update of close().
PurgeEnd ==
  /\ purge.step = "end"
  /\ shownDoc' = {}
  /\ purge' = NoPurge
  /\ UNCHANGED <<docRow, slideRows, slideObjects, conversion, longAgo, activation, panelDoc,
                 closes, reboots, mayLeak>>

\* Every promise and request of the process is lost.
Reboot ==
  /\ reboots < MaxReboots
  /\ reboots' = reboots + 1
  /\ conversion' = [d \in Docs |-> NoConversion]
  /\ activation' = {}
  /\ purge' = NoPurge
  /\ mayLeak' = mayLeak \cup {d \in Docs : Busy(d)}
  /\ UNCHANGED <<docRow, slideRows, slideObjects, longAgo, shownDoc, panelDoc, closes>>

PresNext ==
  \/ \E d \in Docs :
       \/ Upload(d) \/ ConvertStart(d) \/ ConvertRender(d) \/ ConvertPut(d) \/ ConvertInsert(d)
       \/ ConvertReady(d) \/ ConvertFails(d) \/ Ages(d) \/ ActivateCheck(d) \/ ActivateWrite(d)
  \/ \E v \in panelDoc : Navigate(v)
  \/ StuckCron \/ Deactivate \/ RefreshActive
  \/ PurgeList \/ PurgeObject \/ PurgeRows \/ PurgeEnd \/ Reboot

\* Time passes and the cron runs; nothing is assumed of the conversions.
PresFairness ==
  /\ WF_presVars(StuckCron)
  /\ \A d \in Docs : WF_presVars(Ages(d))

PresSpec == PresInit /\ [][PresNext]_presVars /\ PresFairness

-----------------------------------------------------------------------------
(* Properties                                                               *)

\* Whatever close(), the cron and restarts do around a conversion, a presentation
\* that is shown to the room is complete: all its slides have a row, and an image
\* unless close() is deleting them or S3 failed.
ShownIsComplete ==
  \A v \in ActiveView :
    /\ v.count > 0 /\ v.index < v.count
    /\ slideRows[v.doc] = 0..(v.count - 1)
    /\ closes = 0 => slideRows[v.doc] \subseteq slideObjects[v.doc]

\* The clean-up of close() leaves no image behind, except of a conversion that
\* failed or was under way, of an import made meanwhile, and after a failure of S3.
NoOrphanImages ==
  \A d \in Docs \ mayLeak : docStatus[d] = "deleted" => slideObjects[d] = {}

\* A conversion does not look under way for ever: should its promise die with the
\* process, the cron fails it.
ConversionsSettle == \A d \in Docs : <>[](docStatus[d] # "CONVERTING")

\* The rows and the images of a presentation go together, from its conversion to the end of the meeting.
ImagesWithRows == ShownIsComplete /\ NoOrphanImages
=============================================================================
