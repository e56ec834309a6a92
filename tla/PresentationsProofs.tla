-------------------------- MODULE PresentationsProofs --------------------------
(***************************************************************************)
(* The rows and the images of a presentation go together, for any set of   *)
(* presentations, of any length, and any number of meetings and restarts.  *)
(***************************************************************************)
EXTENDS Presentations, Integers, TLAPS

USE PresAssumption

\* A conversion under way has stored the pages it has put and no other (none of them is
\* deleted before the room is first closed), and its row tells nobody it is ready.
Converting(d) ==
  Busy(d) =>
    /\ slideCount[d] = 0 /\ docStatus[d] \notin {"new", "READY"}
    /\ slideObjects[d] \subseteq 0..(conversion[d].put - 1)
    /\ closes = 0 => slideObjects[d] = 0..(conversion[d].put - 1)
    /\ conversion[d].step \in {"start", "render"} => conversion[d].put = 0
    /\ conversion[d].step \in {"put", "insert", "ready"} => conversion[d].pages > 0
    /\ conversion[d].step = "put" => conversion[d].put < conversion[d].pages
    /\ conversion[d].step \in {"insert", "ready"} => conversion[d].put = conversion[d].pages
    /\ conversion[d].step = "ready" /\ Exists(d) => slideRows[d] = 0..(conversion[d].pages - 1)

Blank(d) == docStatus[d] = "new" => conversion[d] = NoConversion /\ slideObjects[d] = {} /\ slideCount[d] = 0

\* Nobody turns the pages of what has none.
Inside(d) == slideIndex[d] = 0 \/ slideIndex[d] < slideCount[d]

Complete(d) ==
  docStatus[d] = "READY" =>
    /\ slideCount[d] > 0 /\ slideRows[d] = 0..(slideCount[d] - 1)
    /\ closes = 0 => slideRows[d] \subseteq slideObjects[d]

\* What is shown was ready, and stays so until it is deleted.
Kept(d) == d \in activation \cup shownDoc => docStatus[d] \in {"READY", "deleted"}

\* The images are those of the rows, until close() has listed them; then those left on its list.
Clean(d) ==
  d \notin mayLeak =>
    /\ Busy(d) => Exists(d)
    /\ docStatus[d] = "deleted" => slideObjects[d] = {}
    /\ Exists(d) /\ ~Busy(d) => slideObjects[d] \subseteq slideRows[d]
    /\ purge.step \in {"objects", "rows"} => ~Busy(d) /\ docStatus[d] # "new"
    /\ purge.step = "objects" => \A i \in slideObjects[d] : <<d, i>> \in purge.listed
    /\ purge.step = "rows" => slideObjects[d] = {}

Closed == purge.step # "none" => closes > 0

DocInv(d) == Converting(d) /\ Blank(d) /\ Inside(d) /\ Complete(d) /\ Kept(d) /\ Clean(d)
PresInv   == PresTypeOK /\ Closed /\ \A d \in Docs : DocInv(d)

LEMMA PresInvInit == PresInit => PresInv
<1> SUFFICES ASSUME PresInit PROVE PresInv
  OBVIOUS
<1>1. PresTypeOK
  BY DEF PresInit, PresTypeOK, DocStatus, Pages, NoConversion, NoPurge
<1>2. Closed
  BY DEF PresInit, Closed, NoPurge
<1>3. ASSUME NEW d \in Docs PROVE DocInv(d)
  <2>1. /\ docStatus[d] = "new" /\ slideCount[d] = 0 /\ slideIndex[d] = 0 /\ slideObjects[d] = {}
        /\ conversion[d] = NoConversion /\ activation = {} /\ shownDoc = {} /\ purge = NoPurge
    BY DEF PresInit
  <2>2. ~Busy(d) /\ ~Exists(d)
    BY <2>1 DEF Busy, Exists, NoConversion, Stored
  <2> QED
    BY <2>1, <2>2 DEF DocInv, Converting, Blank, Inside, Complete, Kept, Clean, NoPurge
<1> QED
  BY <1>1, <1>2, <1>3 DEF PresInv

\* What is true of a presentation stays so when nothing of it changes.
Same(d) ==
  /\ docStatus'[d] = docStatus[d] /\ slideCount'[d] = slideCount[d] /\ slideIndex'[d] = slideIndex[d]
  /\ slideRows'[d] = slideRows[d] /\ slideObjects'[d] = slideObjects[d] /\ conversion'[d] = conversion[d]
  /\ d \in activation' \cup shownDoc' => d \in activation \cup shownDoc
  /\ d \in mayLeak => d \in mayLeak'

LEMMA SameDoc ==
  ASSUME NEW d \in Docs, DocInv(d), Same(d), UNCHANGED <<purge, closes>>
  PROVE  DocInv(d)'
<1>1. (Busy(d)' <=> Busy(d)) /\ (Exists(d)' <=> Exists(d))
  BY DEF Same, Busy, Exists
<1>2. Converting(d)'
  BY <1>1 DEF DocInv, Converting, Same
<1>3. Blank(d)' /\ Inside(d)' /\ Complete(d)' /\ Kept(d)'
  BY DEF DocInv, Blank, Inside, Complete, Kept, Same
<1>4. Clean(d)'
  BY <1>1 DEF DocInv, Clean, Same
<1> QED
  BY <1>2, <1>3, <1>4 DEF DocInv

\* A step of one presentation.
LEMMA OneDoc ==
  ASSUME PresInv, PresTypeOK', NEW d \in Docs, UNCHANGED <<purge, closes>>, DocInv(d)',
         \A e \in Docs \ {d} : Same(e)
  PROVE  PresInv'
<1>1. ASSUME NEW e \in Docs PROVE DocInv(e)'
  <2>1. CASE e = d
    BY <2>1
  <2>2. CASE e # d
    <3>1. Same(e) /\ DocInv(e)
      BY <2>2 DEF PresInv
    <3> QED
      BY <3>1, SameDoc
  <2> QED
    BY <2>1, <2>2
<1>2. Closed'
  BY DEF PresInv, Closed
<1> QED
  BY <1>1, <1>2 DEF PresInv

LEMMA ConversionTypes ==
  ASSUME PresInv, NEW d \in Docs
  PROVE  /\ docStatus \in [Docs -> DocStatus] /\ slideCount \in [Docs -> 0..MaxSlides]
         /\ slideIndex \in [Docs -> Pages] /\ slideRows \in [Docs -> SUBSET Pages]
         /\ slideObjects \in [Docs -> SUBSET Pages]
         /\ conversion \in [Docs -> [step : {"none", "start", "render", "put", "insert", "ready"},
                                     pages : 0..MaxSlides, put : 0..MaxSlides]]
         /\ longAgo \subseteq Docs /\ mayLeak \subseteq Docs
         /\ conversion[d].pages \in 0..MaxSlides /\ conversion[d].put \in 0..MaxSlides
         /\ NoConversion \in [step : {"none", "start", "render", "put", "insert", "ready"},
                              pages : 0..MaxSlides, put : 0..MaxSlides]
         /\ NoConversion.step = "none"
BY DEF PresInv, PresTypeOK, NoConversion

LEMMA UploadStep ==
  ASSUME PresInv, NEW d \in Docs, Upload(d)
  PROVE  PresInv'
<1>0. DocInv(d)
  BY DEF PresInv
<1>1. /\ docStatus[d] = "new" /\ docStatus' = [docStatus EXCEPT ![d] = "UPLOADED"]
      /\ conversion' = [conversion EXCEPT ![d].step = "start"]
      /\ UNCHANGED <<slideCount, slideIndex, slideRows, slideObjects, longAgo, stage, purging, mayLeak>>
  BY DEF Upload
<1>2. PresTypeOK'
  <2>1. docStatus' \in [Docs -> DocStatus]
    BY <1>1, ConversionTypes DEF DocStatus
  <2>2. conversion' \in [Docs -> [step : {"none", "start", "render", "put", "insert", "ready"},
                                  pages : 0..MaxSlides, put : 0..MaxSlides]]
    BY <1>1, ConversionTypes
  <2> QED
    BY <1>1, <2>1, <2>2 DEF PresInv, PresTypeOK, stage, purging
<1>3. \A e \in Docs \ {d} : Same(e)
  BY <1>1, ConversionTypes DEF Same, stage
<1>4. /\ docStatus'[d] = "UPLOADED" /\ conversion'[d] = [step |-> "start", pages |-> 0, put |-> 0]
      /\ slideObjects[d] = {} /\ slideCount[d] = 0
  BY <1>0, <1>1, ConversionTypes DEF DocInv, Blank, NoConversion
<1>5. DocInv(d)'
  <2>1. Exists(d)'
    BY <1>4 DEF Exists, Stored
  <2>2. Converting(d)'
    BY <1>1, <1>4 DEF Converting, Busy
  <2>3. Blank(d)' /\ Inside(d)' /\ Complete(d)' /\ Kept(d)'
    BY <1>0, <1>1, <1>4 DEF DocInv, Blank, Inside, Complete, Kept, stage
  <2>4. Clean(d)'
    BY <1>0, <1>1, <1>4, <2>1 DEF DocInv, Clean, purging
  <2> QED
    BY <2>2, <2>3, <2>4 DEF DocInv
<1> QED
  BY <1>1, <1>2, <1>3, <1>5, OneDoc DEF purging

LEMMA StartStep ==
  ASSUME PresInv, NEW d \in Docs, ConvertStart(d)
  PROVE  PresInv'
<1>0. DocInv(d)
  BY DEF PresInv
<1>1. /\ conversion[d].step = "start"
      /\ docStatus' = IF Exists(d) THEN [docStatus EXCEPT ![d] = "CONVERTING"] ELSE docStatus
      /\ conversion' = IF Exists(d) THEN [conversion EXCEPT ![d].step = "render"]
                       ELSE [conversion EXCEPT ![d] = NoConversion]
      /\ UNCHANGED <<slideCount, slideIndex, slideRows, slideObjects, longAgo, stage, purging, mayLeak>>
  BY DEF ConvertStart
<1>2. PresTypeOK'
  <2>1. docStatus' \in [Docs -> DocStatus]
    BY <1>1, ConversionTypes DEF DocStatus
  <2>2. conversion' \in [Docs -> [step : {"none", "start", "render", "put", "insert", "ready"},
                                  pages : 0..MaxSlides, put : 0..MaxSlides]]
    BY <1>1, ConversionTypes
  <2> QED
    BY <1>1, <2>1, <2>2 DEF PresInv, PresTypeOK, stage, purging
<1>3. \A e \in Docs \ {d} : Same(e)
  BY <1>1, ConversionTypes DEF Same, stage
<1>b. Busy(d) /\ docStatus[d] \notin {"new", "READY"} /\ slideCount[d] = 0 /\ conversion[d].put = 0 /\ slideObjects[d] = {}
  BY <1>0, <1>1 DEF DocInv, Converting, Busy
<1>5. DocInv(d)'
  <2>1. CASE Exists(d)
    <3>1. docStatus'[d] = "CONVERTING" /\ conversion'[d] = [conversion[d] EXCEPT !.step = "render"]
      BY <1>1, <2>1, ConversionTypes
    <3>2. conversion'[d].step = "render" /\ conversion'[d].put = 0
      BY <1>b, <3>1, ConversionTypes
    <3>3. Exists(d)'
      BY <3>1 DEF Exists, Stored
    <3>4. Converting(d)'
      BY <1>1, <1>b, <3>1, <3>2 DEF Converting, purging
    <3>k. d \notin activation \cup shownDoc
      BY <1>0, <1>b, <2>1 DEF DocInv, Kept, Exists, Stored
    <3>5. Blank(d)' /\ Inside(d)' /\ Complete(d)' /\ Kept(d)'
      BY <1>0, <1>1, <1>b, <3>1, <3>k DEF DocInv, Blank, Inside, Complete, Kept, stage
    <3>6. Clean(d)'
      BY <1>0, <1>1, <1>b, <3>1, <3>3 DEF DocInv, Clean, purging
    <3> QED
      BY <3>4, <3>5, <3>6 DEF DocInv
  <2>2. CASE ~Exists(d)
    <3>1. docStatus'[d] = docStatus[d] /\ conversion'[d] = NoConversion /\ ~Busy(d)' /\ ~Exists(d)'
      BY <1>1, <2>2, ConversionTypes DEF Busy, Exists
    <3>2. Converting(d)'
      BY <3>1 DEF Converting
    <3>3. Blank(d)' /\ Inside(d)' /\ Complete(d)' /\ Kept(d)'
      BY <1>0, <1>1, <1>b, <3>1 DEF DocInv, Blank, Inside, Complete, Kept, stage
    <3>4. Clean(d)'
      BY <1>0, <1>1, <1>b, <2>2, <3>1 DEF DocInv, Clean, purging
    <3> QED
      BY <3>2, <3>3, <3>4 DEF DocInv
  <2> QED
    BY <2>1, <2>2
<1> QED
  BY <1>1, <1>2, <1>3, <1>5, OneDoc DEF purging

LEMMA RenderStep ==
  ASSUME PresInv, NEW d \in Docs, ConvertRender(d)
  PROVE  PresInv'
<1>0. DocInv(d)
  BY DEF PresInv
<1>1. PICK n \in 1..MaxSlides : conversion' = [conversion EXCEPT ![d] = [step |-> "put", pages |-> n, put |-> 0]]
  BY DEF ConvertRender
<1>2. conversion[d].step = "render" /\ UNCHANGED <<docRow, slideRows, slideObjects, longAgo, stage, purging, mayLeak>>
  BY DEF ConvertRender
<1>3. PresTypeOK'
  <2>1. conversion' \in [Docs -> [step : {"none", "start", "render", "put", "insert", "ready"},
                                  pages : 0..MaxSlides, put : 0..MaxSlides]]
    BY <1>1, ConversionTypes
  <2> QED
    BY <1>2, <2>1 DEF PresInv, PresTypeOK, docRow, stage, purging
<1>4. \A e \in Docs \ {d} : Same(e)
  BY <1>1, <1>2, ConversionTypes DEF Same, stage, docRow
<1>5. conversion'[d] = [step |-> "put", pages |-> n, put |-> 0] /\ Busy(d)' /\ Busy(d) /\ (Exists(d)' <=> Exists(d))
  BY <1>1, <1>2, ConversionTypes DEF Busy, Exists, docRow
<1>b. docStatus[d] \notin {"new", "READY"} /\ slideCount[d] = 0 /\ slideObjects[d] = {}
  BY <1>0, <1>2, <1>5 DEF DocInv, Converting
<1>6. DocInv(d)'
  <2>1. Converting(d)'
    BY <1>2, <1>5, <1>b DEF Converting, docRow, purging
  <2>2. Blank(d)' /\ Inside(d)' /\ Complete(d)' /\ Kept(d)'
    BY <1>0, <1>2, <1>b DEF DocInv, Blank, Inside, Complete, Kept, stage, docRow, purging
  <2>3. Clean(d)'
    BY <1>0, <1>2, <1>5 DEF DocInv, Clean, purging, docRow
  <2> QED
    BY <2>1, <2>2, <2>3 DEF DocInv
<1> QED
  BY <1>2, <1>3, <1>4, <1>6, OneDoc DEF purging

LEMMA PutStep ==
  ASSUME PresInv, NEW d \in Docs, ConvertPut(d)
  PROVE  PresInv'
<1> DEFINE c == conversion[d]
<1>0. DocInv(d)
  BY DEF PresInv
<1>1. /\ c.step = "put" /\ slideObjects' = [slideObjects EXCEPT ![d] = @ \cup {c.put}]
      /\ conversion' = [conversion EXCEPT ![d].put = @ + 1,
                                          ![d].step = IF c.put + 1 = c.pages THEN "insert" ELSE "put"]
      /\ UNCHANGED <<docRow, slideRows, longAgo, stage, purging, mayLeak>>
  BY DEF ConvertPut
<1>b. /\ Busy(d) /\ docStatus[d] \notin {"new", "READY"} /\ slideCount[d] = 0
      /\ c.put < c.pages /\ c.pages > 0 /\ slideObjects[d] \subseteq 0..(c.put - 1)
      /\ closes = 0 => slideObjects[d] = 0..(c.put - 1)
  BY <1>0, <1>1 DEF DocInv, Converting, Busy
<1>t. c.put \in Nat /\ c.pages \in 0..MaxSlides /\ c.put + 1 \in 0..MaxSlides /\ c.put \in Pages
  BY <1>b, ConversionTypes DEF Pages
<1>2. PresTypeOK'
  <2>1. conversion' \in [Docs -> [step : {"none", "start", "render", "put", "insert", "ready"},
                                  pages : 0..MaxSlides, put : 0..MaxSlides]]
    BY <1>1, <1>t, ConversionTypes
  <2>2. slideObjects' \in [Docs -> SUBSET Pages]
    BY <1>1, <1>t, ConversionTypes
  <2> QED
    BY <1>1, <2>1, <2>2 DEF PresInv, PresTypeOK, docRow, stage, purging
<1>3. \A e \in Docs \ {d} : Same(e)
  BY <1>1, ConversionTypes DEF Same, stage, docRow
<1>4. /\ conversion'[d].put = c.put + 1 /\ conversion'[d].pages = c.pages
      /\ conversion'[d].step = IF c.put + 1 = c.pages THEN "insert" ELSE "put"
  BY <1>1, ConversionTypes
<1>5. slideObjects'[d] = slideObjects[d] \cup {c.put}
  BY <1>1, ConversionTypes
<1>6. Busy(d)' /\ (Exists(d)' <=> Exists(d))
  BY <1>1, <1>4 DEF Busy, Exists, docRow
<1>7. /\ slideObjects'[d] \subseteq 0..((c.put + 1) - 1)
      /\ closes = 0 => slideObjects'[d] = 0..((c.put + 1) - 1)
  BY <1>b, <1>t, <1>5
<1>u. UNCHANGED <<docStatus, slideCount, slideIndex, slideRows, shownDoc, activation, purge, closes, mayLeak>>
  BY <1>1 DEF docRow, stage, purging
<1>s. \/ conversion'[d].step = "insert" /\ c.put + 1 = c.pages
      \/ conversion'[d].step = "put" /\ c.put + 1 < c.pages
  BY <1>4, <1>b, <1>t
<1>p. docStatus[d] \notin {"new", "READY"} /\ slideCount[d] = 0 /\ c.pages > 0
  BY <1>b
<1> HIDE DEF c
<1>8. DocInv(d)'
  <2>1. Converting(d)'
    <3>1. slideObjects'[d] \subseteq 0..(conversion'[d].put - 1)
          /\ (closes = 0 => slideObjects'[d] = 0..(conversion'[d].put - 1))
      BY <1>4, <1>7
    <3> QED
      BY <1>4, <1>p, <1>s, <1>u, <3>1 DEF Converting
  <2>2. Blank(d)' /\ Inside(d)' /\ Complete(d)' /\ Kept(d)'
    BY <1>0, <1>p, <1>u DEF DocInv, Blank, Inside, Complete, Kept
  <2>3. Clean(d)'
    <3>1. CASE d \in mayLeak
      BY <1>u, <3>1 DEF Clean
    <3>2. CASE d \notin mayLeak
      <4>1. Exists(d) /\ purge.step \notin {"objects", "rows"}
        BY <1>0, <1>b, <3>2 DEF DocInv, Clean
      <4>2. docStatus[d] # "deleted"
        BY <4>1 DEF Exists, Stored
      <4> QED
        BY <1>6, <1>u, <4>1, <4>2 DEF Clean
    <3> QED
      BY <3>1, <3>2
  <2> QED
    BY <2>1, <2>2, <2>3 DEF DocInv
<1> QED
  BY <1>1, <1>2, <1>3, <1>8, OneDoc DEF purging

\* A failure leaks what was stored, and nothing else is claimed of it.
LEMMA FailStep ==
  ASSUME PresInv, NEW d \in Docs, Busy(d), FailConversion(d)
  PROVE  PresInv'
<1>0. DocInv(d)
  BY DEF PresInv
<1>1. /\ docStatus' = IF Exists(d) THEN [docStatus EXCEPT ![d] = "FAILED"] ELSE docStatus
      /\ conversion' = [conversion EXCEPT ![d] = NoConversion]
      /\ mayLeak' = mayLeak \cup {d}
      /\ UNCHANGED <<slideCount, slideIndex, slideRows, slideObjects, longAgo, stage, purging>>
  BY DEF FailConversion
<1>2. PresTypeOK'
  <2>1. docStatus' \in [Docs -> DocStatus]
    BY <1>1, ConversionTypes DEF DocStatus
  <2>2. conversion' \in [Docs -> [step : {"none", "start", "render", "put", "insert", "ready"},
                                  pages : 0..MaxSlides, put : 0..MaxSlides]]
    BY <1>1, ConversionTypes
  <2>3. mayLeak' \subseteq Docs
    BY <1>1, ConversionTypes
  <2> QED
    BY <1>1, <2>1, <2>2, <2>3 DEF PresInv, PresTypeOK, stage, purging
<1>3. \A e \in Docs \ {d} : Same(e)
  BY <1>1, ConversionTypes DEF Same, stage
<1>4. docStatus'[d] \notin {"new", "READY"} /\ (docStatus[d] = "deleted" => docStatus'[d] = "deleted")
      /\ slideCount[d] = 0 /\ docStatus[d] # "READY"
  BY <1>0, <1>1, ConversionTypes DEF DocInv, Converting, Exists, Stored
<1>5. conversion'[d] = NoConversion /\ ~Busy(d)' /\ d \in mayLeak'
  BY <1>1, ConversionTypes DEF Busy
<1>6. DocInv(d)'
  <2>1. Converting(d)' /\ Clean(d)'
    BY <1>5 DEF Converting, Clean
  <2>2. Blank(d)' /\ Inside(d)' /\ Complete(d)' /\ Kept(d)'
    BY <1>0, <1>1, <1>4 DEF DocInv, Blank, Inside, Complete, Kept, stage
  <2> QED
    BY <2>1, <2>2 DEF DocInv
<1> QED
  BY <1>1, <1>2, <1>3, <1>6, OneDoc DEF purging

LEMMA InsertStep ==
  ASSUME PresInv, NEW d \in Docs, ConvertInsert(d)
  PROVE  PresInv'
<1>0. DocInv(d) /\ Busy(d) /\ conversion[d].step = "insert"
  BY DEF PresInv, ConvertInsert, Busy
<1>1. CASE ~Exists(d)
  BY <1>0, <1>1, FailStep DEF ConvertInsert
<1>2. CASE Exists(d)
  <2>1. /\ slideRows' = [slideRows EXCEPT ![d] = 0..(conversion[d].pages - 1)]
        /\ conversion' = [conversion EXCEPT ![d].step = "ready"]
        /\ UNCHANGED <<docRow, slideObjects, longAgo, stage, purging, mayLeak>>
    BY <1>2 DEF ConvertInsert
  <2>2. /\ docStatus[d] \notin {"new", "READY"} /\ slideCount[d] = 0
        /\ conversion[d].pages > 0 /\ conversion[d].put = conversion[d].pages
        /\ slideObjects[d] \subseteq 0..(conversion[d].put - 1)
        /\ closes = 0 => slideObjects[d] = 0..(conversion[d].put - 1)
    BY <1>0 DEF DocInv, Converting
  <2>3. PresTypeOK'
    <3>1. 0..(conversion[d].pages - 1) \subseteq Pages
      BY ConversionTypes DEF Pages
    <3>2. slideRows' \in [Docs -> SUBSET Pages]
      BY <2>1, <3>1, ConversionTypes
    <3>3. conversion' \in [Docs -> [step : {"none", "start", "render", "put", "insert", "ready"},
                                    pages : 0..MaxSlides, put : 0..MaxSlides]]
      BY <2>1, ConversionTypes
    <3> QED
      BY <2>1, <3>2, <3>3 DEF PresInv, PresTypeOK, docRow, stage, purging
  <2>4. \A e \in Docs \ {d} : Same(e)
    BY <2>1, ConversionTypes DEF Same, stage, docRow
  <2>5. /\ slideRows'[d] = 0..(conversion[d].pages - 1)
        /\ conversion'[d].step = "ready" /\ conversion'[d].pages = conversion[d].pages
        /\ conversion'[d].put = conversion[d].put
    BY <2>1, ConversionTypes
  <2>6. Busy(d)' /\ Exists(d)'
    BY <1>2, <2>1, <2>5 DEF Busy, Exists, docRow
  <2>7. DocInv(d)'
    <3>1. Converting(d)'
      BY <2>1, <2>2, <2>5 DEF Converting, docRow, purging
    <3>2. Blank(d)' /\ Inside(d)' /\ Complete(d)' /\ Kept(d)'
      BY <1>0, <2>1, <2>2 DEF DocInv, Blank, Inside, Complete, Kept, stage, docRow, purging
    <3>3. Clean(d)'
      BY <1>0, <2>1, <2>2, <2>6 DEF DocInv, Clean, purging, docRow
    <3> QED
      BY <3>1, <3>2, <3>3 DEF DocInv
  <2> QED
    BY <2>1, <2>3, <2>4, <2>7, OneDoc DEF purging
<1> QED
  BY <1>1, <1>2

LEMMA ReadyStep ==
  ASSUME PresInv, NEW d \in Docs, ConvertReady(d)
  PROVE  PresInv'
<1>0. DocInv(d) /\ Busy(d) /\ conversion[d].step = "ready"
  BY DEF PresInv, ConvertReady, Busy
<1>1. CASE ~Exists(d)
  BY <1>0, <1>1, FailStep DEF ConvertReady
<1>2. CASE Exists(d)
  <2>1. /\ docStatus' = [docStatus EXCEPT ![d] = "READY"]
        /\ slideCount' = [slideCount EXCEPT ![d] = conversion[d].pages]
        /\ conversion' = [conversion EXCEPT ![d] = NoConversion]
        /\ UNCHANGED <<slideIndex, slideRows, slideObjects, longAgo, stage, purging, mayLeak>>
    BY <1>2 DEF ConvertReady
  <2>2. /\ docStatus[d] \notin {"new", "READY"} /\ slideCount[d] = 0
        /\ conversion[d].pages > 0 /\ conversion[d].put = conversion[d].pages
        /\ slideObjects[d] \subseteq 0..(conversion[d].put - 1)
        /\ closes = 0 => slideObjects[d] = 0..(conversion[d].put - 1)
        /\ slideRows[d] = 0..(conversion[d].pages - 1)
    BY <1>0, <1>2 DEF DocInv, Converting
  <2>3. PresTypeOK'
    <3>1. docStatus' \in [Docs -> DocStatus]
      BY <2>1, ConversionTypes DEF DocStatus
    <3>2. slideCount' \in [Docs -> 0..MaxSlides]
      BY <2>1, ConversionTypes
    <3>3. conversion' \in [Docs -> [step : {"none", "start", "render", "put", "insert", "ready"},
                                    pages : 0..MaxSlides, put : 0..MaxSlides]]
      BY <2>1, ConversionTypes
    <3> QED
      BY <2>1, <3>1, <3>2, <3>3 DEF PresInv, PresTypeOK, stage, purging
  <2>4. \A e \in Docs \ {d} : Same(e)
    BY <2>1, ConversionTypes DEF Same, stage
  <2>5. docStatus'[d] = "READY" /\ slideCount'[d] = conversion[d].pages /\ conversion'[d] = NoConversion
    BY <2>1, ConversionTypes
  <2>6. ~Busy(d)' /\ Exists(d)'
    BY <2>5 DEF Busy, Exists, Stored, NoConversion
  <2>7. DocInv(d)'
    <3>1. Converting(d)'
      BY <2>6 DEF Converting
    <3>2. Inside(d)'
      <4>1. slideIndex[d] = 0
        BY <1>0, <2>2, ConversionTypes DEF DocInv, Inside, Pages
      <4> QED
        BY <2>1, <4>1 DEF Inside
    <3>3. Blank(d)' /\ Complete(d)' /\ Kept(d)'
      BY <1>0, <2>1, <2>2, <2>5 DEF DocInv, Blank, Complete, Kept, stage, purging
    <3>4. Clean(d)'
      BY <1>0, <2>1, <2>2, <2>5, <2>6 DEF DocInv, Clean, purging
    <3> QED
      BY <3>1, <3>2, <3>3, <3>4 DEF DocInv
  <2> QED
    BY <2>1, <2>3, <2>4, <2>7, OneDoc DEF purging
<1> QED
  BY <1>1, <1>2

\* Steps that touch no row, no image and no conversion.
LEMMA NoDoc ==
  ASSUME PresInv, PresTypeOK', UNCHANGED <<purge, closes>>, \A e \in Docs : Same(e)
  PROVE  PresInv'
<1>1. ASSUME NEW e \in Docs PROVE DocInv(e)'
  <2>1. Same(e) /\ DocInv(e)
    BY DEF PresInv
  <2> QED
    BY <2>1, SameDoc
<1>2. Closed'
  BY DEF PresInv, Closed
<1> QED
  BY <1>1, <1>2 DEF PresInv

LEMMA CronStep == ASSUME PresInv, StuckCron PROVE PresInv'
<1>0. /\ docStatus' = [d \in Docs |-> IF d \in longAgo /\ docStatus[d] = "CONVERTING" THEN "FAILED" ELSE docStatus[d]]
      /\ UNCHANGED <<slideCount, slideIndex, slideRows, slideObjects, conversion, longAgo, stage, purging, mayLeak>>
  BY DEF StuckCron
<1>1. PresTypeOK'
  <2>1. docStatus' \in [Docs -> DocStatus]
    BY <1>0 DEF PresInv, PresTypeOK, DocStatus
  <2> QED
    BY <1>0, <2>1 DEF PresInv, PresTypeOK, stage, purging
<1>u. UNCHANGED <<slideCount, slideIndex, slideRows, slideObjects, conversion, shownDoc, activation, purge, closes, mayLeak>>
  BY <1>0 DEF stage, purging
<1>2. ASSUME NEW e \in Docs PROVE DocInv(e)'
  <2>0. DocInv(e)
    BY DEF PresInv
  <2>1. docStatus'[e] = docStatus[e] \/ (docStatus[e] = "CONVERTING" /\ docStatus'[e] = "FAILED")
    BY <1>0
  <2>2. CASE docStatus'[e] = docStatus[e]
    <3>1. Same(e)
      BY <1>u, <2>2 DEF Same
    <3> QED
      BY <1>u, <2>0, <3>1, SameDoc
  <2>3. CASE docStatus[e] = "CONVERTING" /\ docStatus'[e] = "FAILED"
    <3>1. Exists(e)' /\ Exists(e) /\ (Busy(e)' <=> Busy(e))
      BY <1>u, <2>3 DEF Exists, Stored, Busy
    <3>2. Converting(e)'
      BY <1>u, <2>0, <2>3, <3>1 DEF DocInv, Converting
    <3>3. Blank(e)' /\ Inside(e)' /\ Complete(e)' /\ Kept(e)'
      BY <1>u, <2>0, <2>3 DEF DocInv, Blank, Inside, Complete, Kept
    <3>4. Clean(e)'
      BY <1>u, <2>0, <2>3, <3>1 DEF DocInv, Clean
    <3> QED
      BY <3>2, <3>3, <3>4 DEF DocInv
  <2> QED
    BY <2>1, <2>2, <2>3
<1>3. Closed'
  BY <1>u DEF PresInv, Closed
<1> QED
  BY <1>1, <1>2, <1>3 DEF PresInv

\* What the room and the manager's panel show.
LEMMA ViewSteps ==
  ASSUME PresInv
  PROVE  /\ \A d \in Docs : Ages(d) \/ ActivateCheck(d) \/ ActivateWrite(d) => PresInv'
         /\ Deactivate \/ RefreshActive => PresInv'
         /\ \A v \in panelDoc : Navigate(v) => PresInv'
<1>0. \A e \in Docs : DocInv(e)
  BY DEF PresInv
<1>1. ASSUME NEW d \in Docs, Ages(d) PROVE PresInv'
  <2>1. PresTypeOK'
    BY <1>1 DEF Ages, PresInv, PresTypeOK, docRow, stage, purging
  <2>2. \A e \in Docs : Same(e)
    BY <1>1 DEF Ages, Same, docRow, stage
  <2> QED
    BY <1>1, <2>1, <2>2, NoDoc DEF Ages, purging
<1>2. ASSUME NEW d \in Docs, ActivateCheck(d) PROVE PresInv'
  <2>1. PresTypeOK'
    BY <1>2 DEF ActivateCheck, PresInv, PresTypeOK, docRow, purging
  <2>2. \A e \in Docs \ {d} : Same(e)
    BY <1>2 DEF ActivateCheck, Same, docRow
  <2>u. UNCHANGED <<docStatus, slideCount, slideIndex, slideRows, slideObjects, conversion, purge, closes, mayLeak>>
        /\ docStatus[d] = "READY"
    BY <1>2 DEF ActivateCheck, docRow, purging
  <2>3. (Busy(d)' <=> Busy(d)) /\ (Exists(d)' <=> Exists(d))
    BY <2>u DEF Busy, Exists
  <2>4. Converting(d)' /\ Blank(d)' /\ Inside(d)' /\ Complete(d)' /\ Clean(d)'
    BY <1>0, <2>u, <2>3 DEF DocInv, Converting, Blank, Inside, Complete, Clean
  <2>5. Kept(d)'
    BY <2>u DEF Kept
  <2>6. DocInv(d)'
    BY <2>4, <2>5 DEF DocInv
  <2> QED
    BY <2>1, <2>2, <2>u, <2>6, OneDoc
<1>3. ASSUME NEW d \in Docs, ActivateWrite(d) PROVE PresInv'
  <2>1. PresTypeOK'
    BY <1>3 DEF ActivateWrite, PresInv, PresTypeOK, docRow, purging
  <2>2. \A e \in Docs : Same(e)
    BY <1>3 DEF ActivateWrite, Same, docRow
  <2> QED
    BY <1>3, <2>1, <2>2, NoDoc DEF ActivateWrite, purging
<1>4. ASSUME Deactivate PROVE PresInv'
  <2>1. PresTypeOK'
    BY <1>4 DEF Deactivate, PresInv, PresTypeOK, docRow, purging
  <2>2. \A e \in Docs : Same(e)
    BY <1>4 DEF Deactivate, Same, docRow
  <2> QED
    BY <1>4, <2>1, <2>2, NoDoc DEF Deactivate, purging
<1>5. ASSUME RefreshActive PROVE PresInv'
  <2>1. ActiveView \subseteq PanelView
    BY DEF ActiveView, PanelView, PresInv, PresTypeOK
  <2>2. PresTypeOK'
    BY <1>5, <2>1 DEF RefreshActive, PresInv, PresTypeOK, docRow, purging
  <2>3. \A e \in Docs : Same(e)
    BY <1>5 DEF RefreshActive, Same, docRow
  <2> QED
    BY <1>5, <2>2, <2>3, NoDoc DEF RefreshActive, purging
<1>6. ASSUME NEW v \in panelDoc, Navigate(v) PROVE PresInv'
  <2> DEFINE d == v.doc
  <2>0. d \in Docs /\ v.index \in Nat
    BY DEF PresInv, PresTypeOK, PanelView, Pages
  <2>1. PICK i \in {v.index - 1, v.index + 1} :
             i >= 0 /\ i < slideCount[d] /\ slideIndex' = [slideIndex EXCEPT ![d] = i]
    BY <1>6 DEF Navigate, HasSlide
  <2>u. UNCHANGED <<docStatus, slideCount, slideRows, slideObjects, conversion, longAgo, shownDoc, activation, panelDoc,
                    purge, closes, reboots, mayLeak>>
    BY <1>6 DEF Navigate, stage, purging
  <2> HIDE DEF d
  <2>2. slideCount[d] \in 0..MaxSlides /\ i \in Int
    BY <2>0, <2>1, ConversionTypes
  <2>3. i \in Pages
    BY <2>1, <2>2 DEF Pages
  <2>4. slideIndex' \in [Docs -> Pages]
    BY <2>1, <2>3, ConversionTypes, <2>0
  <2>5. PresTypeOK'
    BY <2>u, <2>4 DEF PresInv, PresTypeOK
  <2>6. slideIndex'[d] = i /\ \A e \in Docs \ {d} : slideIndex'[e] = slideIndex[e]
    BY <2>0, <2>1, ConversionTypes
  <2>7. \A e \in Docs \ {d} : Same(e)
    BY <2>u, <2>6 DEF Same
  <2>8. (Busy(d)' <=> Busy(d)) /\ (Exists(d)' <=> Exists(d))
    BY <2>u DEF Busy, Exists
  <2>9. Converting(d)' /\ Blank(d)' /\ Complete(d)' /\ Kept(d)' /\ Clean(d)'
    BY <1>0, <2>0, <2>u, <2>8 DEF DocInv, Converting, Blank, Complete, Kept, Clean
  <2>10. Inside(d)'
    BY <2>u, <2>1, <2>6 DEF Inside
  <2>11. DocInv(d)'
    BY <2>9, <2>10 DEF DocInv
  <2> QED
    BY <2>0, <2>u, <2>5, <2>7, <2>11, OneDoc
<1> QED
  BY <1>1, <1>2, <1>3, <1>4, <1>5, <1>6

\* The clean-up of close(): it lists what has a row, deletes the images, then the rows.
LEMMA ListStep == ASSUME PresInv, PurgeList PROVE PresInv'
<1>1. /\ closes' = closes + 1 /\ closes < MaxCloses
      /\ purge' = [step |-> "objects",
                   listed |-> UNION {{d} \X slideRows[d] : d \in {x \in Docs : Exists(x)}}]
      /\ mayLeak' = mayLeak \cup {d \in Docs : Busy(d) \/ docStatus[d] = "new"}
      /\ UNCHANGED <<docStatus, slideCount, slideIndex, slideRows, slideObjects, conversion, longAgo,
                     shownDoc, activation, panelDoc, reboots>>
  BY DEF PurgeList, docRow, stage
<1>2. closes \in Nat /\ closes' \in 0..MaxCloses /\ closes' > 0
  BY <1>1 DEF PresInv, PresTypeOK
<1>3. PresTypeOK'
  <2>1. UNION {{d} \X slideRows[d] : d \in {x \in Docs : Exists(x)}} \subseteq Docs \X Pages
    BY DEF PresInv, PresTypeOK
  <2>2. purge' \in [step : {"none", "objects", "rows", "end"}, listed : SUBSET (Docs \X Pages)]
    BY <1>1, <2>1
  <2> QED
    BY <1>1, <1>2, <2>2 DEF PresInv, PresTypeOK
<1>4. ASSUME NEW e \in Docs PROVE DocInv(e)'
  <2>0. DocInv(e)
    BY DEF PresInv
  <2>1. (Busy(e)' <=> Busy(e)) /\ (Exists(e)' <=> Exists(e))
    BY <1>1 DEF Busy, Exists
  <2>2. Converting(e)' /\ Complete(e)'
    BY <1>1, <1>2, <2>0, <2>1 DEF DocInv, Converting, Complete
  <2>3. Blank(e)' /\ Inside(e)' /\ Kept(e)'
    BY <1>1, <2>0 DEF DocInv, Blank, Inside, Kept
  <2>4. Clean(e)'
    <3> SUFFICES ASSUME e \notin mayLeak'
                 PROVE  /\ Busy(e) => Exists(e)
                        /\ docStatus[e] = "deleted" => slideObjects[e] = {}
                        /\ Exists(e) /\ ~Busy(e) => slideObjects[e] \subseteq slideRows[e]
                        /\ ~Busy(e) /\ docStatus[e] # "new"
                        /\ \A i \in slideObjects[e] : <<e, i>> \in purge'.listed
      BY <1>1, <2>1 DEF Clean
    <3>1. e \notin mayLeak /\ ~Busy(e) /\ docStatus[e] # "new"
      BY <1>1
    <3>2. /\ docStatus[e] = "deleted" => slideObjects[e] = {}
          /\ Exists(e) => slideObjects[e] \subseteq slideRows[e]
      BY <2>0, <3>1 DEF DocInv, Clean
    <3>3. docStatus[e] = "deleted" \/ Exists(e)
      BY <3>1 DEF Exists, Stored, DocStatus, PresInv, PresTypeOK
    <3>4. Exists(e) => \A i \in slideRows[e] : <<e, i>> \in purge'.listed
      BY <1>1
    <3> QED
      BY <3>1, <3>2, <3>3, <3>4
  <2> QED
    BY <2>2, <2>3, <2>4 DEF DocInv
<1>5. Closed'
  BY <1>2 DEF Closed
<1> QED
  BY <1>3, <1>4, <1>5 DEF PresInv

LEMMA ObjectStep == ASSUME PresInv, PurgeObject PROVE PresInv'
<1>u. /\ purge.step = "objects"
      /\ UNCHANGED <<docStatus, slideCount, slideIndex, slideRows, conversion, longAgo, shownDoc, activation, panelDoc,
                     closes, reboots>>
  BY DEF PurgeObject, docRow, stage
<1>c. closes > 0 /\ closes' > 0
  BY <1>u DEF PresInv, Closed
<1>t. purge \in [step : {"none", "objects", "rows", "end"}, listed : SUBSET (Docs \X Pages)]
  BY DEF PresInv, PresTypeOK
<1>l. /\ mayLeak \subseteq mayLeak' /\ mayLeak' \subseteq Docs
      /\ slideObjects' \in [Docs -> SUBSET Pages] /\ \A e \in Docs : slideObjects'[e] \subseteq slideObjects[e]
  <2>1. \/ UNCHANGED <<slideObjects, mayLeak>>
        \/ \E x \in purge.listed : \/ slideObjects' = [slideObjects EXCEPT ![x[1]] = @ \ {x[2]}] /\ UNCHANGED mayLeak
                                   \/ mayLeak' = mayLeak \cup {x[1]} /\ UNCHANGED slideObjects
    BY DEF PurgeObject
  <2>2. \A x \in purge.listed : x[1] \in Docs
    BY <1>t
  <2>3. slideObjects \in [Docs -> SUBSET Pages] /\ mayLeak \subseteq Docs
    BY DEF PresInv, PresTypeOK
  <2> QED
    BY <2>1, <2>2, <2>3
<1>p. \/ purge.listed = {} /\ purge' = [purge EXCEPT !.step = "rows"]
      \/ \E x \in purge.listed : purge' = [purge EXCEPT !.listed = @ \ {x}]
  BY DEF PurgeObject
<1>1. PresTypeOK'
  <2>1. purge' \in [step : {"none", "objects", "rows", "end"}, listed : SUBSET (Docs \X Pages)]
    BY <1>p, <1>t
  <2> QED
    BY <1>u, <1>l, <2>1 DEF PresInv, PresTypeOK
<1>2. ASSUME NEW e \in Docs PROVE DocInv(e)'
  <2>0. DocInv(e)
    BY DEF PresInv
  <2>1. (Busy(e)' <=> Busy(e)) /\ (Exists(e)' <=> Exists(e))
    BY <1>u DEF Busy, Exists
  <2>2. slideObjects'[e] \subseteq slideObjects[e] /\ (e \in mayLeak => e \in mayLeak')
    BY <1>l
  <2>3. Converting(e)'
    BY <1>u, <1>c, <2>0, <2>1, <2>2 DEF DocInv, Converting
  <2>4. Blank(e)' /\ Inside(e)' /\ Complete(e)' /\ Kept(e)'
    BY <1>u, <1>c, <2>0, <2>2 DEF DocInv, Blank, Inside, Complete, Kept
  <2>5. Clean(e)'
    <3> SUFFICES ASSUME e \notin mayLeak' PROVE Clean(e)'
      BY DEF Clean
    <3>1. /\ e \notin mayLeak /\ ~Busy(e) /\ docStatus[e] # "new"
          /\ docStatus[e] = "deleted" => slideObjects'[e] = {}
          /\ Exists(e) => slideObjects'[e] \subseteq slideRows[e]
          /\ \A i \in slideObjects'[e] : <<e, i>> \in purge.listed
      BY <1>u, <2>0, <2>2 DEF DocInv, Clean
    <3>2. CASE purge.listed = {} /\ purge' = [purge EXCEPT !.step = "rows"]
      <4>1. purge'.step = "rows" /\ slideObjects'[e] = {}
        BY <1>t, <3>1, <3>2
      <4> QED
        BY <1>u, <2>1, <3>1, <4>1 DEF Clean
    <3>3. ASSUME NEW x \in purge.listed, purge' = [purge EXCEPT !.listed = @ \ {x}],
                 \/ slideObjects' = [slideObjects EXCEPT ![x[1]] = @ \ {x[2]}]
                 \/ mayLeak' = mayLeak \cup {x[1]}
          PROVE  Clean(e)'
      <4>1. purge'.step = "objects" /\ purge'.listed = purge.listed \ {x} /\ x = <<x[1], x[2]>> /\ x[1] \in Docs
        BY <1>t, <1>u, <3>3
      <4>2. \A i \in slideObjects'[e] : <<e, i>> # x
        <5>1. CASE mayLeak' = mayLeak \cup {x[1]}
          BY <4>1, <5>1
        <5>2. CASE slideObjects' = [slideObjects EXCEPT ![x[1]] = @ \ {x[2]}]
          <6>1. e = x[1] => slideObjects'[e] = slideObjects[e] \ {x[2]}
            BY <4>1, <5>2 DEF PresInv, PresTypeOK
          <6> QED
            BY <4>1, <6>1
        <5> QED
          BY <3>3, <5>1, <5>2
      <4>3. \A i \in slideObjects'[e] : <<e, i>> \in purge'.listed
        BY <3>1, <4>1, <4>2
      <4> QED
        BY <1>u, <2>1, <3>1, <4>1, <4>3 DEF Clean
    <3> QED
      BY <3>2, <3>3 DEF PurgeObject
  <2> QED
    BY <2>3, <2>4, <2>5 DEF DocInv
<1>3. Closed'
  BY <1>c DEF Closed
<1> QED
  BY <1>1, <1>2, <1>3 DEF PresInv

LEMMA RowsStep == ASSUME PresInv, PurgeRows PROVE PresInv'
<1>1. /\ purge.step = "rows"
      /\ docStatus' = [d \in Docs |-> IF Exists(d) THEN "deleted" ELSE docStatus[d]]
      /\ slideRows' = [d \in Docs |-> {}] /\ purge' = [purge EXCEPT !.step = "end"]
      /\ UNCHANGED <<slideCount, slideIndex, slideObjects, conversion, longAgo, shownDoc, activation, panelDoc,
                     closes, reboots, mayLeak>>
  BY DEF PurgeRows, stage
<1>2. PresTypeOK'
  <2>1. docStatus' \in [Docs -> DocStatus]
    BY <1>1 DEF PresInv, PresTypeOK, DocStatus
  <2>2. slideRows' \in [Docs -> SUBSET Pages]
    BY <1>1
  <2>3. purge' \in [step : {"none", "objects", "rows", "end"}, listed : SUBSET (Docs \X Pages)]
    BY <1>1 DEF PresInv, PresTypeOK
  <2> QED
    BY <1>1, <2>1, <2>2, <2>3 DEF PresInv, PresTypeOK
<1>3. ASSUME NEW e \in Docs PROVE DocInv(e)'
  <2>0. DocInv(e) /\ docStatus[e] \in DocStatus
    BY DEF PresInv, PresTypeOK
  <2>1. docStatus'[e] \in {"new", "deleted"} /\ (docStatus'[e] = "new" <=> docStatus[e] = "new")
    BY <1>1, <2>0 DEF Exists, Stored, DocStatus
  <2>2. ~Exists(e)' /\ (Busy(e)' <=> Busy(e))
    BY <1>1, <2>1 DEF Exists, Stored, Busy
  <2>3. Converting(e)'
    BY <1>1, <2>0, <2>1, <2>2 DEF DocInv, Converting
  <2>4. Blank(e)' /\ Inside(e)' /\ Complete(e)'
    BY <1>1, <2>0, <2>1 DEF DocInv, Blank, Inside, Complete
  <2>5. Kept(e)'
    <3>1. e \in activation \cup shownDoc => docStatus[e] # "new"
      BY <2>0 DEF DocInv, Kept
    <3> QED
      BY <1>1, <2>1, <3>1 DEF Kept
  <2>6. Clean(e)'
    <3>1. purge'.step = "end"
      BY <1>1 DEF PresInv, PresTypeOK
    <3>2. e \notin mayLeak => ~Busy(e) /\ slideObjects[e] = {}
      BY <1>1, <2>0 DEF DocInv, Clean
    <3> QED
      BY <1>1, <2>2, <3>1, <3>2 DEF Clean
  <2> QED
    BY <2>3, <2>4, <2>5, <2>6 DEF DocInv
<1>4. Closed'
  BY <1>1 DEF PresInv, Closed
<1> QED
  BY <1>2, <1>3, <1>4 DEF PresInv

\* The end of close(), and a restart: the clean-up stops where it is.
LEMMA StopSteps == ASSUME PresInv, PurgeEnd \/ Reboot PROVE PresInv'
<1>1. /\ purge' = NoPurge /\ mayLeak \subseteq mayLeak' /\ mayLeak' \subseteq Docs
      /\ conversion' \in {conversion, [d \in Docs |-> NoConversion]}
      /\ conversion' = conversion \/ \A d \in Docs : Busy(d) => d \in mayLeak'
      /\ shownDoc' \subseteq shownDoc /\ activation' \subseteq activation
      /\ UNCHANGED <<docStatus, slideCount, slideIndex, slideRows, slideObjects, longAgo, panelDoc, closes>>
      /\ reboots' \in 0..MaxReboots
  BY DEF PurgeEnd, Reboot, docRow, stage, purging, PresInv, PresTypeOK
<1>2. PresTypeOK'
  <2>1. conversion' \in [Docs -> [step : {"none", "start", "render", "put", "insert", "ready"},
                                  pages : 0..MaxSlides, put : 0..MaxSlides]]
    BY <1>1 DEF PresInv, PresTypeOK, NoConversion
  <2>2. purge' \in [step : {"none", "objects", "rows", "end"}, listed : SUBSET (Docs \X Pages)]
    BY <1>1 DEF NoPurge
  <2> QED
    BY <1>1, <2>1, <2>2 DEF PresInv, PresTypeOK
<1>3. ASSUME NEW e \in Docs PROVE DocInv(e)'
  <2>0. DocInv(e)
    BY DEF PresInv
  <2>1. Exists(e)' <=> Exists(e)
    BY <1>1 DEF Exists
  <2>2. \/ conversion'[e] = conversion[e]
        \/ conversion'[e] = NoConversion /\ ~Busy(e)' /\ (Busy(e) => e \in mayLeak')
    BY <1>1 DEF Busy, NoConversion
  <2>3. Converting(e)'
    BY <1>1, <2>0, <2>1, <2>2 DEF DocInv, Converting, Busy
  <2>4. Blank(e)' /\ Inside(e)' /\ Complete(e)' /\ Kept(e)'
    BY <1>1, <2>0, <2>2 DEF DocInv, Blank, Inside, Complete, Kept
  <2>5. Clean(e)'
    <3>1. purge'.step = "none"
      BY <1>1 DEF NoPurge
    <3>2. (conversion'[e] = conversion[e]) => (Busy(e)' <=> Busy(e))
      BY DEF Busy
    <3> QED
      BY <1>1, <2>0, <2>1, <2>2, <3>1, <3>2 DEF DocInv, Clean
  <2> QED
    BY <2>3, <2>4, <2>5 DEF DocInv
<1>4. Closed'
  BY <1>1 DEF Closed, NoPurge
<1> QED
  BY <1>2, <1>3, <1>4 DEF PresInv

LEMMA PresInvStep == PresInv /\ [PresNext]_presVars => PresInv'
<1> SUFFICES ASSUME PresInv, [PresNext]_presVars PROVE PresInv'
  OBVIOUS
<1>1. ASSUME NEW d \in Docs, ConvertFails(d) PROVE PresInv'
  BY <1>1, FailStep DEF ConvertFails, Busy
<1>2. CASE UNCHANGED presVars
  <2>1. PresTypeOK'
    BY <1>2 DEF PresInv, PresTypeOK, presVars
  <2>2. \A e \in Docs : Same(e)
    BY <1>2 DEF Same, presVars
  <2> QED
    BY <1>2, <2>1, <2>2, NoDoc DEF presVars
<1> QED
  BY <1>1, <1>2, UploadStep, StartStep, RenderStep, PutStep, InsertStep, ReadyStep, CronStep, ViewSteps,
     ListStep, ObjectStep, RowsStep, StopSteps DEF PresNext

\* A presentation shown is complete, and a deleted one has no image left that the code
\* is to delete.
LEMMA PresInvMeans == PresInv => PresTypeOK /\ ImagesWithRows
<1> SUFFICES ASSUME PresInv PROVE ImagesWithRows
  BY DEF PresInv
<1>1. ASSUME NEW v \in ActiveView
      PROVE  /\ v.count > 0 /\ v.index < v.count
             /\ slideRows[v.doc] = 0..(v.count - 1)
             /\ closes = 0 => slideRows[v.doc] \subseteq slideObjects[v.doc]
  <2>1. PICK d \in shownDoc : Exists(d) /\ v = [doc |-> d, index |-> slideIndex[d], count |-> slideCount[d]]
    BY DEF ActiveView
  <2>2. d \in Docs
    BY DEF PresInv, PresTypeOK
  <2>3. DocInv(d)
    BY <2>2 DEF PresInv
  <2>4. docStatus[d] = "READY"
    BY <2>1, <2>3 DEF DocInv, Kept, Exists, Stored
  <2>5. slideCount[d] > 0 /\ slideRows[d] = 0..(slideCount[d] - 1)
        /\ (closes = 0 => slideRows[d] \subseteq slideObjects[d]) /\ slideIndex[d] < slideCount[d]
    BY <2>3, <2>4 DEF DocInv, Complete, Inside
  <2> QED
    BY <2>1, <2>5
<1>2. ASSUME NEW d \in Docs \ mayLeak, docStatus[d] = "deleted" PROVE slideObjects[d] = {}
  BY <1>2 DEF PresInv, DocInv, Clean
<1> QED
  BY <1>1, <1>2 DEF ImagesWithRows, ShownIsComplete, NoOrphanImages

\* Every variable keeps its type: no page is put or shown beyond the pages there are.
THEOREM PresTypeCorrect == PresSpec => []PresTypeOK
<1> QED
  BY PresInvInit, PresInvStep, PresInvMeans, PTL DEF PresSpec

\* What the room is shown is complete, and a clean-up leaves no image behind but those
\* of a conversion that failed, was under way or came meanwhile, and what S3 refused.
THEOREM ImagesGoWithRows == PresSpec => []ImagesWithRows
<1> QED
  BY PresInvInit, PresInvStep, PresInvMeans, PTL DEF PresSpec

================================================================================
