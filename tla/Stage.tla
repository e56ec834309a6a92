-------------------------------- MODULE Stage --------------------------------
(***************************************************************************)
(* The stage of a spectator (CallStage): automatic subscription is off, so *)
(* the page subscribes by itself to the one video it shows in large (a     *)
(* screen, else OBS, else the camera of a moderator, else another) and to  *)
(* every voice.  Publications come and go; an effect follows each change.  *)
(***************************************************************************)
EXTENDS Naturals, Sequences, SequencesExt, FiniteSets

CONSTANT MaxPubs       \* bound on the publications ever made

ASSUME StageAssumption == MaxPubs \in Nat

VARIABLES
  pubs,                \* the tracks published, in the order useTracks lists them
  lastPub,             \* how many publications there were
  rendered,            \* the effects have run since the last change
  videoRef,            \* subscribedPubRef: a publication, 0 for none
  audioRef,            \* subscribedAudioRef
  received             \* the publications the SFU forwards to the spectator

stageVars == <<pubs, lastPub, rendered, videoRef, audioRef, received>>

\* Who publishes what. An OBS entry may lose its source on the way (WHIP).
Track(owner, kind, source) == [owner |-> owner, kind |-> kind, source |-> source]
Tracks ==
  {Track("host", "video", "camera"), Track("host", "audio", "microphone"),
   Track("host", "video", "screen"), Track("guest", "video", "camera"),
   Track("guest", "audio", "microphone"),
   Track("me", "video", "screen"), Track("me", "audio", "microphone")} \cup
  {Track("obs", k, s) : k \in {"video"}, s \in {"camera", "unknown"}} \cup
  {Track("obs", "audio", s) : s \in {"microphone", "unknown"}}
Pub == [id : 1..MaxPubs, track : Tracks]

StageTypeOK ==
  /\ ToSet(pubs) \subseteq Pub
  /\ lastPub \in 0..MaxPubs
  /\ rendered \in BOOLEAN
  /\ videoRef \in 0..MaxPubs
  /\ audioRef \subseteq 1..MaxPubs
  /\ received \subseteq 1..MaxPubs

StageInit ==
  /\ pubs = <<>>
  /\ lastPub = 0
  /\ rendered = TRUE
  /\ videoRef = 0
  /\ audioRef = {}
  /\ received = {}

\* A track is published, and forwarded to nobody who did not ask.
PublishOnStage(t) ==
  /\ lastPub < MaxPubs
  /\ ~\E i \in DOMAIN pubs : pubs[i].track.owner = t.owner /\ pubs[i].track.kind = t.kind
                              /\ (t.owner = "obs" \/ pubs[i].track = t)
  /\ lastPub' = lastPub + 1
  /\ pubs' = Append(pubs, [id |-> lastPub', track |-> t])
  /\ rendered' = FALSE
  /\ UNCHANGED <<videoRef, audioRef, received>>

UnpublishOnStage(i) ==
  /\ i \in DOMAIN pubs
  /\ pubs' = RemoveAt(pubs, i)
  /\ received' = received \ {pubs[i].id}
  /\ rendered' = FALSE
  /\ UNCHANGED <<lastPub, videoRef, audioRef>>

\* The first listed of those wanted, if any is.
First(wanted) ==
  {pubs[i] : i \in {j \in DOMAIN pubs : pubs[j] \in wanted /\ \A k \in 1..(j - 1) : pubs[k] \notin wanted}}

IsObs(p) == p.track.owner = "obs"
IsCam(p) == p.track.kind = "video" /\ p.track.source = "camera" /\ ~IsObs(p)

\* mainTrack, as a set of one or none.
MainTrack ==
  LET all    == ToSet(pubs)
      screen == First({p \in all : p.track.source = "screen"})
      obs    == First({p \in all : IsObs(p) /\ p.track.kind = "video"})
      hosts  == First({p \in all : IsCam(p) /\ p.track.owner = "host"})
      cams   == First({p \in all : IsCam(p)})
  IN CASE screen # {} -> screen
       [] screen = {} /\ obs # {} -> obs
       [] OTHER -> IF hosts # {} THEN hosts ELSE cams

Remote(ps) == {p \in ps : p.track.owner # "me"}
Ids(ps)    == {p.id : p \in ps}

\* Mutant: what is listed for its sound is subscribed to, whatever its kind.
VoicesByListing == {p \in Remote(ToSet(pubs)) : p.track.source \in {"microphone", "unknown"}}

\* The microphones and the tracks without a source are listed; only the audio is taken.
Voices ==
  {p \in Remote(ToSet(pubs)) : p.track.source \in {"microphone", "unknown"} /\ p.track.kind = "audio"}

\* The two effects. A publication that is gone cannot be received, nor given up.
Effects ==
  LET next   == Ids(Remote(MainTrack))
      video  == IF next = {videoRef} \/ (next = {} /\ videoRef = 0) THEN received
                ELSE (received \ {videoRef}) \cup next
      voices == Ids(Voices) IN
  /\ ~rendered
  /\ rendered' = TRUE
  /\ videoRef' = IF next = {} THEN 0 ELSE CHOOSE n \in next : TRUE
  /\ audioRef' = voices
  /\ received' = (video \ (audioRef \ voices)) \cup (voices \ audioRef)
  /\ UNCHANGED <<pubs, lastPub>>

StageNext ==
  \/ \E t \in Tracks : PublishOnStage(t)
  \/ \E i \in 1..MaxPubs : UnpublishOnStage(i)
  \/ Effects

StageSpec == StageInit /\ [][StageNext]_stageVars

-----------------------------------------------------------------------------

\* A spectator hears everyone and never pays for a second video: once the effects have run, what is
\* received is every remote voice and the video in large, that and nothing else; and before they do,
\* at most one video, whatever was published, replaced or taken back since.
OneVideoAllVoices ==
  LET all    == ToSet(pubs)
      videos == {p \in all : p.id \in received /\ p.track.kind = "video"}
      voices == {p \in all : p.id \in received /\ p.track.kind = "audio"} IN
  /\ Cardinality(videos) <= 1
  /\ rendered => /\ videos = Remote(MainTrack)
                 /\ voices = {p \in Remote(all) : p.track.kind = "audio"}
=============================================================================
