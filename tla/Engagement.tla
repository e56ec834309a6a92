----------------------------- MODULE Engagement ----------------------------
(***************************************************************************)
(* The engagement table of a host, kept in its browser: presence and       *)
(* speech of each participant, added up from the events LiveKit sends it,  *)
(* in their order but with a delay.  Time is a bounded count of seconds,   *)
(* and the clocks of the SFU and of the browser agree.                     *)
(***************************************************************************)
EXTENDS Naturals, Sequences, FiniteSets

CONSTANTS
  Guests,        \* the participants followed
  MaxSeconds,    \* bounds on the time,
  MaxEvents      \*   and on the arrivals, departures and turns of speech

ASSUME EngAssumption == MaxSeconds \in Nat \ {0} /\ MaxEvents \in Nat

VARIABLES
  now,
  attending,     \* attending[p]: since when p is connected, or NoTime
  talkers,       \* who speaks, as the SFU detects it
  inbox,         \* the events the browser has not handled
  table,         \* table[p]: the accumulator of p, NoTimes before the first event
  sentEvents,
  joins          \* joins[p]: the arrivals of p, one of them before the host's perhaps (history)

engVars == <<now, attending, talkers, inbox, table, sentEvents, joins>>

NoTime == MaxSeconds + 1
NoTimes  == [presence |-> 0, since |-> NoTime, talk |-> 0, speakingSince |-> NoTime, turns |-> 0, connections |-> 0]
Events == [t : {"connected"}, p : Guests, joinedAt : 0..MaxSeconds]
          \cup [t : {"left"}, p : Guests] \cup [t : {"speakers"}, who : SUBSET Guests]

EngTypeOK ==
  /\ now \in 0..MaxSeconds
  /\ attending \in [Guests -> 0..NoTime]
  /\ talkers \subseteq Guests
  /\ inbox \in Seq(Events)
  /\ table \in [Guests -> [presence : 0..MaxSeconds, since : 0..NoTime, talk : 0..MaxSeconds,
                           speakingSince : 0..NoTime, turns : 0..MaxEvents, connections : 0..MaxEvents + 1]]
  /\ sentEvents \in 0..MaxEvents
  /\ joins \in [Guests -> 0..MaxEvents + 1]

\* ensure(): the row starts when the SFU saw p arrive.
NewRow(joinedAt) == [NoTimes EXCEPT !.since = joinedAt, !.connections = 1]

\* The host comes at 1; some are there already, none of them speaking.
EngInit ==
  /\ now = 1
  /\ attending \in [Guests -> {0, NoTime}]
  /\ talkers = {}
  /\ inbox = <<>>
  /\ table = [p \in Guests |-> IF attending[p] = 0 THEN NewRow(0) ELSE NoTimes]
  /\ sentEvents = 0
  /\ joins = [p \in Guests |-> IF attending[p] = 0 THEN 1 ELSE 0]

-----------------------------------------------------------------------------
(* The room                                                                 *)

Tick ==
  /\ now < MaxSeconds
  /\ now' = now + 1
  /\ UNCHANGED <<attending, talkers, inbox, table, sentEvents, joins>>

Send(es) == /\ sentEvents + Len(es) <= MaxEvents
            /\ sentEvents' = sentEvents + Len(es)
            /\ inbox' = inbox \o es

Attend(p) ==
  /\ attending[p] = NoTime
  /\ Send(<<[t |-> "connected", p |-> p, joinedAt |-> now]>>)
  /\ attending' = [attending EXCEPT ![p] = now]
  /\ joins' = [joins EXCEPT ![p] = @ + 1]
  /\ UNCHANGED <<now, talkers, table>>

\* The SFU announces the departure of a speaker before the end of its speech.
Depart(p) ==
  /\ attending[p] # NoTime
  /\ Send(<<[t |-> "left", p |-> p]>> \o
          IF p \in talkers THEN <<[t |-> "speakers", who |-> talkers \ {p}]>> ELSE <<>>)
  /\ attending' = [attending EXCEPT ![p] = NoTime]
  /\ talkers' = talkers \ {p}
  /\ UNCHANGED <<now, table, joins>>

Speak(S) ==
  /\ S # talkers
  /\ \A p \in S : attending[p] # NoTime
  /\ Send(<<[t |-> "speakers", who |-> S]>>)
  /\ talkers' = S
  /\ UNCHANGED <<now, attending, table, joins>>

-----------------------------------------------------------------------------
(* The browser                                                              *)

Closed(row) == IF row.speakingSince = NoTime THEN row
               ELSE [row EXCEPT !.talk = @ + now - row.speakingSince, !.speakingSince = NoTime]
Opened(row) == IF row.speakingSince # NoTime THEN row
               ELSE [row EXCEPT !.speakingSince = now, !.turns = @ + 1]

\* handleConnected: the row of someone who comes back goes on.
Connected(e) ==
  IF table[e.p] = NoTimes THEN NewRow(e.joinedAt)
  ELSE [table[e.p] EXCEPT !.since = now, !.connections = @ + 1]

\* Mutant: who leaves while speaking goes on speaking.
LeftSpeaking(p) ==
  LET row == table[p]
  IN [row EXCEPT !.presence = @ + now - row.since, !.since = NoTime]

\* handleDisconnected
Left(p) ==
  LET row == Closed(table[p])
  IN [row EXCEPT !.presence = @ + now - row.since, !.since = NoTime]

\* handleActiveSpeakers: LiveKit names none that it has not announced, or that left.
Speaking(S) == [p \in Guests |-> IF p \in S THEN Opened(table[p]) ELSE Closed(table[p])]

HandleEvent ==
  /\ inbox # <<>>
  /\ LET e == Head(inbox)
     IN table' = IF e.t = "connected" THEN [table EXCEPT ![e.p] = Connected(e)]
                 ELSE IF e.t = "left" THEN [table EXCEPT ![e.p] = Left(e.p)]
                 ELSE Speaking({p \in e.who : table[p].since # NoTime})
  /\ inbox' = Tail(inbox)
  /\ UNCHANGED <<now, attending, talkers, sentEvents, joins>>

EngNext ==
  \/ Tick \/ HandleEvent
  \/ \E p \in Guests : Attend(p) \/ Depart(p)
  \/ \E S \in SUBSET Guests : Speak(S)

EngSpec == EngInit /\ [][EngNext]_engVars

-----------------------------------------------------------------------------
(* Properties                                                               *)

\* getSnapshot: the periods that last are added on the fly.
Presence(p) == table[p].presence + IF table[p].since = NoTime THEN 0 ELSE now - table[p].since
Talk(p)     == table[p].talk + IF table[p].speakingSince = NoTime THEN 0 ELSE now - table[p].speakingSince

\* Nobody is said to have spoken longer than present, whatever departures in the
\* middle of a sentence, returns and late events (the comment of handleDisconnected).
SpeechWithinPresence == \A p \in Guests : Talk(p) <= Presence(p)

\* Once the events are handled, the table counts every connection of those it has
\* met, and says present those who are.
PresenceAsInRoom ==
  inbox = <<>> => \A p \in Guests : /\ table[p].connections = joins[p]
                                    /\ table[p].since # NoTime <=> attending[p] # NoTime

\* The times shown are possible ones, and those of the people in the room.
TimesAreTrue == SpeechWithinPresence /\ PresenceAsInRoom
=============================================================================
