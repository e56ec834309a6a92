------------------------------ MODULE Ingress ------------------------------
(***************************************************************************)
(* The entry points through which an encoder (OBS) publishes in a room:    *)
(* create() deletes those there are, then makes a new one; remove() and    *)
(* the close() of the room delete them all.  A key is one entry point.     *)
(* The panel of the manager (ObsPanel) asks for the entry every five       *)
(* seconds, and sends one request at a time.                               *)
(***************************************************************************)
EXTENDS Naturals, FiniteSets

CONSTANTS
  MaxKeys,      \* bounds on the entry points ever created
  MaxIngEnds    \*   and on the closings of the room

ASSUME IngAssumption == MaxKeys \in Nat /\ MaxIngEnds \in Nat

VARIABLES
  keys,         \* the entry points LiveKit has
  lastKey,      \* how many it ever had
  ing,          \* ing[c]: the request of the panel, or of close()
  ingEnds,
  strays,       \* keys whose deletion LiveKit refused, or could not be asked
  bornSince,    \* keys created since close() last listed them
  obsOpen,      \* the panel is open,
  obsShown,     \*   the entry it shows, 0 for none,
  obsAnswer     \*   and the answer to its refresh on its way, as a set

ingVars == <<keys, lastKey, ing, ingEnds, strays, bornSince, obsOpen, obsShown, obsAnswer>>
ingKeys == <<keys, lastKey, strays, bornSince>>
obs     == <<obsOpen, obsShown, obsAnswer>>

Keys       == 1..MaxKeys
IngCallers == {"panel", "close"}
Entry      == IF keys = {} THEN {0} ELSE keys   \* get(): the first of the list, if any
IngRequest == [op : {"idle", "create", "remove"}, step : {"list", "delete"}, todo : SUBSET Keys]
IngIdle    == [op |-> "idle", step |-> "list", todo |-> {}]

IngTypeOK ==
  /\ keys \subseteq Keys
  /\ lastKey \in {0} \cup Keys
  /\ ing \in [IngCallers -> IngRequest]
  /\ ingEnds \in 0..MaxIngEnds
  /\ strays \subseteq Keys
  /\ bornSince \subseteq Keys
  /\ obsOpen \in BOOLEAN
  /\ obsShown \in {0} \cup Keys
  /\ obsAnswer \subseteq {0} \cup Keys

IngInit ==
  /\ keys = {}
  /\ lastKey = 0
  /\ ing = [c \in IngCallers |-> IngIdle]
  /\ ingEnds = 0
  /\ strays = {}
  /\ bornSince = {}
  /\ obsOpen = FALSE
  /\ obsShown = 0
  /\ obsAnswer = {}

-----------------------------------------------------------------------------
(* The service                                                              *)

CreateOrRemove(op) ==
  /\ obsOpen
  /\ ing["panel"].op = "idle"
  /\ op = "remove" => obsShown # 0
  /\ op = "create" => lastKey < MaxKeys
  /\ ing' = [ing EXCEPT !["panel"].op = op]
  /\ UNCHANGED <<ingKeys, ingEnds, obs>>

\* The first thing close() does.
CloseRemoves ==
  /\ ing["close"].op = "idle"
  /\ ingEnds < MaxIngEnds
  /\ ingEnds' = ingEnds + 1
  /\ ing' = [ing EXCEPT !["close"].op = "remove"]
  /\ UNCHANGED <<ingKeys, obs>>

\* deleteForRoomName: without an answer to the list, nothing is deleted.
ListKeys(c) ==
  /\ ing[c].op # "idle"
  /\ ing[c].step = "list"
  /\ \/ /\ ing' = [ing EXCEPT ![c].step = "delete", ![c].todo = keys]
        /\ UNCHANGED strays
     \/ /\ ing' = [ing EXCEPT ![c].step = "delete"]
        /\ strays' = strays \cup keys
  /\ bornSince' = IF c = "close" THEN {} ELSE bornSince
  /\ UNCHANGED <<keys, lastKey, ingEnds, obs>>

\* A refusal is logged, and the next one is tried.
DeleteKey(c) ==
  /\ ing[c].step = "delete"
  /\ \E k \in ing[c].todo :
       /\ ing' = [ing EXCEPT ![c].todo = @ \ {k}]
       /\ \/ keys' = keys \ {k} /\ UNCHANGED strays
          \/ strays' = strays \cup {k} /\ UNCHANGED keys
  /\ UNCHANGED <<lastKey, ingEnds, bornSince, obs>>

\* Mutant: the former entry points are not waited for.
CreateKeyAtOnce ==
  /\ ing["panel"].op = "create"
  /\ lastKey' = lastKey + 1
  /\ keys' = keys \cup {lastKey'}
  /\ bornSince' = bornSince \cup {lastKey'}
  /\ ing' = [ing EXCEPT !["panel"] = IngIdle]
  /\ obsShown' = lastKey'
  /\ UNCHANGED <<strays, ingEnds, obsOpen, obsAnswer>>

CreateKey ==
  /\ ing["panel"].op = "create"
  /\ ing["panel"].step = "delete"
  /\ ing["panel"].todo = {}
  /\ lastKey' = lastKey + 1
  /\ keys' = keys \cup {lastKey'}
  /\ bornSince' = bornSince \cup {lastKey'}
  /\ ing' = [ing EXCEPT !["panel"] = IngIdle]
  /\ obsShown' = lastKey'
  /\ UNCHANGED <<strays, ingEnds, obsOpen, obsAnswer>>

Removed(c) ==
  /\ ing[c].op = "remove"
  /\ ing[c].step = "delete"
  /\ ing[c].todo = {}
  /\ ing' = [ing EXCEPT ![c] = IngIdle]
  /\ obsShown' = IF c = "panel" THEN 0 ELSE obsShown
  /\ UNCHANGED <<ingKeys, ingEnds, obsOpen, obsAnswer>>

-----------------------------------------------------------------------------
(* The panel                                                                *)

\* Closing the panel cancels the answer awaited; it goes on showing its entry
\* when it is opened again, until the first answer.
ObsToggle ==
  /\ obsOpen' = ~obsOpen
  /\ obsAnswer' = {}
  /\ UNCHANGED <<ingKeys, ing, ingEnds, obsShown>>

ObsAsk ==
  /\ obsOpen
  /\ obsAnswer = {}
  /\ \E k \in Entry : obsAnswer' = {k}
  /\ UNCHANGED <<ingKeys, ing, ingEnds, obsOpen, obsShown>>

\* Mutant: an answer without an entry is ignored.
ObsShowsKeysOnly ==
  /\ obsAnswer # {}
  /\ obsShown' \in IF obsAnswer = {0} THEN {obsShown} ELSE obsAnswer
  /\ obsAnswer' = {}
  /\ UNCHANGED <<ingKeys, ing, ingEnds, obsOpen>>

ObsShows ==
  /\ obsAnswer # {}
  /\ obsShown' \in obsAnswer
  /\ obsAnswer' = {}
  /\ UNCHANGED <<ingKeys, ing, ingEnds, obsOpen>>

IngNext ==
  \/ \E op \in {"create", "remove"} : CreateOrRemove(op)
  \/ CloseRemoves \/ CreateKey
  \/ \E c \in IngCallers : ListKeys(c) \/ DeleteKey(c) \/ Removed(c)
  \/ ObsToggle \/ ObsAsk \/ ObsShows

\* The timer of the open panel fires, LiveKit answers.
IngFairness == WF_ingVars(ObsAsk) /\ WF_ingVars(ObsShows)

IngSpec == IngInit /\ [][IngNext]_ingVars /\ IngFairness

-----------------------------------------------------------------------------
(* Properties                                                               *)

\* One entry point at a time (the comment above create): whatever the end of the
\* meeting deletes meanwhile, with one panel asking, those there are besides the
\* last are those LiveKit would not delete.
OneEntryPoint == Cardinality(keys \ strays) <= 1

\* No key survives the meeting (the comment above deleteForRoomName), but those
\* LiveKit would not delete, and that of a create() which close() overlapped.
KeysEndWithMeeting ==
  (ing["close"].op = "remove" /\ ing["close"].step = "delete" /\ ing["close"].todo = {})
     => keys \subseteq strays \cup bornSince

\* A panel left open and no longer used ends up showing an entry point that exists,
\* or none if there is none, though close() tells it nothing.
PanelShowsAnEntry == <>[](obsOpen /\ ing["panel"] = IngIdle) => <>[](obsShown \in Entry)

\* There are no more entry points than the code means to leave, in a meeting and after it.
KeysAccountedFor == OneEntryPoint /\ KeysEndWithMeeting
=============================================================================
