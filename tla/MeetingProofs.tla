--------------------------- MODULE MeetingProofs ---------------------------
(***************************************************************************)
(* The components of a meeting, each for every value of its constants: the *)
(* votes of a poll, the entry points for OBS, the hands raised and the     *)
(* stage of a spectator are here, the rights, the presentations and the    *)
(* groups have modules of their own.  Then the meeting as a whole.         *)
(***************************************************************************)
EXTENDS MCMeeting, PermissionsProofs, PresentationsProofs, BreakoutsProofs,
        SequenceTheorems, FunctionTheorems, FiniteSetTheorems, TLAPS

-----------------------------------------------------------------------------
(***************************************************************************)
(* THE POLLS                                                               *)
(*                                                                         *)
(* The votes of a poll implement the abstract ballots of PollBallots, for  *)
(* any accounts, options and number of votes, when each account has one    *)
(* panel.  The argument: between the two database calls of a vote nobody   *)
(* else touches the responses of its account, so that the insertion finds  *)
(* none, and what it inserts was legal when it was clicked.                *)
(***************************************************************************)

\* What a vote in the backend relies on: its options are a legal ballot; once its
\* status is checked, the poll is no longer a draft; once the former responses are
\* deleted, there are none.
VotesReady ==
  \A t \in Tabs :
    /\ voteRequest[t].step # "none" =>
         /\ voteRequest[t].options # {}
         /\ pollSingle => \A x, y \in voteRequest[t].options : x = y
    /\ voteRequest[t].step \in {"clear", "insert"} => pollStatus # "DRAFT"
    /\ voteRequest[t].step = "insert" => Ballot(UserOf(t)) = {}

\* The status a manager's request has read is still that of the poll.
ManagerFollows == manager # "none" => manager = pollStatus

PollInv == PollTypeOK /\ VotesReady /\ ManagerFollows

USE PollAssumption

-----------------------------------------------------------------------------

\* Tabs of one account are one tab, when each account has a single panel.
LEMMA OneTab ==
  ASSUME TabsEach = 1
  PROVE \A t, s \in Tabs : UserOf(t) \in Voters /\ (UserOf(t) = UserOf(s) => t = s)
BY DEF Tabs, UserOf

\* What a panel is told of is in the types of the database.
LEMMA DtoType ==
  ASSUME PollTypeOK, NEW t \in Tabs
  PROVE PollDto(t) \in View
BY DEF PollTypeOK, PollDto, View, Ballot

LEMMA PollTypeInit == PollInit => PollTypeOK
<1> SUFFICES ASSUME PollInit PROVE PollTypeOK
  OBVIOUS
<1>1. \A t \in Tabs : PollDto(t) \in View
  BY DEF PollInit, PollDto, View, Ballot, PollStatus
<1> QED
  BY <1>1 DEF PollInit, PollTypeOK, PollStatus, VoteRequest, NoVote, NextStatus

LEMMA PollTypeStep == PollTypeOK /\ [PollNext]_pollVars => PollTypeOK'
<1> SUFFICES ASSUME PollTypeOK, [PollNext]_pollVars PROVE PollTypeOK'
  OBVIOUS
<1> USE DEF PollTypeOK, pollRows
<1>1. CASE ManagerRead
  BY <1>1 DEF ManagerRead
<1>2. CASE ManagerWrite
  BY <1>2 DEF ManagerWrite, NextStatus, PollStatus
<1>3. ASSUME NEW a \in pollAnswers, AnswerShown(a) PROVE PollTypeOK'
  BY <1>3 DEF AnswerShown
<1>4. ASSUME NEW t \in Tabs, Refresh(t) PROVE PollTypeOK'
  BY <1>4, DtoType DEF Refresh
<1>5. ASSUME NEW t \in Tabs, VoteCheck(t) PROVE PollTypeOK'
  <2>1. voteRequest' \in [Tabs -> VoteRequest]
    <3>1. CASE pollStatus = "OPEN"
      BY <1>5, <3>1 DEF VoteCheck, VoteRequest
    <3>2. CASE pollStatus # "OPEN"
      BY <1>5, <3>2 DEF VoteCheck, Answered, VoteRequest, NoVote
    <3> QED
      BY <3>1, <3>2
  <2>2. panel' \in [Tabs -> [shown : View, busy : BOOLEAN]]
    <3>1. CASE UNCHANGED panel
      BY <3>1
    <3>2. CASE panel' = [panel EXCEPT ![t].busy = FALSE]
      BY <3>2
    <3> QED
      BY <1>5, <3>1, <3>2 DEF VoteCheck, Answered
  <2> QED
    BY <1>5, <2>1, <2>2 DEF VoteCheck
<1>6. ASSUME NEW t \in Tabs, VoteClear(t) PROVE PollTypeOK'
  BY <1>6 DEF VoteClear, VoteRequest
<1>7. ASSUME NEW t \in Tabs, VoteInsert(t) PROVE PollTypeOK'
  <2>1. voteRequest[t].options \X {UserOf(t)} \subseteq Options \X Voters
    BY DEF VoteRequest, Tabs, UserOf
  <2> QED
    BY <1>7, <2>1 DEF VoteInsert, Answered, VoteRequest, NoVote
<1>8. ASSUME NEW t \in Tabs, VoteLost(t) PROVE PollTypeOK'
  BY <1>8 DEF VoteLost, Answered, VoteRequest, NoVote
<1>9. ASSUME NEW t \in Tabs, NEW o \in Options, VoteClick(t, o) PROVE PollTypeOK'
  <2>1. Chosen(t, o) \subseteq Options
    BY DEF Chosen, View
  <2>2. voteRequest' \in [Tabs -> VoteRequest]
    BY <1>9, <2>1 DEF VoteClick, VoteRequest
  <2>3. panel' \in [Tabs -> [shown : View, busy : BOOLEAN]]
    BY <1>9 DEF VoteClick
  <2>4. votes' \in 0..MaxVotes
    BY <1>9 DEF VoteClick
  <2> QED
    BY <1>9, <2>2, <2>3, <2>4 DEF VoteClick
<1>10. CASE UNCHANGED pollVars
  BY <1>10 DEF pollVars
<1> QED
  BY <1>1, <1>2, <1>3, <1>4, <1>5, <1>6, <1>7, <1>8, <1>9, <1>10 DEF PollNext

\* Every variable keeps its type, however many panels each account has.
THEOREM PollTypeCorrect == PollSpec => []PollTypeOK
BY PollTypeInit, PollTypeStep, PTL DEF PollSpec

-----------------------------------------------------------------------------
(* The inductive invariant                                                  *)

LEMMA PollIndInit == PollInit => PollInv
BY PollTypeInit DEF PollInit, PollInv, VotesReady, ManagerFollows, NoVote

LEMMA FollowsStep == PollInv /\ [PollNext]_pollVars => ManagerFollows'
<1> SUFFICES ASSUME PollInv, [PollNext]_pollVars PROVE ManagerFollows'
  OBVIOUS
<1> USE DEF PollInv, ManagerFollows
<1>1. CASE ManagerRead \/ ManagerWrite
  BY <1>1 DEF ManagerRead, ManagerWrite, pollRows
<1>2. CASE UNCHANGED <<pollStatus, manager>>
  BY <1>2
<1> QED
  BY <1>1, <1>2 DEF PollNext, pollVars, pollRows, AnswerShown, Refresh, VoteCheck, VoteClear,
                    VoteInsert, VoteLost, VoteClick

\* A step that leaves the rows alone and starts or ends requests.
LEMMA VotesReadyStep ==
  ASSUME TabsEach = 1, PollInv, [PollNext]_pollVars
  PROVE VotesReady'
<1> USE DEF PollInv, VotesReady, pollRows, Ballot
<1>0. PollTypeOK
  OBVIOUS
<1>1. CASE ManagerRead
  BY <1>1 DEF ManagerRead
<1>2. CASE ManagerWrite
  BY <1>2 DEF ManagerWrite, ManagerFollows, PollTypeOK, NextStatus
<1>3. ASSUME NEW a \in pollAnswers, AnswerShown(a) PROVE VotesReady'
  BY <1>3 DEF AnswerShown
<1>4. ASSUME NEW t \in Tabs, Refresh(t) PROVE VotesReady'
  BY <1>4 DEF Refresh
<1>5. ASSUME NEW t \in Tabs, VoteCheck(t) PROVE VotesReady'
  BY <1>5, <1>0 DEF VoteCheck, Answered, NoVote, PollTypeOK, VoteRequest
<1>6. ASSUME NEW t \in Tabs, VoteClear(t) PROVE VotesReady'
  BY <1>6, <1>0 DEF VoteClear, PollTypeOK, VoteRequest
<1>7. ASSUME NEW t \in Tabs, VoteInsert(t) PROVE VotesReady'
  <2>1. \A s \in Tabs : s # t => voteRequest'[s] = voteRequest[s] /\ Ballot(UserOf(s))' = Ballot(UserOf(s))
    BY <1>7, <1>0, OneTab DEF VoteInsert, Answered, PollTypeOK
  <2>2. voteRequest'[t].step = "none"
    BY <1>7, <1>0 DEF VoteInsert, Answered, NoVote, PollTypeOK
  <2> QED
    BY <1>7, <2>1, <2>2 DEF VoteInsert
<1>8. ASSUME NEW t \in Tabs, VoteLost(t) PROVE VotesReady'
  BY <1>8, <1>0 DEF VoteLost, Answered, NoVote, PollTypeOK
<1>9. ASSUME NEW t \in Tabs, NEW o \in Options, VoteClick(t, o) PROVE VotesReady'
  <2>1. Chosen(t, o) # {} /\ (pollSingle => \A x, y \in Chosen(t, o) : x = y)
    BY <1>9 DEF VoteClick, Chosen
  <2> QED
    BY <1>9, <1>0, <2>1 DEF VoteClick, PollTypeOK
<1>10. CASE UNCHANGED pollVars
  BY <1>10 DEF pollVars
<1> QED
  BY <1>1, <1>2, <1>3, <1>4, <1>5, <1>6, <1>7, <1>8, <1>9, <1>10 DEF PollNext

-----------------------------------------------------------------------------
(* The refinement                                                           *)

LEMMA RefinesInit == PollInit => Ballots!Init
BY DEF PollInit, Ballots!Init, Ballot

\* Only three actions are visible in the abstract poll.
LEMMA RefinesStep ==
  ASSUME TabsEach = 1, PollInv, [PollNext]_pollVars
  PROVE [Ballots!Next]_(Ballots!ballotVars)
<1> DEFINE ballot == [u \in Voters |-> Ballot(u)]
<1> USE DEF PollInv, pollRows, Ballots!ballotVars
<1>0. PollTypeOK
  OBVIOUS
<1>1. CASE ManagerWrite
  <2>1. ballot' = ballot
    BY <1>1 DEF ManagerWrite, Ballot
  <2> QED
    BY <1>1, <1>0, <2>1 DEF ManagerWrite, ManagerFollows, PollTypeOK, NextStatus, Ballots!Next, Ballots!Open,
                            Ballots!Close
<1>2. ASSUME NEW t \in Tabs, VoteClear(t) PROVE Ballots!Next
  <2>1. ballot' = [ballot EXCEPT ![UserOf(t)] = {}]
    BY <1>2 DEF VoteClear, Ballot
  <2>2. UserOf(t) \in Voters
    BY OneTab
  <2>3. pollStatus # "DRAFT"
    BY <1>2 DEF VoteClear, VotesReady
  <2> QED
    BY <1>2, <2>1, <2>2, <2>3 DEF VoteClear, Ballots!Next, Ballots!Withdraw
<1>3. ASSUME NEW t \in Tabs, VoteInsert(t) PROVE Ballots!Next
  <2> DEFINE u == UserOf(t)
             b == voteRequest[t].options
  <2>1. u \in Voters
    BY OneTab
  <2>2. /\ voteRequest[t].step = "insert"
        /\ b # {}
        /\ pollSingle => \A x, y \in b : x = y
        /\ pollStatus # "DRAFT"
        /\ Ballot(u) = {}
    BY <1>3 DEF VoteInsert, VotesReady
  <2>3. b \subseteq Options
    BY <1>0 DEF PollTypeOK, VoteRequest
  <2>4. responses' = responses \cup (b \X {u})
    BY <1>3, <2>2, <2>3 DEF VoteInsert, Ballot
  <2>5. ballot' = [ballot EXCEPT ![u] = b]
    <3>1. \A v \in Voters : Ballot(v)' = IF v = u THEN b ELSE Ballot(v)
      BY <2>2, <2>3, <2>4 DEF Ballot
    <3> QED
      BY <3>1
  <2>6. b \in Ballots!LegalBallots
    BY <2>2, <2>3 DEF Ballots!LegalBallots
  <2>7. Ballots!Cast(u)
    BY <1>3, <2>1, <2>2, <2>5, <2>6 DEF VoteInsert, Ballots!Cast
  <2> QED
    BY <2>1, <2>7 DEF Ballots!Next
<1>4. CASE UNCHANGED <<pollStatus, pollSingle, responses>>
  BY <1>4 DEF Ballot
<1> QED
  BY <1>1, <1>2, <1>3, <1>4 DEF PollNext, pollVars, ManagerRead, AnswerShown, Refresh, VoteCheck, VoteLost, VoteClick

\* With one panel for each account, the requests implement the abstract poll: a
\* ballot is replaced as a whole, a single-choice poll counts nobody twice, and
\* nothing is counted before the opening, whatever interleaving, restart or close.
THEOREM BallotsAreReplaced ==
  ASSUME TabsEach = 1
  PROVE PollSpec => BallotsReplaced
<1>1. PollInit => PollInv
  BY PollIndInit
<1>2. PollInv /\ [PollNext]_pollVars => PollInv'
  BY PollTypeStep, FollowsStep, VotesReadyStep DEF PollInv
<1>3. PollSpec => []PollInv
  BY <1>1, <1>2, PTL DEF PollSpec
<1>4. PollInv /\ [PollNext]_pollVars => [Ballots!Next]_(Ballots!ballotVars)
  BY RefinesStep
<1> QED
  BY <1>3, <1>4, RefinesInit, PTL DEF PollSpec, BallotsReplaced, Ballots!Spec

HIDE PollAssumption

-----------------------------------------------------------------------------
(***************************************************************************)
(* THE ENTRY POINTS                                                        *)
(*                                                                         *)
(* The entry points of a room are accounted for, for any number of them    *)
(* and of closings.  Both parts of KeysAccountedFor speak of one moment;   *)
(* the invariant says what a deletion that is under way has still to do.   *)
(***************************************************************************)

\* Only the panel creates, and only as long as the bound allows.
PanelCreates ==
  /\ ing["panel"].op = "create" => lastKey < MaxKeys
  /\ ing["close"].op # "create"

\* The keys LiveKit agreed to delete, or was never asked about, are at most one.
AtMostOne == \A k, l \in keys \ strays : k = l

\* A request of the panel that has listed the keys has those left to delete on its list.
PanelHasTheRest ==
  ing["panel"].step = "delete" => keys \subseteq strays \cup ing["panel"].todo

\* So has close(), but for those created since.
CloseHasTheRest ==
  ing["close"].step = "delete" => keys \subseteq strays \cup bornSince \cup ing["close"].todo

IngInv == IngTypeOK /\ PanelCreates /\ AtMostOne /\ PanelHasTheRest /\ CloseHasTheRest

USE IngAssumption DEF IngAssumption, ingKeys, obs

-----------------------------------------------------------------------------

LEMMA IngInvInit == IngInit => IngInv
<1> SUFFICES ASSUME IngInit PROVE IngInv
  OBVIOUS
<1>1. \A c \in IngCallers : ing[c] = IngIdle
  BY DEF IngInit
<1>2. IngTypeOK
  <2>1. IngIdle \in IngRequest
    BY DEF IngIdle, IngRequest
  <2>2. ing \in [IngCallers -> IngRequest]
    BY <2>1 DEF IngInit
  <2>3. 0 \in 0..MaxIngEnds
    OBVIOUS
  <2>4. obsOpen \in BOOLEAN
    BY DEF IngInit
  <2> QED
    BY <2>2, <2>3, <2>4 DEF IngInit, IngTypeOK
<1>3. PanelCreates /\ AtMostOne /\ PanelHasTheRest /\ CloseHasTheRest
  BY <1>1 DEF IngInit, PanelCreates, AtMostOne, PanelHasTheRest, CloseHasTheRest, IngIdle, IngCallers
<1> QED
  BY <1>2, <1>3 DEF IngInv

LEMMA IngTypeStep ==
  ASSUME IngTypeOK, PanelCreates, [IngNext]_ingVars
  PROVE IngTypeOK'
<1> USE DEF IngTypeOK
<1>1. ASSUME NEW op \in {"create", "remove"}, CreateOrRemove(op) PROVE IngTypeOK'
  BY <1>1 DEF CreateOrRemove, IngRequest, IngCallers
<1>2. CASE CloseRemoves
  BY <1>2 DEF CloseRemoves, IngRequest, IngCallers
<1>3. CASE CreateKey
  <2>1. lastKey' \in Keys
    BY <1>3 DEF CreateKey, PanelCreates, Keys
  <2>2. ing' \in [IngCallers -> IngRequest]
    BY <1>3 DEF CreateKey, IngIdle, IngRequest
  <2> QED
    BY <1>3, <2>1, <2>2 DEF CreateKey
<1>4. ASSUME NEW c \in IngCallers, ListKeys(c) PROVE IngTypeOK'
  <2>1. ing' \in [IngCallers -> IngRequest]
    BY <1>4 DEF ListKeys, IngRequest
  <2> QED
    BY <1>4, <2>1 DEF ListKeys
<1>5. ASSUME NEW c \in IngCallers, DeleteKey(c) PROVE IngTypeOK'
  BY <1>5 DEF DeleteKey, IngRequest
<1>6. ASSUME NEW c \in IngCallers, Removed(c) PROVE IngTypeOK'
  BY <1>6 DEF Removed, IngRequest, IngIdle
<1>7. CASE ObsToggle
  BY <1>7 DEF ObsToggle
<1>8. CASE ObsAsk
  BY <1>8 DEF ObsAsk, Entry
<1>9. CASE ObsShows
  BY <1>9 DEF ObsShows
<1>10. CASE UNCHANGED ingVars
  BY <1>10 DEF ingVars
<1> QED
  BY <1>1, <1>2, <1>3, <1>4, <1>5, <1>6, <1>7, <1>8, <1>9, <1>10 DEF IngNext

LEMMA IngInvStep == IngInv /\ [IngNext]_ingVars => IngInv'
<1> SUFFICES ASSUME IngInv, [IngNext]_ingVars PROVE IngInv'
  OBVIOUS
<1> USE DEF IngInv
<1>0. IngTypeOK /\ IngTypeOK'
  BY IngTypeStep
<1> DEFINE Rest == PanelCreates /\ AtMostOne /\ PanelHasTheRest /\ CloseHasTheRest
<1> USE DEF PanelCreates, AtMostOne, PanelHasTheRest, CloseHasTheRest
<1>1. ASSUME NEW op \in {"create", "remove"}, CreateOrRemove(op) PROVE Rest'
  BY <1>0, <1>1 DEF CreateOrRemove, IngTypeOK, IngCallers
<1>2. ASSUME CloseRemoves PROVE Rest'
  BY <1>0, <1>2 DEF CloseRemoves, IngTypeOK, IngCallers
<1>3. ASSUME CreateKey PROVE Rest'
  <2>1. keys \subseteq strays
    BY <1>3 DEF CreateKey
  <2>2. /\ ing'["panel"] = IngIdle
        /\ ing'["close"] = ing["close"]
    BY <1>0, <1>3 DEF CreateKey, IngTypeOK, IngCallers
  <2> QED
    BY <1>3, <2>1, <2>2 DEF CreateKey, IngIdle
<1>4. ASSUME NEW c \in IngCallers, ListKeys(c) PROVE Rest'
  <2>1. /\ ing'[c].op = ing[c].op
        /\ keys \subseteq strays' \cup ing'[c].todo
        /\ \A d \in IngCallers \ {c} : ing'[d] = ing[d]
    BY <1>0, <1>4 DEF ListKeys, IngTypeOK, IngRequest
  <2>2. strays \subseteq strays' /\ keys' = keys /\ lastKey' = lastKey
    BY <1>4 DEF ListKeys
  <2>3. c # "close" => bornSince' = bornSince
    BY <1>4 DEF ListKeys
  <2> QED
    BY <2>1, <2>2, <2>3 DEF IngCallers
<1>5. ASSUME NEW c \in IngCallers, DeleteKey(c) PROVE Rest'
  <2>1. PICK k \in ing[c].todo :
          /\ ing' = [ing EXCEPT ![c].todo = @ \ {k}]
          /\ \/ keys' = keys \ {k} /\ UNCHANGED strays
             \/ strays' = strays \cup {k} /\ UNCHANGED keys
    BY <1>5 DEF DeleteKey
  <2>2. /\ ing'[c].op = ing[c].op
        /\ ing'[c].todo = ing[c].todo \ {k}
        /\ ing'[c].step = ing[c].step
        /\ \A d \in IngCallers \ {c} : ing'[d] = ing[d]
    BY <1>0, <2>1 DEF IngTypeOK
  <2>3. lastKey' = lastKey /\ bornSince' = bornSince
    BY <1>5 DEF DeleteKey
  <2> QED
    BY <2>1, <2>2, <2>3 DEF IngCallers
<1>6. ASSUME NEW c \in IngCallers, Removed(c) PROVE Rest'
  BY <1>0, <1>6 DEF Removed, IngTypeOK, IngIdle, IngCallers
<1>7. ASSUME UNCHANGED <<keys, lastKey, ing, strays, bornSince>> PROVE Rest'
  BY <1>7
<1> QED
  BY <1>0, <1>1, <1>2, <1>3, <1>4, <1>5, <1>6, <1>7 DEF IngNext, ingVars, ObsToggle, ObsAsk, ObsShows

\* Every variable keeps its type.
THEOREM IngTypeCorrect == IngSpec => []IngTypeOK
<1>1. IngInv => IngTypeOK
  BY DEF IngInv
<1> QED
  BY <1>1, IngInvInit, IngInvStep, PTL DEF IngSpec

-----------------------------------------------------------------------------

LEMMA AtMostOneCounted ==
  ASSUME NEW S, \A k, l \in S : k = l
  PROVE Cardinality(S) <= 1
<1>1. CASE S = {}
  BY <1>1, FS_EmptySet
<1>2. CASE \E k \in S : S = {k}
  BY <1>2, FS_Singleton
<1> QED
  BY <1>1, <1>2

\* Whatever the end of the meeting deletes while the panel creates, there is one
\* entry point at most besides those LiveKit would not delete, and none but these
\* and those created meanwhile once close() has deleted its list.
THEOREM KeysAreAccountedFor == IngSpec => []KeysAccountedFor
<1>1. IngInv => KeysAccountedFor
  <2> SUFFICES ASSUME IngInv PROVE KeysAccountedFor
    OBVIOUS
  <2>1. OneEntryPoint
    BY AtMostOneCounted DEF IngInv, AtMostOne, OneEntryPoint
  <2>2. KeysEndWithMeeting
    BY DEF IngInv, CloseHasTheRest, KeysEndWithMeeting
  <2> QED
    BY <2>1, <2>2 DEF KeysAccountedFor
<1> QED
  BY <1>1, IngInvInit, IngInvStep, PTL DEF IngSpec

HIDE IngAssumption DEF IngAssumption, ingKeys, obs

-----------------------------------------------------------------------------
(***************************************************************************)
(* THE HANDS RAISED                                                        *)
(*                                                                         *)
(* The table of a host counts every raise of a hand once, for any number   *)
(* of persons, clicks and arrivals.  What has been counted and what is     *)
(* still on its way make up what was raised while the host was there, and  *)
(* who is not there has nothing on its way and nothing counted.            *)
(***************************************************************************)

\* Messages between any two browsers, and none of a browser to itself.
Wired(w) ==
  /\ w \in [Persons -> [Persons -> Seq(HandMessages)]]
  /\ \A p \in Persons : w[p][p] = <<>>
WireOK == Wired(wire)

\* Nothing is on its way to who is not connected, whose table is empty.
NothingOutside ==
  \A q \in Persons \ inRoom :
    /\ \A p \in Persons : wire[p][q] = <<>>
    /\ q \in Hosts => \A p \in Persons : handRaises[q][p] = 0 /\ heardBy[q][p] = 0

\* The raises there were are no more than the clicks.
RaisesAreClicks == \A q \in Hosts, p \in Persons : heardBy[q][p] <= handActs

Ups(s) == Cardinality({i \in DOMAIN s : s[i] = "up"})

AllCounted == \A q \in Hosts, p \in Persons : handRaises[q][p] + Ups(wire[p][q]) = heardBy[q][p]

HandInv == HandTypeOK /\ WireOK /\ NothingOutside /\ RaisesAreClicks /\ AllCounted

USE HandAssumption DEF HandAssumption

-----------------------------------------------------------------------------
(* Counting in a sequence                                                   *)

LEMMA UpsEmpty == Ups(<<>>) = 0
<1>1. {i \in DOMAIN <<>> : <<>>[i] = "up"} = {}
  OBVIOUS
<1> QED
  BY <1>1, FS_EmptySet DEF Ups

LEMMA UpsFinite ==
  ASSUME NEW s \in Seq(HandMessages)
  PROVE  IsFiniteSet({i \in DOMAIN s : s[i] = "up"}) /\ Ups(s) \in Nat
<1>1. Len(s) \in Nat /\ DOMAIN s = 1 .. Len(s)
  BY LenProperties
<1>2. IsFiniteSet(1 .. Len(s))
  BY <1>1, FS_Interval
<1>3. {i \in DOMAIN s : s[i] = "up"} \in SUBSET (1 .. Len(s))
  BY <1>1
<1>4. IsFiniteSet({i \in DOMAIN s : s[i] = "up"})
  BY <1>2, <1>3, FS_Subset
<1> QED
  BY <1>4, FS_CardinalityType DEF Ups

LEMMA UpsAppend ==
  ASSUME NEW s \in Seq(HandMessages), NEW m \in HandMessages
  PROVE  Ups(Append(s, m)) = IF m = "up" THEN Ups(s) + 1 ELSE Ups(s)
<1> DEFINE U == {i \in DOMAIN s : s[i] = "up"}
           V == {i \in DOMAIN Append(s, m) : Append(s, m)[i] = "up"}
<1>1. /\ Len(s) \in Nat /\ DOMAIN s = 1 .. Len(s)
      /\ DOMAIN Append(s, m) = 1 .. Len(s) + 1
      /\ \A i \in 1 .. Len(s) : Append(s, m)[i] = s[i]
      /\ Append(s, m)[Len(s) + 1] = m
  BY AppendProperties, LenProperties
<1>2. V = IF m = "up" THEN U \cup {Len(s) + 1} ELSE U
  BY <1>1
<1>3. Len(s) + 1 \notin U
  BY <1>1
<1>4. IsFiniteSet(U)
  BY UpsFinite
<1> HIDE DEF U, V
<1>5. Cardinality(V) = IF m = "up" THEN Cardinality(U) + 1 ELSE Cardinality(U)
  BY <1>2, <1>3, <1>4, FS_AddElement
<1> QED
  BY <1>5 DEF Ups, U, V

LEMMA UpsTail ==
  ASSUME NEW s \in Seq(HandMessages), s # <<>>
  PROVE  Ups(s) = IF Head(s) = "up" THEN Ups(Tail(s)) + 1 ELSE Ups(Tail(s))
<1> DEFINE U == {i \in DOMAIN s : s[i] = "up"}
           V == {i \in DOMAIN Tail(s) : Tail(s)[i] = "up"}
           W == U \ {1}
           f == [i \in V |-> i + 1]
<1>1. /\ Len(s) \in Nat \ {0} /\ DOMAIN s = 1 .. Len(s)
      /\ Tail(s) \in Seq(HandMessages)
      /\ DOMAIN Tail(s) = 1 .. Len(s) - 1
      /\ \A i \in 1 .. Len(s) - 1 : Tail(s)[i] = s[i + 1]
      /\ Head(s) = s[1]
  BY HeadTailProperties, LenProperties, EmptySeq
<1>2. f \in Bijection(V, W)
  <2>1. f \in [V -> W]
    BY <1>1
  <2>2. \A i, j \in V : f[i] = f[j] => i = j
    BY <1>1
  <2>3. \A w \in W : \E i \in V : f[i] = w
    <3> SUFFICES ASSUME NEW w \in W PROVE \E i \in V : f[i] = w
      OBVIOUS
    <3>1. w - 1 \in V /\ (w - 1) + 1 = w
      BY <1>1
    <3> QED
      BY <3>1
  <2> HIDE DEF f, V, W
  <2> QED
    BY <2>1, <2>2, <2>3, Fun_IsBij
<1>3. IsFiniteSet(U) /\ IsFiniteSet(V)
  BY <1>1, UpsFinite
<1> HIDE DEF U, V, f
<1>4. Cardinality(W) = Cardinality(V)
  BY <1>2, <1>3, FS_Bijection DEF ExistsBijection
<1>5. Cardinality(W) = IF 1 \in U THEN Cardinality(U) - 1 ELSE Cardinality(U)
  BY <1>3, FS_RemoveElement
<1>6. 1 \in U <=> Head(s) = "up"
  BY <1>1 DEF U
<1>7. Cardinality(U) \in Nat /\ Cardinality(V) \in Nat
  BY <1>3, FS_CardinalityType
<1>8. Cardinality(U) = IF Head(s) = "up" THEN Cardinality(V) + 1 ELSE Cardinality(V)
  BY <1>4, <1>5, <1>6, <1>7
<1>9. Cardinality(U) = Ups(s) /\ Cardinality(V) = Ups(Tail(s))
  BY DEF Ups, U, V
<1> QED
  BY <1>8, <1>9

-----------------------------------------------------------------------------
(* Sending                                                                  *)

\* What a broadcast changes: the messages of its sender to those it is for.
LEMMA PublishEffect ==
  ASSUME NEW w, Wired(w), NEW p \in Persons, NEW m \in HandMessages, NEW Q \in SUBSET (Persons \ {p})
  PROVE  /\ Wired(PublishTo(w, p, Q, m))
         /\ \A r, q \in Persons : r # p \/ q \notin Q => PublishTo(w, p, Q, m)[r][q] = w[r][q]
         /\ m = "up" => \A q \in Q : Ups(PublishTo(w, p, Q, m)[p][q]) = Ups(w[p][q]) + 1
         /\ m # "up" => \A q \in Q : Ups(PublishTo(w, p, Q, m)[p][q]) = Ups(w[p][q])
<1>0. /\ w \in [Persons -> [Persons -> Seq(HandMessages)]]
      /\ \A r \in Persons : w[r][r] = <<>>
  BY DEF Wired
<1> DEFINE new == PublishTo(w, p, Q, m)
           row == [q \in Persons |-> IF q \in Q THEN Append(w[p][q], m) ELSE w[p][q]]
<1>1. w[p] \in [Persons -> Seq(HandMessages)] /\ \A q \in Persons : w[p][q] \in Seq(HandMessages)
  BY <1>0
<1>2. \A q \in Q : Append(w[p][q], m) \in Seq(HandMessages)
  BY <1>1, AppendProperties
<1>3. row \in [Persons -> Seq(HandMessages)]
  BY <1>1, <1>2
<1>4. new = [w EXCEPT ![p] = row]
  BY DEF PublishTo
<1>5. \A q \in Q : row[q] = Append(w[p][q], m)
  OBVIOUS
<1>6. \A q \in Persons \ Q : row[q] = w[p][q]
  OBVIOUS
<1> HIDE DEF row, new
<1>7. new[p] = row /\ \A r \in Persons \ {p} : new[r] = w[r]
  BY <1>0, <1>4
<1>8. new \in [Persons -> [Persons -> Seq(HandMessages)]]
  BY <1>0, <1>3, <1>4
<1>9. \A q \in Q : Ups(new[p][q]) = IF m = "up" THEN Ups(w[p][q]) + 1 ELSE Ups(w[p][q])
  BY <1>1, <1>5, <1>7, UpsAppend
<1>10. \A r, q \in Persons : r # p \/ q \notin Q => new[r][q] = w[r][q]
  BY <1>6, <1>7
<1>11. \A r \in Persons : new[r][r] = <<>>
  BY <1>0, <1>10
<1> QED
  BY <1>8, <1>9, <1>10, <1>11 DEF new, Wired

\* What is not a raise leaves every count as it was.
LEMMA QuietEffect ==
  ASSUME NEW w, Wired(w), NEW p \in Persons, NEW m \in HandMessages \ {"up"}, NEW Q \in SUBSET (Persons \ {p})
  PROVE  /\ Wired(PublishTo(w, p, Q, m))
         /\ \A q \in Persons \ Q : \A r \in Persons : PublishTo(w, p, Q, m)[r][q] = w[r][q]
         /\ \A r, q \in Persons : Ups(PublishTo(w, p, Q, m)[r][q]) = Ups(w[r][q])
<1>1. Wired(PublishTo(w, p, Q, m))
  BY PublishEffect
<1>2. \A r, q \in Persons : r # p \/ q \notin Q => PublishTo(w, p, Q, m)[r][q] = w[r][q]
  BY PublishEffect
<1>3. \A q \in Q : Ups(PublishTo(w, p, Q, m)[p][q]) = Ups(w[p][q])
  BY PublishEffect
<1> QED
  BY <1>1, <1>2, <1>3

LEMMA RaiseEffect ==
  ASSUME NEW w, Wired(w), NEW p \in Persons, NEW Q \in SUBSET (Persons \ {p})
  PROVE  /\ Wired(PublishTo(w, p, Q, "up"))
         /\ \A q \in Persons \ Q : \A r \in Persons : PublishTo(w, p, Q, "up")[r][q] = w[r][q]
         /\ \A r \in Persons \ {p} : \A q \in Persons : PublishTo(w, p, Q, "up")[r][q] = w[r][q]
         /\ \A q \in Q : Ups(PublishTo(w, p, Q, "up")[p][q]) = Ups(w[p][q]) + 1
<1>0. "up" \in HandMessages
  BY DEF HandMessages
<1>1. Wired(PublishTo(w, p, Q, "up"))
  BY <1>0, PublishEffect
<1>2. \A r, q \in Persons : r # p \/ q \notin Q => PublishTo(w, p, Q, "up")[r][q] = w[r][q]
  BY <1>0, PublishEffect
<1>3. \A q \in Q : Ups(PublishTo(w, p, Q, "up")[p][q]) = Ups(w[p][q]) + 1
  BY <1>0, PublishEffect
<1> QED
  BY <1>1, <1>2, <1>3

LEMMA PublishIsTo ==
  ASSUME NEW p, NEW m
  PROVE  Publish(p, m) = PublishTo(wire, p, inRoom \ {p}, m)
BY DEF Publish, PublishTo

-----------------------------------------------------------------------------

LEMMA HandInvInit == HandInit => HandInv
<1> SUFFICES ASSUME HandInit PROVE HandInv
  OBVIOUS
<1> USE DEF HandInit
<1>1. WireOK
  BY EmptySeq DEF WireOK, Wired
<1>2. HandTypeOK
  BY <1>1, EmptySeq DEF HandTypeOK, WireOK, Wired
<1>3. NothingOutside /\ RaisesAreClicks
  BY DEF NothingOutside, RaisesAreClicks
<1>4. AllCounted
  BY UpsEmpty DEF AllCounted
<1> QED
  BY <1>1, <1>2, <1>3, <1>4 DEF HandInv

LEMMA HandInvStep == HandInv /\ [HandNext]_handVars => HandInv'
<1> SUFFICES ASSUME HandInv, [HandNext]_handVars PROVE HandInv'
  OBVIOUS
<1> USE DEF HandInv
<1>0. /\ inRoom \subseteq Persons /\ raised \subseteq inRoom
      /\ hands \in [Persons -> SUBSET Persons]
      /\ departed \in [Persons -> SUBSET Persons] /\ ghosts \in [Persons -> SUBSET Persons]
      /\ handRaises \in [Hosts -> [Persons -> 0..MaxHandActs]]
      /\ heardBy \in [Hosts -> [Persons -> 0..MaxHandActs]]
      /\ handActs \in 0..MaxHandActs /\ handMoves \in 0..MaxHandMoves
  BY DEF HandTypeOK
<1>w. Wired(wire)
  BY DEF WireOK
<1>00. /\ wire \in [Persons -> [Persons -> Seq(HandMessages)]]
       /\ \A r \in Persons : wire[r][r] = <<>>
  BY DEF WireOK, Wired
<1>1. ASSUME NEW p \in Persons, Enter(p) PROVE HandInv'
  <2>1. inRoom \in SUBSET (Persons \ {p}) /\ "sync" \in HandMessages \ {"up"}
    BY <1>0, <1>1 DEF Enter, HandMessages
  <2>2. wire' = PublishTo(wire, p, inRoom, "sync")
    BY <1>1 DEF Enter
  <2>3. /\ Wired(wire')
        /\ \A q \in Persons \ inRoom : \A r \in Persons : wire'[r][q] = wire[r][q]
        /\ \A r, q \in Persons : Ups(wire'[r][q]) = Ups(wire[r][q])
    BY <1>w, <2>1, <2>2, QuietEffect
  <2>4. /\ UNCHANGED <<raised, hands, departed, ghosts, handRaises, heardBy, handActs>>
        /\ inRoom' = inRoom \cup {p} /\ handMoves' \in 0..MaxHandMoves
    BY <1>0, <1>1 DEF Enter
  <2>5. HandTypeOK' /\ WireOK'
    BY <1>0, <1>1, <2>3, <2>4 DEF HandTypeOK, WireOK, Wired
  <2>6. NothingOutside'
    <3> SUFFICES ASSUME NEW q \in Persons \ inRoom
                 PROVE  /\ \A r \in Persons : wire'[r][q] = <<>>
                        /\ q \in Hosts => \A r \in Persons : handRaises[q][r] = 0 /\ heardBy[q][r] = 0
      BY <2>4 DEF NothingOutside
    <3> QED
      BY <2>3 DEF NothingOutside
  <2>7. AllCounted'
    BY <2>3, <2>4 DEF AllCounted
  <2>8. RaisesAreClicks'
    BY <2>4 DEF RaisesAreClicks
  <2> QED
    BY <2>5, <2>6, <2>7, <2>8
<1>2. ASSUME NEW p \in Persons, LeaveHands(p) PROVE HandInv'
  <2>1. \A r, q \in Persons : wire'[r][q] = IF q = p THEN <<>> ELSE wire[r][q]
    BY <1>00, <1>2 DEF LeaveHands
  <2>2. WireOK'
    <3>1. \A r \in Persons : [wire[r] EXCEPT ![p] = <<>>] \in [Persons -> Seq(HandMessages)]
      BY <1>00, EmptySeq
    <3>2. wire' \in [Persons -> [Persons -> Seq(HandMessages)]]
      BY <1>2, <3>1 DEF LeaveHands
    <3> QED
      BY <1>00, <2>1, <3>2 DEF WireOK, Wired
  <2>3. HandTypeOK'
    <3>1. inRoom' \subseteq Persons /\ raised' \subseteq inRoom' /\ handActs' = handActs /\ handMoves' \in 0..MaxHandMoves
      BY <1>0, <1>2 DEF LeaveHands
    <3>2. /\ hands' \in [Persons -> SUBSET Persons] /\ departed' \in [Persons -> SUBSET Persons]
          /\ ghosts' \in [Persons -> SUBSET Persons]
      BY <1>0, <1>2 DEF LeaveHands
    <3>3. [r \in Persons |-> 0] \in [Persons -> 0..MaxHandActs]
      OBVIOUS
    <3>4. handRaises' \in [Hosts -> [Persons -> 0..MaxHandActs]] /\ heardBy' \in [Hosts -> [Persons -> 0..MaxHandActs]]
      BY <1>0, <1>2, <3>3 DEF LeaveHands
    <3> QED
      BY <1>0, <2>2, <3>1, <3>2, <3>4 DEF HandTypeOK, WireOK, Wired
  <2>4. /\ inRoom' = inRoom \ {p} /\ handActs' = handActs
        /\ \A q \in Hosts : /\ handRaises'[q] = IF q = p THEN [r \in Persons |-> 0] ELSE handRaises[q]
                           /\ heardBy'[q] = IF q = p THEN [r \in Persons |-> 0] ELSE heardBy[q]
    BY <1>2 DEF LeaveHands
  <2>5. NothingOutside'
    <3> SUFFICES ASSUME NEW q \in Persons \ inRoom'
                 PROVE  /\ \A r \in Persons : wire'[r][q] = <<>>
                        /\ q \in Hosts => \A r \in Persons : handRaises'[q][r] = 0 /\ heardBy'[q][r] = 0
      BY DEF NothingOutside
    <3>1. CASE q = p
      BY <2>1, <2>4, <3>1
    <3>2. CASE q # p
      BY <2>1, <2>4, <3>2 DEF NothingOutside
    <3> QED
      BY <3>1, <3>2
  <2>6. RaisesAreClicks'
    BY <1>0, <2>4 DEF RaisesAreClicks
  <2>7. AllCounted'
    <3> SUFFICES ASSUME NEW q \in Hosts, NEW r \in Persons
                 PROVE handRaises'[q][r] + Ups(wire'[r][q]) = heardBy'[q][r]
      BY DEF AllCounted
    <3>1. CASE q = p
      BY <2>1, <2>4, <3>1, UpsEmpty
    <3>2. CASE q # p
      BY <2>1, <2>4, <3>2 DEF AllCounted
    <3> QED
      BY <3>1, <3>2
  <2> QED
    BY <2>2, <2>3, <2>5, <2>6, <2>7
<1>3. ASSUME NEW p \in Persons, Toggle(p) PROVE HandInv'
  <2>1. p \in inRoom /\ inRoom \ {p} \in SUBSET (Persons \ {p})
    BY <1>0, <1>3 DEF Toggle
  <2>2. handActs' = handActs + 1 /\ handActs' \in 0..MaxHandActs
    BY <1>0, <1>3 DEF Toggle, Click
  <2>3. CASE p \in raised
    <3>1. wire' = PublishTo(wire, p, inRoom \ {p}, "down")
      BY <1>3, <2>3, PublishIsTo DEF Toggle
    <3>2. /\ Wired(wire')
          /\ \A q \in Persons \ (inRoom \ {p}) : \A r \in Persons : wire'[r][q] = wire[r][q]
          /\ \A r, q \in Persons : Ups(wire'[r][q]) = Ups(wire[r][q])
      <4>1. "down" \in HandMessages \ {"up"}
        BY DEF HandMessages
      <4> QED
        BY <1>w, <2>1, <3>1, <4>1, QuietEffect
    <3>3. UNCHANGED <<handRaises, heardBy, inRoom, hands, departed, ghosts, handMoves>> /\ raised' = raised \ {p}
      BY <1>3, <2>3 DEF Toggle
    <3>4. HandTypeOK' /\ WireOK'
      BY <1>0, <2>2, <3>2, <3>3 DEF HandTypeOK, WireOK, Wired
    <3>5. NothingOutside'
      <4> SUFFICES ASSUME NEW q \in Persons \ inRoom
                   PROVE  /\ \A r \in Persons : wire'[r][q] = <<>>
                          /\ q \in Hosts => \A r \in Persons : handRaises[q][r] = 0 /\ heardBy[q][r] = 0
        BY <3>3 DEF NothingOutside
      <4> QED
        BY <3>2 DEF NothingOutside
    <3>6. RaisesAreClicks'
      BY <1>0, <2>2, <3>3 DEF RaisesAreClicks
    <3>7. AllCounted'
      BY <3>2, <3>3 DEF AllCounted
    <3> QED
      BY <3>4, <3>5, <3>6, <3>7
  <2>4. CASE p \notin raised
    <3>1. wire' = PublishTo(wire, p, inRoom \ {p}, "up")
      BY <1>3, <2>4, PublishIsTo DEF Toggle
    <3>2. /\ Wired(wire')
          /\ \A q \in Persons \ (inRoom \ {p}) : \A r \in Persons : wire'[r][q] = wire[r][q]
          /\ \A r \in Persons \ {p} : \A q \in Persons : wire'[r][q] = wire[r][q]
          /\ \A q \in inRoom \ {p} : Ups(wire'[p][q]) = Ups(wire[p][q]) + 1
      BY <1>w, <2>1, <3>1, RaiseEffect
    <3>3. UNCHANGED <<handRaises, inRoom, hands, departed, ghosts, handMoves>> /\ raised' = raised \cup {p}
      BY <1>3, <2>4 DEF Toggle
    <3>4. heardBy' = [q \in Hosts |->
                        IF q \in inRoom \ {p} THEN [heardBy[q] EXCEPT ![p] = @ + 1] ELSE heardBy[q]]
      BY <1>3, <2>4 DEF Toggle
    <3>5. /\ \A q \in Hosts, r \in Persons : q \in inRoom \ {p} /\ r = p => heardBy'[q][r] = heardBy[q][r] + 1
          /\ \A q \in Hosts, r \in Persons : ~(q \in inRoom \ {p} /\ r = p) => heardBy'[q][r] = heardBy[q][r]
      BY <1>0, <3>4
    <3>6. RaisesAreClicks'
      <4> SUFFICES ASSUME NEW q \in Hosts, NEW r \in Persons PROVE heardBy'[q][r] <= handActs'
        BY DEF RaisesAreClicks
      <4>1. heardBy[q][r] \in Nat /\ heardBy[q][r] <= handActs
        BY <1>0 DEF RaisesAreClicks
      <4> QED
        BY <1>0, <2>2, <3>5, <4>1
    <3>7. heardBy' \in [Hosts -> [Persons -> 0..MaxHandActs]]
      <4>1. \A q \in Hosts, r \in Persons : heardBy'[q][r] \in 0..MaxHandActs
        <5> SUFFICES ASSUME NEW q \in Hosts, NEW r \in Persons PROVE heardBy'[q][r] \in 0..MaxHandActs
          OBVIOUS
        <5>1. heardBy[q][r] \in Nat /\ heardBy'[q][r] <= handActs'
          BY <1>0, <3>6 DEF RaisesAreClicks
        <5> QED
          BY <2>2, <3>5, <5>1
      <4>2. heardBy' \in [Hosts -> [Persons -> Nat]]
        <5>1. \A q \in Hosts : [heardBy[q] EXCEPT ![p] = @ + 1] \in [Persons -> Nat] /\ heardBy[q] \in [Persons -> Nat]
          BY <1>0
        <5> QED
          BY <3>4, <5>1
      <4> QED
        BY <4>1, <4>2
    <3>8. HandTypeOK' /\ WireOK'
      BY <1>0, <2>1, <2>2, <3>2, <3>3, <3>7 DEF HandTypeOK, WireOK, Wired
    <3>9. NothingOutside'
      <4> SUFFICES ASSUME NEW q \in Persons \ inRoom
                   PROVE  /\ \A r \in Persons : wire'[r][q] = <<>>
                          /\ q \in Hosts => \A r \in Persons : handRaises[q][r] = 0 /\ heardBy'[q][r] = 0
        BY <3>3 DEF NothingOutside
      <4> QED
        BY <3>2, <3>5 DEF NothingOutside
    <3>10. AllCounted'
      <4> SUFFICES ASSUME NEW q \in Hosts, NEW r \in Persons
                   PROVE handRaises[q][r] + Ups(wire'[r][q]) = heardBy'[q][r]
        BY <3>3 DEF AllCounted
      <4>1. handRaises[q][r] + Ups(wire[r][q]) = heardBy[q][r]
        BY DEF AllCounted
      <4>2. handRaises[q][r] \in Nat /\ Ups(wire[r][q]) \in Nat
        <5>1. handRaises[q][r] \in Nat /\ wire[r][q] \in Seq(HandMessages)
          BY <1>0, <1>00
        <5> QED
          BY <5>1, UpsFinite
      <4>3. CASE q \in inRoom \ {p} /\ r = p
        BY <3>2, <3>5, <4>1, <4>2, <4>3
      <4>4. CASE ~(q \in inRoom \ {p} /\ r = p)
        <5>1. wire'[r][q] = wire[r][q]
          BY <3>2, <4>4
        <5> QED
          BY <3>5, <4>1, <4>4, <5>1
      <4> QED
        BY <4>3, <4>4
    <3> QED
      BY <3>6, <3>8, <3>9, <3>10
  <2> QED
    BY <2>3, <2>4
<1>4. ASSUME NEW h \in Persons, NEW P \in SUBSET Persons, Lower(h, P) PROVE HandInv'
  <2> DEFINE Q == (P \cap inRoom) \ {h}
  <2>1. Q \in SUBSET (Persons \ {h}) /\ "lower" \in HandMessages \ {"up"}
    BY DEF HandMessages
  <2>2. handActs' = handActs + 1 /\ handActs' \in 0..MaxHandActs
    BY <1>0, <1>4 DEF Lower, Click
  <2>3. wire' = PublishTo(wire, h, Q, "lower") /\ Q \subseteq inRoom
    BY <1>4 DEF Lower
  <2> HIDE DEF Q
  <2>4. /\ Wired(wire')
        /\ \A q \in Persons \ Q : \A r \in Persons : wire'[r][q] = wire[r][q]
        /\ \A r, q \in Persons : Ups(wire'[r][q]) = Ups(wire[r][q])
    BY <1>w, <2>1, <2>3, QuietEffect
  <2>5. UNCHANGED <<inRoom, raised, departed, ghosts, handRaises, heardBy, handMoves>>
    BY <1>4 DEF Lower
  <2>6. hands' \in [Persons -> SUBSET Persons]
    BY <1>0, <1>4 DEF Lower
  <2>7. HandTypeOK' /\ WireOK'
    BY <1>0, <2>2, <2>4, <2>5, <2>6 DEF HandTypeOK, WireOK, Wired
  <2>8. NothingOutside'
    <3> SUFFICES ASSUME NEW q \in Persons \ inRoom
                 PROVE  /\ \A r \in Persons : wire'[r][q] = <<>>
                        /\ q \in Hosts => \A r \in Persons : handRaises[q][r] = 0 /\ heardBy[q][r] = 0
      BY <2>5 DEF NothingOutside
    <3> QED
      BY <2>3, <2>4 DEF NothingOutside
  <2>9. RaisesAreClicks'
    BY <1>0, <2>2, <2>5 DEF RaisesAreClicks
  <2>10. AllCounted'
    BY <2>4, <2>5 DEF AllCounted
  <2> QED
    BY <2>7, <2>8, <2>9, <2>10
<1>5. ASSUME NEW p \in Persons, NEW q \in Persons, HandleLeft(q, p) PROVE HandInv'
  <2>1. HandTypeOK'
    BY <1>0, <1>00, <1>5 DEF HandTypeOK, HandleLeft
  <2> QED
    BY <1>5, <2>1 DEF HandleLeft, WireOK, NothingOutside, RaisesAreClicks, AllCounted
<1>6. ASSUME NEW p \in Persons, NEW q \in Persons, Receive(q, p) PROVE HandInv'
  <2> DEFINE m == Head(wire[p][q])
             rest == [wire EXCEPT ![p][q] = Tail(@)]
  <2>1. q \in inRoom /\ wire[p][q] # <<>> /\ p # q
    BY <1>00, <1>6 DEF Receive
  <2>2. /\ m \in HandMessages /\ Tail(wire[p][q]) \in Seq(HandMessages)
        /\ Ups(wire[p][q]) = IF m = "up" THEN Ups(Tail(wire[p][q])) + 1 ELSE Ups(Tail(wire[p][q]))
    BY <1>00, <2>1, HeadTailProperties, UpsTail
  <2>3. /\ Wired(rest)
        /\ \A r, s \in Persons : ~(r = p /\ s = q) => rest[r][s] = wire[r][s]
        /\ rest[p][q] = Tail(wire[p][q])
    <3>1. rest \in [Persons -> [Persons -> Seq(HandMessages)]]
      BY <1>00, <2>2
    <3>2. \A r, s \in Persons : rest[r][s] = IF r = p /\ s = q THEN Tail(wire[p][q]) ELSE wire[r][s]
      BY <1>00
    <3> HIDE DEF rest
    <3> QED
      BY <1>00, <2>1, <3>1, <3>2 DEF Wired
  <2> DEFINE Q == inRoom \ {q}
  <2>4. Q \in SUBSET (Persons \ {q}) /\ Q \subseteq inRoom
    BY <1>0
  <2>5. wire' \in {rest, PublishTo(rest, q, Q, "down"), PublishTo(rest, q, Q, "again")}
    BY <1>6 DEF Receive
  <2>7. handRaises' = IF q \in Hosts /\ m = "up" THEN [handRaises EXCEPT ![q][p] = @ + 1] ELSE handRaises
    BY <1>6 DEF Receive, Counted
  <2>8. UNCHANGED <<inRoom, departed, heardBy, handActs, handMoves>>
    BY <1>6 DEF Receive
  <2> HIDE DEF rest, m, Q
  <2>6. /\ Wired(wire')
        /\ \A s \in Persons \ inRoom : \A r \in Persons : wire'[r][s] = rest[r][s]
        /\ \A r, s \in Persons : Ups(wire'[r][s]) = Ups(rest[r][s])
    <3>1. CASE wire' = rest
      BY <2>3, <3>1
    <3>2. CASE wire' = PublishTo(rest, q, Q, "down")
      <4>1. "down" \in HandMessages \ {"up"}
        BY DEF HandMessages
      <4> QED
        BY <2>3, <2>4, <3>2, <4>1, QuietEffect
    <3>3. CASE wire' = PublishTo(rest, q, Q, "again")
      <4>1. "again" \in HandMessages \ {"up"}
        BY DEF HandMessages
      <4> QED
        BY <2>3, <2>4, <3>3, <4>1, QuietEffect
    <3> QED
      BY <2>5, <3>1, <3>2, <3>3
  <2>9. /\ \A s \in Hosts, r \in Persons : s = q /\ r = p /\ m = "up" => handRaises'[s][r] = handRaises[s][r] + 1
        /\ \A s \in Hosts, r \in Persons : ~(s = q /\ r = p /\ m = "up") => handRaises'[s][r] = handRaises[s][r]
        /\ handRaises' \in [Hosts -> [Persons -> Nat]]
    BY <1>0, <2>7
  <2>10. AllCounted'
    <3> SUFFICES ASSUME NEW s \in Hosts, NEW r \in Persons
                 PROVE handRaises'[s][r] + Ups(wire'[r][s]) = heardBy[s][r]
      BY <2>8 DEF AllCounted
    <3>1. handRaises[s][r] + Ups(wire[r][s]) = heardBy[s][r] /\ Ups(wire'[r][s]) = Ups(rest[r][s])
      BY <2>6 DEF AllCounted
    <3>2. CASE s = q /\ r = p
      <4>1. Ups(rest[r][s]) = Ups(Tail(wire[p][q])) /\ Ups(wire[r][s]) = Ups(wire[p][q])
        BY <2>3, <3>2
      <4>2. handRaises[s][r] \in Nat /\ Ups(Tail(wire[p][q])) \in Nat
        <5>1. handRaises[s][r] \in Nat
          BY <1>0
        <5> QED
          BY <2>2, <5>1, UpsFinite
      <4>3. CASE m = "up"
        <5>1. handRaises'[s][r] = handRaises[s][r] + 1
          BY <2>9, <3>2, <4>3
        <5>2. Ups(wire[p][q]) = Ups(Tail(wire[p][q])) + 1
          BY <2>2, <4>3
        <5> QED
          BY <3>1, <4>1, <4>2, <5>1, <5>2
      <4>4. CASE m # "up"
        <5>1. handRaises'[s][r] = handRaises[s][r]
          BY <2>9, <4>4
        <5>2. Ups(wire[p][q]) = Ups(Tail(wire[p][q]))
          BY <2>2, <4>4
        <5> QED
          BY <3>1, <4>1, <5>1, <5>2
      <4> QED
        BY <4>3, <4>4
    <3>3. CASE ~(s = q /\ r = p)
      <4>1. rest[r][s] = wire[r][s] /\ handRaises'[s][r] = handRaises[s][r]
        BY <2>3, <2>9, <3>3
      <4> QED
        BY <3>1, <4>1
    <3> QED
      BY <3>2, <3>3
  <2>11. handRaises' \in [Hosts -> [Persons -> 0..MaxHandActs]]
    <3>1. \A s \in Hosts, r \in Persons : handRaises'[s][r] \in 0..MaxHandActs
      <4> SUFFICES ASSUME NEW s \in Hosts, NEW r \in Persons PROVE handRaises'[s][r] \in 0..MaxHandActs
        OBVIOUS
      <4>1. handRaises'[s][r] + Ups(wire'[r][s]) = heardBy[s][r]
        BY <2>8, <2>10 DEF AllCounted
      <4>2. wire'[r][s] \in Seq(HandMessages)
        BY <2>6 DEF Wired
      <4>3. handRaises'[s][r] \in Nat /\ Ups(wire'[r][s]) \in Nat /\ heardBy[s][r] \in 0..MaxHandActs
        BY <1>0, <2>9, <4>2, UpsFinite
      <4> QED
        BY <4>1, <4>3
    <3> QED
      BY <2>9, <3>1
  <2>12. raised' \subseteq inRoom
    BY <1>0, <1>6 DEF Receive
  <2>13. hands' \in [Persons -> SUBSET Persons] /\ ghosts' \in [Persons -> SUBSET Persons]
    BY <1>0, <1>6 DEF Receive
  <2>14. HandTypeOK' /\ WireOK'
    BY <1>0, <2>6, <2>8, <2>11, <2>12, <2>13 DEF HandTypeOK, WireOK, Wired
  <2>15. NothingOutside'
    <3> SUFFICES ASSUME NEW s \in Persons \ inRoom
                 PROVE  /\ \A r \in Persons : wire'[r][s] = <<>>
                        /\ s \in Hosts => \A r \in Persons : handRaises'[s][r] = 0 /\ heardBy[s][r] = 0
      BY <2>8 DEF NothingOutside
    <3>1. s # q
      BY <2>1
    <3> QED
      BY <2>3, <2>6, <2>9, <3>1 DEF NothingOutside
  <2>16. RaisesAreClicks'
    BY <2>8 DEF RaisesAreClicks
  <2> QED
    BY <2>10, <2>14, <2>15, <2>16
<1>7. CASE UNCHANGED handVars
  BY <1>7 DEF handVars, HandTypeOK, WireOK, NothingOutside, RaisesAreClicks, AllCounted
<1> QED
  BY <1>1, <1>2, <1>3, <1>4, <1>5, <1>6, <1>7 DEF HandNext

\* Every variable keeps its type.
THEOREM HandTypeCorrect == HandSpec => []HandTypeOK
<1>1. HandInv => HandTypeOK
  BY DEF HandInv
<1> QED
  BY <1>1, HandInvInit, HandInvStep, PTL DEF HandSpec

\* However many come, go, raise their hands and make the others repeat theirs, a host
\* who is there counts each raise once.
THEOREM EveryRaiseCountedOnce == HandSpec => []RaisesCountedOnce
<1>1. HandInv => RaisesCountedOnce
  BY DEF HandInv, AllCounted, Ups, RaisesCountedOnce, InFlightRaises
<1> QED
  BY <1>1, HandInvInit, HandInvStep, PTL DEF HandSpec

HIDE HandAssumption DEF HandAssumption

-----------------------------------------------------------------------------
(***************************************************************************)
(* THE STAGE OF A SPECTATOR                                                *)
(*                                                                         *)
(* A spectator hears everyone and is sent one video at most, for any       *)
(* number of publications.  The two references the page keeps are what the *)
(* SFU forwards of what is published, each of its kind; once the effects   *)
(* have run, they are what is to be shown and heard.                       *)
(***************************************************************************)

USE StageAssumption DEF StageAssumption

\* The publications of the stage, each under its own number.
PubsOK ==
  /\ pubs \in Seq(Pub)
  /\ \A i, j \in DOMAIN pubs : pubs[i].id = pubs[j].id => i = j
  /\ \A i \in DOMAIN pubs : pubs[i].id <= lastPub

IsVideo(p) == p.track.kind = "video"
IsAudio(p) == p.track.kind = "audio"

\* Of what is published, what is received is what the two references hold, each of its kind.
HeldIsReceived ==
  /\ \A n \in received : \E p \in ToSet(pubs) : p.id = n
  /\ videoRef <= lastPub /\ \A n \in audioRef : n <= lastPub
  /\ \A p \in ToSet(pubs) : /\ p.id = videoRef <=> p.id \in received /\ IsVideo(p)
                            /\ p.id \in audioRef <=> p.id \in received /\ IsAudio(p)

\* Once the effects have run, they hold what is to be shown and heard.
HeldAsWanted ==
  rendered => /\ \A p \in ToSet(pubs) : p.id = videoRef <=> p \in Remote(MainTrack)
              /\ audioRef = Ids(Voices)

StageInv == StageTypeOK /\ PubsOK /\ HeldIsReceived /\ HeldAsWanted

LEMMA OnePerId ==
  ASSUME PubsOK, NEW p \in ToSet(pubs), NEW q \in ToSet(pubs), p.id = q.id
  PROVE  p = q
BY DEF PubsOK, ToSet

LEMMA PubTypes ==
  ASSUME PubsOK, NEW p \in ToSet(pubs)
  PROVE  /\ p \in Pub /\ p.id \in 1..MaxPubs /\ p.id <= lastPub
         /\ p.track \in Tracks
<1>1. PICK i \in DOMAIN pubs : p = pubs[i]
  BY DEF ToSet
<1>2. p \in Pub
  BY <1>1, ElementOfSeq DEF PubsOK
<1> QED
  BY <1>1, <1>2 DEF PubsOK, Pub

LEMMA TrackKinds ==
  ASSUME NEW t \in Tracks
  PROVE  /\ t.kind \in {"video", "audio"}
         /\ t.kind = "audio" => t.source \in {"microphone", "unknown"}
         /\ t.source = "screen" => t.kind = "video"
<1>1. CASE t \in {Track("obs", k, s) : k \in {"video"}, s \in {"camera", "unknown"}}
  BY <1>1 DEF Track
<1>2. CASE t \in {Track("obs", "audio", s) : s \in {"microphone", "unknown"}}
  BY <1>2 DEF Track
<1>3. CASE t \in {Track("host", "video", "camera"), Track("host", "audio", "microphone"),
                  Track("host", "video", "screen"), Track("guest", "video", "camera"),
                  Track("guest", "audio", "microphone"),
                  Track("me", "video", "screen"), Track("me", "audio", "microphone")}
  BY <1>3 DEF Track
<1> QED
  BY <1>1, <1>2, <1>3 DEF Tracks

\* The first of some is one of them, and there is one only.
LEMMA FirstOfSome ==
  ASSUME PubsOK, NEW W
  PROVE  /\ First(W) \subseteq W \cap ToSet(pubs)
         /\ \A p, q \in First(W) : p = q
<1>1. \A p \in First(W) : \E i \in DOMAIN pubs : p = pubs[i] /\ pubs[i] \in W /\ \A k \in 1..(i - 1) : pubs[k] \notin W
  BY DEF First
<1>2. ASSUME NEW p \in First(W), NEW q \in First(W) PROVE p = q
  <2>1. PICK i \in DOMAIN pubs : p = pubs[i] /\ pubs[i] \in W /\ \A k \in 1..(i - 1) : pubs[k] \notin W
    BY <1>1
  <2>2. PICK j \in DOMAIN pubs : q = pubs[j] /\ pubs[j] \in W /\ \A k \in 1..(j - 1) : pubs[k] \notin W
    BY <1>1
  <2>3. i \in Nat \ {0} /\ j \in Nat \ {0}
    BY DEF PubsOK
  <2>4. ~(i < j) /\ ~(j < i)
    BY <2>1, <2>2, <2>3
  <2> QED
    BY <2>1, <2>2, <2>3, <2>4
<1> QED
  BY <1>1, <1>2 DEF ToSet

LEMMA MainTrackIsOneVideo ==
  ASSUME PubsOK
  PROVE  /\ MainTrack \subseteq ToSet(pubs)
         /\ \A p \in MainTrack : IsVideo(p)
         /\ \A p, q \in MainTrack : p = q
<1> DEFINE all    == ToSet(pubs)
           screen == {p \in all : p.track.source = "screen"}
           ingest == {p \in all : IsObs(p) /\ p.track.kind = "video"}
           hosts  == {p \in all : IsCam(p) /\ p.track.owner = "host"}
           cams   == {p \in all : IsCam(p)}
<1>1. \E W \in {screen, ingest, hosts, cams} : MainTrack = First(W)
  BY Zenon DEF MainTrack
<1>2. \A p \in all : p \in screen \/ p \in ingest \/ p \in hosts \/ p \in cams => IsVideo(p)
  BY PubTypes, TrackKinds DEF IsVideo, IsCam
<1>3. PICK W \in {screen, ingest, hosts, cams} : MainTrack = First(W)
  BY <1>1
<1>4. First(W) \subseteq W \cap ToSet(pubs) /\ \A p, q \in First(W) : p = q
  BY FirstOfSome
<1> QED
  BY <1>2, <1>3, <1>4

LEMMA StageUnmoved ==
  ASSUME UNCHANGED pubs
  PROVE  MainTrack' = MainTrack /\ Voices' = Voices
<1>1. ToSet(pubs)' = ToSet(pubs)
  BY DEF ToSet
<1>2. \A W : First(W)' = First(W)
  BY DEF First
<1> QED
  BY <1>1, <1>2, Zenon DEF MainTrack, Voices

LEMMA StageInit0 == StageInit => StageInv
<1> SUFFICES ASSUME StageInit PROVE StageInv
  OBVIOUS
<1>1. ToSet(pubs) = {}
  BY DEF StageInit, ToSet
<1>2. PubsOK
  BY DEF StageInit, PubsOK
<1>3. StageTypeOK /\ HeldIsReceived
  BY <1>1 DEF StageInit, StageTypeOK, HeldIsReceived
<1>4. MainTrack = {} /\ Voices = {}
  BY <1>1, <1>2, MainTrackIsOneVideo DEF Voices, Remote
<1>5. HeldAsWanted
  BY <1>1, <1>4 DEF StageInit, HeldAsWanted, Ids
<1> QED
  BY <1>2, <1>3, <1>5 DEF StageInv

LEMMA PublishKeeps ==
  ASSUME StageInv, NEW t \in Tracks, PublishOnStage(t)
  PROVE  StageInv'
<1> DEFINE new == [id |-> lastPub + 1, track |-> t]
<1> USE DEF StageInv
<1>1. lastPub \in Nat /\ lastPub' = lastPub + 1 /\ lastPub' \in 1..MaxPubs
  BY DEF PublishOnStage, StageTypeOK
<1>2. pubs' = Append(pubs, new) /\ new \in Pub /\ new.id = lastPub + 1
  BY <1>1 DEF PublishOnStage, Pub
<1>3. /\ pubs' \in Seq(Pub) /\ DOMAIN pubs' = 1..(Len(pubs) + 1) /\ DOMAIN pubs = 1..Len(pubs)
      /\ pubs'[Len(pubs) + 1] = new
      /\ \A i \in DOMAIN pubs : pubs'[i] = pubs[i]
      /\ Len(pubs) \in Nat
  BY <1>2 DEF PubsOK
<1>4. PubsOK'
  <2>1. \A i \in DOMAIN pubs : pubs[i].id <= lastPub /\ pubs[i].id \in Nat
    <3>1. \A i \in DOMAIN pubs : pubs[i] \in Pub
      BY ElementOfSeq DEF PubsOK
    <3> QED
      BY <3>1 DEF PubsOK, Pub
  <2>2. \A i \in DOMAIN pubs' : pubs'[i].id <= lastPub'
    BY <1>1, <1>2, <1>3, <2>1
  <2>3. \A i, j \in DOMAIN pubs' : pubs'[i].id = pubs'[j].id => i = j
    BY <1>1, <1>2, <1>3, <2>1 DEF PubsOK
  <2> QED
    BY <1>3, <2>2, <2>3 DEF PubsOK
<1>5. ToSet(pubs)' = ToSet(pubs) \cup {new}
  BY <1>3 DEF ToSet
<1>6. StageTypeOK'
  <2>1. ToSet(pubs)' \subseteq Pub
    BY <1>2, <1>5 DEF StageTypeOK
  <2>2. rendered' = FALSE /\ UNCHANGED <<videoRef, audioRef, received>>
    BY DEF PublishOnStage
  <2>3. lastPub' \in 0..MaxPubs
    BY <1>1
  <2>4. videoRef' \in 0..MaxPubs /\ audioRef' \subseteq 1..MaxPubs /\ received' \subseteq 1..MaxPubs
    BY <2>2 DEF StageTypeOK
  <2> QED
    BY <2>1, <2>2, <2>3, <2>4 DEF StageTypeOK
<1>7. HeldIsReceived'
  <2>1. new.id # videoRef /\ new.id \notin audioRef /\ new.id \notin received
    BY <1>1, <1>2, PubTypes DEF HeldIsReceived, StageTypeOK
  <2>2. videoRef <= lastPub' /\ \A n \in audioRef : n <= lastPub'
    BY <1>1 DEF HeldIsReceived, StageTypeOK
  <2> QED
    BY <1>5, <2>1, <2>2 DEF HeldIsReceived, PublishOnStage
<1>8. HeldAsWanted'
  BY DEF PublishOnStage, HeldAsWanted
<1> QED
  BY <1>4, <1>6, <1>7, <1>8

LEMMA Removal ==
  ASSUME NEW S, NEW s \in Seq(S), NEW i \in 1..Len(s)
  PROVE  /\ RemoveAt(s, i) \in Seq(S)
         /\ Len(RemoveAt(s, i)) = Len(s) - 1
         /\ \A j \in 1..(Len(s) - 1) : RemoveAt(s, i)[j] = s[IF j < i THEN j ELSE j + 1]
<1> DEFINE front == SubSeq(s, 1, i - 1)
           back  == SubSeq(s, i + 1, Len(s))
<1>1. Len(s) \in Nat /\ i \in Nat /\ \A j \in 1..Len(s) : s[j] \in S
  BY ElementOfSeq
<1>2. /\ front \in Seq(S) /\ Len(front) = i - 1
      /\ \A j \in 1..(i - 1) : front[j] = s[j]
  BY <1>1, SubSeqProperties
<1>3. /\ back \in Seq(S) /\ Len(back) = Len(s) - i
      /\ \A j \in 1..(Len(s) - i) : back[j] = s[i + j]
  BY <1>1, SubSeqProperties
<1>4. RemoveAt(s, i) = front \o back
  BY DEF RemoveAt
<1> HIDE DEF front, back
<1>5. /\ front \o back \in Seq(S) /\ Len(front \o back) = Len(front) + Len(back)
      /\ \A j \in 1..(Len(front) + Len(back)) :
           (front \o back)[j] = IF j <= Len(front) THEN front[j] ELSE back[j - Len(front)]
  BY <1>2, <1>3, ConcatProperties
<1>6. Len(front) + Len(back) = Len(s) - 1
  BY <1>1, <1>2, <1>3
<1>7. ASSUME NEW j \in 1..(Len(s) - 1)
      PROVE  RemoveAt(s, i)[j] = s[IF j < i THEN j ELSE j + 1]
  <2>1. CASE j < i
    BY <1>1, <1>2, <1>4, <1>5, <1>6, <1>7, <2>1
  <2>2. CASE ~(j < i)
    <3>1. j - (i - 1) \in 1..(Len(s) - i)
      BY <1>1, <1>7, <2>2
    <3>2. back[j - (i - 1)] = s[i + (j - (i - 1))]
      BY <1>3, <3>1
    <3>3. i + (j - (i - 1)) = j + 1
      BY <1>1, <1>7
    <3> QED
      BY <1>1, <1>2, <1>4, <1>5, <1>6, <1>7, <2>2, <3>2, <3>3
  <2> QED
    BY <2>1, <2>2
<1> QED
  BY <1>4, <1>5, <1>6, <1>7

LEMMA UnpublishKeeps ==
  ASSUME StageInv, NEW i \in 1..MaxPubs, UnpublishOnStage(i)
  PROVE  StageInv'
<1> DEFINE gone == pubs[i]
<1> USE DEF StageInv
<1>1. pubs \in Seq(Pub) /\ i \in 1..Len(pubs) /\ pubs' = RemoveAt(pubs, i) /\ Len(pubs) \in Nat
  BY DEF UnpublishOnStage, PubsOK
<1>2. /\ pubs' \in Seq(Pub) /\ DOMAIN pubs' = 1..(Len(pubs) - 1) /\ DOMAIN pubs = 1..Len(pubs)
      /\ \A j \in 1..(Len(pubs) - 1) : pubs'[j] = pubs[IF j < i THEN j ELSE j + 1]
  <2>1. /\ RemoveAt(pubs, i) \in Seq(Pub)
        /\ Len(RemoveAt(pubs, i)) = Len(pubs) - 1
        /\ \A j \in 1..(Len(pubs) - 1) : RemoveAt(pubs, i)[j] = pubs[IF j < i THEN j ELSE j + 1]
    BY <1>1, Removal
  <2> QED
    BY <1>1, <2>1
<1>3. PubsOK'
  <2>1. \A j \in DOMAIN pubs' : (IF j < i THEN j ELSE j + 1) \in DOMAIN pubs
    BY <1>1, <1>2
  <2>2. \A j, k \in DOMAIN pubs' : (IF j < i THEN j ELSE j + 1) = (IF k < i THEN k ELSE k + 1) => j = k
    BY <1>1, <1>2
  <2>3. UNCHANGED lastPub
    BY DEF UnpublishOnStage
  <2> QED
    BY <1>2, <2>1, <2>2, <2>3 DEF PubsOK
<1>4. ToSet(pubs)' = ToSet(pubs) \ {gone}
  <2>1. \A j \in DOMAIN pubs' : pubs'[j] \in ToSet(pubs) \ {gone}
    <3> SUFFICES ASSUME NEW j \in DOMAIN pubs' PROVE pubs'[j] \in ToSet(pubs) \ {gone}
      OBVIOUS
    <3> DEFINE k == IF j < i THEN j ELSE j + 1
    <3>1. k \in DOMAIN pubs /\ k # i /\ pubs'[j] = pubs[k]
      BY <1>1, <1>2
    <3>2. pubs[k] # pubs[i]
      BY <1>1, <1>2, <3>1 DEF PubsOK
    <3> QED
      BY <3>1, <3>2 DEF ToSet
  <2>2. ASSUME NEW k \in DOMAIN pubs, k # i PROVE \E j \in DOMAIN pubs' : pubs'[j] = pubs[k]
    <3>1. CASE k < i
      BY <1>1, <1>2, <2>2, <3>1
    <3>2. CASE k > i
      <4>1. k - 1 \in DOMAIN pubs' /\ pubs'[k - 1] = pubs[k]
        BY <1>1, <1>2, <2>2, <3>2
      <4> QED
        BY <4>1
    <3> QED
      BY <1>1, <1>2, <2>2, <3>1, <3>2
  <2> QED
    BY <2>1, <2>2 DEF ToSet
<1>5. StageTypeOK'
  BY <1>4 DEF StageTypeOK, UnpublishOnStage
<1>6. HeldIsReceived'
  <2>1. gone \in ToSet(pubs)
    BY <1>1, <1>2 DEF ToSet
  <2>2. \A p \in ToSet(pubs)' : p.id # gone.id /\ p \in ToSet(pubs)
    BY <1>4, <2>1, OnePerId
  <2>3. received' = received \ {gone.id} /\ UNCHANGED <<lastPub, videoRef, audioRef>>
    BY DEF UnpublishOnStage
  <2>4. \A n \in received' : \E p \in ToSet(pubs)' : p.id = n
    BY <1>4, <2>3 DEF HeldIsReceived
  <2> QED
    BY <2>2, <2>3, <2>4 DEF HeldIsReceived
<1>7. HeldAsWanted'
  BY DEF UnpublishOnStage, HeldAsWanted
<1> QED
  BY <1>3, <1>5, <1>6, <1>7

LEMMA EffectsKeep ==
  ASSUME StageInv, Effects
  PROVE  StageInv'
<1> DEFINE all    == ToSet(pubs)
           next   == Ids(Remote(MainTrack))
           video  == IF next = {videoRef} \/ (next = {} /\ videoRef = 0) THEN received
                     ELSE (received \ {videoRef}) \cup next
           voices == Ids(Voices)
<1> USE DEF StageInv
<1>1. /\ rendered' = TRUE /\ audioRef' = voices
      /\ videoRef' = IF next = {} THEN 0 ELSE CHOOSE n \in next : TRUE
      /\ received' = (video \ (audioRef \ voices)) \cup (voices \ audioRef)
      /\ UNCHANGED <<pubs, lastPub>>
  BY DEF Effects
<1>2. /\ Remote(MainTrack) \subseteq all /\ Voices \subseteq all
      /\ \A p \in Remote(MainTrack) : IsVideo(p)
      /\ \A p \in Voices : IsAudio(p)
      /\ \A m, n \in next : m = n
  BY MainTrackIsOneVideo DEF Remote, Voices, Ids, IsAudio
<1>3. \A p \in all : /\ p.id \in next <=> p \in Remote(MainTrack)
                     /\ p.id \in voices <=> p \in Voices
                     /\ p.id \in 1..MaxPubs /\ p.id <= lastPub /\ p.id # 0
                     /\ ~(IsVideo(p) /\ IsAudio(p)) /\ (IsVideo(p) \/ IsAudio(p))
  BY <1>2, OnePerId, PubTypes, TrackKinds DEF Ids, IsVideo, IsAudio
<1>4. \A n \in next \cup voices : \E p \in all : p.id = n
  BY <1>2 DEF Ids
<1>5. (next = {} /\ videoRef' = 0) \/ (next = {videoRef'})
  BY <1>1, <1>2
<1>6. \A p \in all : p.id = videoRef' <=> p.id \in next
  BY <1>3, <1>5
<1>7. StageTypeOK'
  <2>1. next \subseteq 1..MaxPubs /\ voices \subseteq 1..MaxPubs
    BY <1>3, <1>4
  <2>2. videoRef' \in 0..MaxPubs
    BY <1>5, <2>1
  <2>3. received' \subseteq 1..MaxPubs
    BY <1>1, <2>1 DEF StageTypeOK
  <2> QED
    BY <1>1, <2>1, <2>2, <2>3 DEF StageTypeOK
<1>8. HeldIsReceived'
  <2>1. \A n \in received' : \E p \in all : p.id = n
    BY <1>1, <1>4 DEF HeldIsReceived
  <2>2. videoRef' <= lastPub /\ \A n \in voices : n <= lastPub
    <3>1. \A n \in next \cup voices : n <= lastPub
      BY <1>3, <1>4
    <3>2. lastPub \in Nat
      BY DEF StageTypeOK
    <3> QED
      BY <1>5, <3>1, <3>2
  <2>3. ASSUME NEW p \in all
        PROVE  /\ p.id = videoRef' <=> p.id \in received' /\ IsVideo(p)
               /\ p.id \in voices <=> p.id \in received' /\ IsAudio(p)
    <3>1. CASE IsVideo(p)
      <4>1. p.id \notin voices /\ p.id \notin audioRef
        BY <1>2, <1>3, <3>1 DEF HeldIsReceived
      <4>2. p.id \in received' <=> p.id \in video
        BY <1>1, <4>1
      <4>3. p.id \in received <=> p.id = videoRef
        BY <3>1 DEF HeldIsReceived
      <4>4. p.id \in video <=> p.id \in next
        BY <1>3, <4>3
      <4> QED
        BY <1>3, <1>6, <3>1, <4>1, <4>2, <4>4
    <3>2. CASE IsAudio(p)
      <4>1. p.id \notin next /\ p.id # videoRef
        BY <1>2, <1>3, <3>2 DEF HeldIsReceived
      <4>2. p.id \in received <=> p.id \in audioRef
        BY <3>2 DEF HeldIsReceived
      <4>3. p.id \in video <=> p.id \in audioRef
        BY <4>1, <4>2
      <4>4. p.id \in received' <=> p.id \in voices
        BY <1>1, <4>3
      <4> QED
        BY <1>3, <1>6, <3>2, <4>1, <4>4
    <3> QED
      BY <1>3, <3>1, <3>2
  <2> QED
    BY <1>1, <2>1, <2>2, <2>3 DEF HeldIsReceived
<1>9. HeldAsWanted'
  <2>1. MainTrack' = MainTrack /\ Voices' = Voices
    BY <1>1, StageUnmoved
  <2> QED
    BY <1>1, <1>3, <1>6, <2>1 DEF HeldAsWanted, Remote, Ids
<1>10. PubsOK'
  BY <1>1 DEF PubsOK
<1> QED
  BY <1>7, <1>8, <1>9, <1>10

LEMMA StageNextKeeps == StageInv /\ [StageNext]_stageVars => StageInv'
<1> SUFFICES ASSUME StageInv, [StageNext]_stageVars PROVE StageInv'
  OBVIOUS
<1>1. CASE UNCHANGED stageVars
  <2>1. UNCHANGED <<pubs, lastPub, rendered, videoRef, audioRef, received>>
    BY <1>1 DEF stageVars
  <2>2. MainTrack' = MainTrack /\ Voices' = Voices
    BY <2>1, StageUnmoved
  <2> QED
    BY <2>1, <2>2 DEF StageInv, StageTypeOK, PubsOK, HeldIsReceived, HeldAsWanted
<1> QED
  BY <1>1, PublishKeeps, UnpublishKeeps, EffectsKeep DEF StageNext

LEMMA StageShows == StageInv => OneVideoAllVoices
<1> SUFFICES ASSUME StageInv PROVE OneVideoAllVoices
  OBVIOUS
<1> DEFINE all    == ToSet(pubs)
           videos == {p \in all : p.id \in received /\ p.track.kind = "video"}
           heard  == {p \in all : p.id \in received /\ p.track.kind = "audio"}
<1> USE DEF StageInv
<1>1. \A p \in all : /\ p \in videos <=> p.id = videoRef
                     /\ p \in heard <=> p.id \in audioRef
  BY DEF HeldIsReceived, IsVideo, IsAudio
<1>2. Cardinality(videos) <= 1
  <2>1. \A p, q \in videos : p = q
    BY <1>1, OnePerId
  <2>2. videos = {} \/ \E p : videos = {p}
    BY <2>1
  <2> QED
    BY <2>2, FS_EmptySet, FS_Singleton
<1>3. ASSUME rendered PROVE videos = Remote(MainTrack) /\ heard = {p \in Remote(all) : p.track.kind = "audio"}
  <2>1. Remote(MainTrack) \subseteq all /\ Voices \subseteq all
    BY MainTrackIsOneVideo DEF Remote, Voices
  <2>2. videos = Remote(MainTrack)
    BY <1>1, <1>3, <2>1 DEF HeldAsWanted
  <2>3. \A p \in all : p.id \in Ids(Voices) <=> p \in Voices
    BY <2>1, OnePerId DEF Ids
  <2>4. \A p \in all : p \in Voices <=> p.track.owner # "me" /\ p.track.kind = "audio"
    BY PubTypes, TrackKinds DEF Voices, Remote
  <2>5. heard = {p \in Remote(all) : p.track.kind = "audio"}
    BY <1>1, <1>3, <2>3, <2>4 DEF HeldAsWanted, Remote
  <2> QED
    BY <2>2, <2>5
<1> QED
  BY <1>2, <1>3 DEF OneVideoAllVoices

\* The publications, the references of the page and what it receives are in their types (CallStage).
THEOREM StageTypeCorrect == StageSpec => []StageTypeOK
<1>1. StageInv => StageTypeOK
  BY DEF StageInv
<1> QED
  BY <1>1, StageInit0, StageNextKeeps, PTL DEF StageSpec

\* At every moment at most one video is received, and when the effects of CallStage have run, exactly
\* the remote video in large and every remote voice, for any number of publications in any order.
THEOREM SpectatorReceives == StageSpec => []OneVideoAllVoices
<1> QED
  BY StageInit0, StageNextKeeps, StageShows, PTL DEF StageSpec

HIDE StageAssumption DEF StageAssumption

-----------------------------------------------------------------------------
(***************************************************************************)
(* THE MEETING                                                             *)
(*                                                                         *)
(* A step of the meeting is a step of one component and leaves the         *)
(* variables of the others alone, so what each keeps is kept.              *)
(***************************************************************************)

MeetingInv == PermTypeOK /\ PollTypeOK /\ PresInv /\ EndInv /\ IngInv /\ HandInv /\ StageInv

LEMMA MeetingInit == MCInit => MeetingInv
BY TypeInit, PollTypeInit, PresInvInit, EndInvInit, IngInvInit, HandInvInit, StageInit0 DEF MCInit, MeetingInv

LEMMA MeetingSteps ==
  ASSUME [MCNext]_mcVars
  PROVE  /\ [PermNext]_permVars /\ [PollNext]_pollVars /\ [PresNext]_presVars /\ [BrkNext]_brkVars
         /\ [IngNext]_ingVars /\ [HandNext]_handVars /\ [StageNext]_stageVars
<1>1. CASE UNCHANGED mcVars
  BY <1>1 DEF mcVars
<1>2. CASE MCNext
  BY <1>2 DEF MCNext
<1> QED
  BY <1>1, <1>2

LEMMA MeetingStep == MeetingInv /\ [MCNext]_mcVars => MeetingInv'
BY MeetingSteps, TypeStep, PollTypeStep, PresInvStep, EndInvStep, IngInvStep, HandInvStep, StageNextKeeps DEF MeetingInv

\* Every component of a meeting keeps its variables in their types, whichever runs (MCMeeting).
THEOREM MeetingTypeCorrect == MCSpec => []MeetingTypeOK
<1>1. MeetingInv => MeetingTypeOK
  BY PresInvMeans DEF MeetingInv, MeetingTypeOK, EndInv, IngInv, HandInv, StageInv
<1> QED
  BY <1>1, MeetingInit, MeetingStep, PTL DEF MCSpec
=============================================================================
