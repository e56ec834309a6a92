------------------------------- MODULE Polls -------------------------------
(***************************************************************************)
(* One poll of a room, from the panels of the participants (PollsPanel) to *)
(* the rows of the database (PollsService).  A panel shows the last answer *)
(* received to its refreshes, which may not be the last one sent, and      *)
(* computes a vote from what it shows.  vote() is three steps: the status  *)
(* is read, the former responses are deleted, the new ones inserted.       *)
(***************************************************************************)
EXTENDS Naturals, FiniteSets

CONSTANTS
  Voters,       \* accounts
  Options,      \* options of the poll
  TabsEach,     \* panels each account has open
  MaxVotes      \* bound on the votes submitted

ASSUME PollAssumption == TabsEach \in Nat /\ MaxVotes \in Nat

VARIABLES
  pollStatus,   \* the status column
  pollSingle,   \* the poll was created with multiple = false
  responses,    \* rows of PollResponse, pairs option / identity
  panel,        \* panel[t]: what the panel shows, busy while a request is out
  voteRequest,  \* voteRequest[t]: the vote of t in the backend
  pollAnswers,  \* answers to refreshes on their way
  manager,      \* the manager's open() or close() in the backend
  votes         \* votes submitted so far

pollVars == <<pollStatus, pollSingle, responses, panel, voteRequest, pollAnswers, manager, votes>>
pollRows == <<pollStatus, pollSingle, responses>>

Tabs     == Voters \X (1..TabsEach)
UserOf(t) == t[1]
PollStatus == {"DRAFT", "OPEN", "CLOSED"}
NextStatus == [DRAFT |-> "OPEN", OPEN |-> "CLOSED"]

Ballot(u)  == {o \in Options : <<o, u>> \in responses}
PollDto(t) == [status |-> pollStatus, mine |-> Ballot(UserOf(t))]

View        == [status : PollStatus, mine : SUBSET Options]
VoteRequest == [step : {"none", "check", "clear", "insert"}, options : SUBSET Options]
NoVote      == [step |-> "none", options |-> {}]

PollTypeOK ==
  /\ pollStatus \in PollStatus
  /\ pollSingle \in BOOLEAN
  /\ responses \subseteq Options \X Voters
  /\ panel \in [Tabs -> [shown : View, busy : BOOLEAN]]
  /\ voteRequest \in [Tabs -> VoteRequest]
  /\ pollAnswers \subseteq [tab : Tabs, view : View]
  /\ manager \in {"none"} \cup DOMAIN NextStatus
  /\ votes \in 0..MaxVotes

PollInit ==
  /\ pollStatus = "DRAFT"
  /\ pollSingle \in BOOLEAN
  /\ responses = {}
  /\ panel = [t \in Tabs |-> [shown |-> PollDto(t), busy |-> FALSE]]
  /\ voteRequest = [t \in Tabs |-> NoVote]
  /\ pollAnswers = {}
  /\ manager = "none"
  /\ votes = 0

-----------------------------------------------------------------------------
(* Panels                                                                   *)

\* Mutant: a panel refreshes only until it knows the poll is open.
RefreshUntilOpen(t) ==
  /\ panel[t].shown.status = "DRAFT"
  /\ Cardinality({a \in pollAnswers : a.tab = t}) < 2
  /\ pollAnswers' = pollAnswers \cup {[tab |-> t, view |-> PollDto(t)]}
  /\ UNCHANGED <<pollRows, panel, voteRequest, manager, votes>>

\* refresh(): every four seconds, on a data message of another panel, and after
\* one's own request.
\* Two answers of a panel may be on their way at once.
Refresh(t) ==
  /\ Cardinality({a \in pollAnswers : a.tab = t}) < 2
  /\ pollAnswers' = pollAnswers \cup {[tab |-> t, view |-> PollDto(t)]}
  /\ UNCHANGED <<pollRows, panel, voteRequest, manager, votes>>

\* setPolls: the answer that arrives is shown, whatever was shown before.
AnswerShown(a) ==
  /\ pollAnswers' = pollAnswers \ {a}
  /\ panel' = [panel EXCEPT ![a.tab].shown = a.view]
  /\ UNCHANGED <<pollRows, voteRequest, manager, votes>>

\* handleVote: with several answers allowed, a click adds or removes one option
\* of what is shown; an empty choice is not sent.
Chosen(t, option) ==
  LET mine == panel[t].shown.mine IN
  IF pollSingle THEN {option}
  ELSE IF option \in mine THEN mine \ {option} ELSE mine \cup {option}

VoteClick(t, option) ==
  /\ panel[t].shown.status = "OPEN"
  /\ ~panel[t].busy
  /\ Chosen(t, option) # {}
  /\ votes < MaxVotes
  /\ votes' = votes + 1
  /\ panel' = [panel EXCEPT ![t].busy = TRUE]
  /\ voteRequest' = [voteRequest EXCEPT ![t] = [step |-> "check", options |-> Chosen(t, option)]]
  /\ UNCHANGED <<pollRows, pollAnswers, manager>>

Answered(t) ==
  /\ voteRequest' = [voteRequest EXCEPT ![t] = NoVote]
  /\ panel' = [panel EXCEPT ![t].busy = FALSE]

-----------------------------------------------------------------------------
(* The backend                                                              *)

VoteCheck(t) ==
  /\ voteRequest[t].step = "check"
  /\ IF pollStatus = "OPEN"
       THEN /\ voteRequest' = [voteRequest EXCEPT ![t].step = "clear"]
            /\ UNCHANGED panel
       ELSE Answered(t)
  /\ UNCHANGED <<pollRows, pollAnswers, manager, votes>>

\* Mutant: the former responses are kept.
VoteKeeps(t) ==
  /\ voteRequest[t].step = "clear"
  /\ voteRequest' = [voteRequest EXCEPT ![t].step = "insert"]
  /\ UNCHANGED <<pollRows, panel, pollAnswers, manager, votes>>

VoteClear(t) ==
  /\ voteRequest[t].step = "clear"
  /\ responses' = {r \in responses : r[2] # UserOf(t)}
  /\ voteRequest' = [voteRequest EXCEPT ![t].step = "insert"]
  /\ UNCHANGED <<pollStatus, pollSingle, panel, pollAnswers, manager, votes>>

\* A response that exists already makes createMany fail as a whole.
VoteInsert(t) ==
  LET rows == voteRequest[t].options \X {UserOf(t)} IN
  /\ voteRequest[t].step = "insert"
  /\ responses' = IF rows \cap responses = {} THEN responses \cup rows ELSE responses
  /\ Answered(t)
  /\ UNCHANGED <<pollStatus, pollSingle, pollAnswers, manager, votes>>

\* A restart of the backend, or a lost connection to the database.
VoteLost(t) ==
  /\ voteRequest[t].step \in {"clear", "insert"}
  /\ Answered(t)
  /\ UNCHANGED <<pollRows, pollAnswers, manager, votes>>

\* open() and close() read the status, then write the next one.
ManagerRead ==
  /\ manager = "none"
  /\ pollStatus \in DOMAIN NextStatus
  /\ manager' = pollStatus
  /\ UNCHANGED <<pollRows, panel, voteRequest, pollAnswers, votes>>

ManagerWrite ==
  /\ manager # "none"
  /\ pollStatus' = NextStatus[manager]
  /\ manager' = "none"
  /\ UNCHANGED <<pollSingle, responses, panel, voteRequest, pollAnswers, votes>>

PollNext ==
  \/ ManagerRead \/ ManagerWrite
  \/ \E a \in pollAnswers : AnswerShown(a)
  \/ \E t \in Tabs :
       \/ Refresh(t) \/ VoteCheck(t) \/ VoteClear(t) \/ VoteInsert(t) \/ VoteLost(t)
       \/ \E o \in Options : VoteClick(t, o)

\* The interval of the panel fires and answers arrive.
PollFairness ==
  \A t \in Tabs :
    /\ WF_pollVars(Refresh(t))
    /\ WF_pollVars(\E a \in pollAnswers : a.tab = t /\ AnswerShown(a))

PollSpec == PollInit /\ [][PollNext]_pollVars /\ PollFairness

-----------------------------------------------------------------------------
(* Properties                                                               *)

Ballots == INSTANCE PollBallots
  WITH phase <- pollStatus, single <- pollSingle, ballot <- [u \in Voters |-> Ballot(u)]

\* The requests implement the abstract poll: a new vote replaces the former one
\* entirely (the comment in PollsService.vote), a single-choice poll counts nobody
\* twice, nothing is counted before the opening.
BallotsReplaced == Ballots!Spec

\* However late and out of order the answers to its refreshes come, a panel ends
\* up showing the poll and its own vote as they are in the database.
PanelsCatchUp == \A t \in Tabs : <>[](panel[t].shown = PollDto(t))
=============================================================================
