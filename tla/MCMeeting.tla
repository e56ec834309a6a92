---------------------------- MODULE MCMeeting ----------------------------
(***************************************************************************)
(* What happens in a meeting, component by component: each behaviour is    *)
(* that of one component, the variables of the others staying as they      *)
(* begin, so that one run checks them all.                                 *)
(***************************************************************************)
EXTENDS Permissions, Polls, Presentations, Breakouts, Ingress, HandRaise, Stage

VARIABLE part      \* the component that runs; the others stay as they begin

mcVars == <<permVars, pollVars, presVars, brkVars, ingVars, handVars, stageVars, part>>

MCInit ==
  /\ part \in {"permissions", "polls", "presentations", "breakouts", "ingress", "hands", "stage"}
  /\ PermInit
  /\ PollInit
  /\ part # "polls" => ~pollSingle
  /\ PresInit
  /\ BrkInit
  /\ IngInit
  /\ HandInit
  /\ part # "hands" => inRoom = {}
  /\ StageInit

MCNext ==
  \/ part = "permissions" /\ PermNext /\ UNCHANGED <<pollVars, presVars, brkVars, ingVars, handVars, stageVars, part>>
  \/ part = "polls" /\ PollNext /\ UNCHANGED <<permVars, presVars, brkVars, ingVars, handVars, stageVars, part>>
  \/ part = "presentations" /\ PresNext /\ UNCHANGED <<permVars, pollVars, brkVars, ingVars, handVars, stageVars, part>>
  \/ part = "breakouts" /\ BrkNext /\ UNCHANGED <<permVars, pollVars, presVars, ingVars, handVars, stageVars, part>>
  \/ part = "ingress" /\ IngNext /\ UNCHANGED <<permVars, pollVars, presVars, brkVars, handVars, stageVars, part>>
  \/ part = "hands" /\ HandNext /\ UNCHANGED <<permVars, pollVars, presVars, brkVars, ingVars, stageVars, part>>
  \/ part = "stage" /\ StageNext /\ UNCHANGED <<permVars, pollVars, presVars, brkVars, ingVars, handVars, part>>

\* The fairness each component states, for the one that runs.
MCFairness ==
  /\ \A t \in Tabs : /\ WF_pollVars(part = "polls" /\ Refresh(t))
                     /\ WF_pollVars(part = "polls" /\ \E a \in pollAnswers : a.tab = t /\ AnswerShown(a))
  /\ WF_presVars(part = "presentations" /\ StuckCron)
  /\ \A d \in Docs : WF_presVars(part = "presentations" /\ Ages(d))
  /\ \A u \in Members : WF_brkVars(part = "breakouts" /\ BannerPolls(u))
  /\ WF_ingVars(part = "ingress" /\ ObsAsk)
  /\ WF_ingVars(part = "ingress" /\ ObsShows)
  /\ \A p, q \in Persons : /\ WF_handVars(part = "hands" /\ HandleLeft(q, p))
                           /\ WF_handVars(part = "hands" /\ Receive(q, p))

MCSpec == MCInit /\ [][MCNext]_mcVars /\ MCFairness

-----------------------------------------------------------------------------

\* Every component keeps its variables in their types.
MeetingTypeOK ==
  /\ part = "permissions" => PermTypeOK
  /\ part = "polls" => PollTypeOK
  /\ part = "presentations" => PresTypeOK
  /\ part = "breakouts" => BrkTypeOK
  /\ part = "ingress" => IngTypeOK
  /\ part = "hands" => HandTypeOK
  /\ part = "stage" => StageTypeOK

=============================================================================
