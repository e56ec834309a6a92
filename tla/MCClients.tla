---------------------------- MODULE MCClients ----------------------------
(***************************************************************************)
(* What people's pages and accounts do, component by component, as in      *)
(* MCMeeting.                                                              *)
(***************************************************************************)
EXTENDS Board, Engagement, RoomPage, PreJoin, ListPages, Accounts, Reports

VARIABLE part      \* the component that runs; the others stay as they begin

mcVars == <<boardVars, engVars, pageVars, preVars, pagesVars, accVars, repVars, part>>

MCInit ==
  /\ part \in {"board", "engagement", "page", "devices", "lists", "accounts", "reports"}
  /\ BoardInit
  /\ EngInit
  /\ part # "engagement" => \A p \in Guests : attending[p] = NoTime
  /\ PageInit
  /\ part # "page" => who = "manager" /\ ~hosted
  /\ PreInit
  /\ part # "devices" => allowed = {} /\ stored = [k \in Kinds |-> Unchosen]
  /\ ListInit
  /\ part # "lists" => view = "search" /\ \A i \in Items : listRows[i] = 0
  /\ AccInit
  /\ part # "accounts" => \A p \in Others : user[p] = NoRow
  /\ RepInit
  /\ part # "reports" => request = Unanswered

MCNext ==
  \/ part = "board" /\ BoardNext /\ UNCHANGED <<engVars, pageVars, preVars, pagesVars, accVars, repVars, part>>
  \/ part = "engagement" /\ EngNext /\ UNCHANGED <<boardVars, pageVars, preVars, pagesVars, accVars, repVars, part>>
  \/ part = "page" /\ PageNext /\ UNCHANGED <<boardVars, engVars, preVars, pagesVars, accVars, repVars, part>>
  \/ part = "devices" /\ PreNext /\ UNCHANGED <<boardVars, engVars, pageVars, pagesVars, accVars, repVars, part>>
  \/ part = "lists" /\ ListNext /\ UNCHANGED <<boardVars, engVars, pageVars, preVars, accVars, repVars, part>>
  \/ part = "accounts" /\ AccNext /\ UNCHANGED <<boardVars, engVars, pageVars, preVars, pagesVars, repVars, part>>
  \/ part = "reports" /\ RepNext /\ UNCHANGED <<boardVars, engVars, pageVars, preVars, pagesVars, accVars, part>>

\* The fairness each component states, for the one that runs.
MCFairness ==
  /\ \A c \in Clients : /\ WF_boardVars(part = "board" /\ AskState(c))
                        /\ WF_boardVars(part = "board" /\ ShowState(c))
                        /\ WF_boardVars(part = "board" /\ Resync(c))
                        /\ WF_boardVars(part = "board" /\ ReadSnapshot(c))
                        /\ WF_boardVars(part = "board" /\ ApplySnapshot(c))
                        /\ WF_boardVars(part = "board" /\ FormerLoaded(c))
  /\ \A m \in Drawers : /\ WF_boardVars(part = "board" /\ FlushSave(m))
                        /\ WF_boardVars(part = "board" /\ (SaveDone(m) \/ SaveFails(m)))
  /\ WF_pageVars(part = "page" /\ Join)
  /\ WF_pageVars(part = "page" /\ AttemptAnswered)
  /\ WF_pageVars(part = "page" /\ Retry)
  /\ WF_preVars(part = "devices" /\ EchoRecorded)
  /\ WF_preVars(part = "devices" /\ EchoPlayed)
  /\ WF_pagesVars(part = "lists" /\ (HomeLoad \/ AttendanceLoad \/ BadgeRefresh \/ StatusPoll))
  /\ \A n \in 1..MaxLoads : SF_pagesVars(part = "lists" /\ ListAnswered(n))

MCSpec == MCInit /\ [][MCNext]_mcVars /\ MCFairness

-----------------------------------------------------------------------------

\* Every component keeps its variables in their types.
ClientsTypeOK ==
  /\ part = "board" => BoardTypeOK
  /\ part = "engagement" => EngTypeOK
  /\ part = "page" => PageTypeOK
  /\ part = "devices" => PreTypeOK
  /\ part = "lists" => ListTypeOK
  /\ part = "accounts" => AccTypeOK
  /\ part = "reports" => RepTypeOK

\* The days of activity: around the ends of every month of 2024, and in their middle.
MonthEnds == UNION {{MonthStart(m) - 1, MonthStart(m), MonthStart(m) + 14} : m \in 13..24}

=============================================================================
