---------------------------- MODULE PollBallots ----------------------------
(***************************************************************************)
(* What a poll promises, whatever the requests behind it: nothing is       *)
(* counted before it opens, it opens and closes once, and the ballot of a  *)
(* person is replaced as a whole - taken out, then cast anew - so that two *)
(* ballots of one person never add up.                                     *)
(***************************************************************************)
CONSTANTS Voters, Options

VARIABLES
  phase,    \* "DRAFT", "OPEN" or "CLOSED"
  single,   \* only one answer is accepted
  ballot    \* ballot[u]: the options u is counted for

ballotVars == <<phase, single, ballot>>

LegalBallots == {b \in SUBSET Options : b # {} /\ (single => \A x, y \in b : x = y)}

Init ==
  /\ phase = "DRAFT"
  /\ single \in BOOLEAN
  /\ ballot = [u \in Voters |-> {}]

Open ==
  /\ phase = "DRAFT"
  /\ phase' = "OPEN"
  /\ UNCHANGED <<single, ballot>>

Close ==
  /\ phase = "OPEN"
  /\ phase' = "CLOSED"
  /\ UNCHANGED <<single, ballot>>

Withdraw(u) ==
  /\ phase # "DRAFT"
  /\ ballot' = [ballot EXCEPT ![u] = {}]
  /\ UNCHANGED <<phase, single>>

Cast(u) ==
  /\ phase # "DRAFT"
  /\ ballot[u] = {}
  /\ \E b \in LegalBallots : ballot' = [ballot EXCEPT ![u] = b]
  /\ UNCHANGED <<phase, single>>

Next == Open \/ Close \/ \E u \in Voters : Withdraw(u) \/ Cast(u)

Spec == Init /\ [][Next]_ballotVars
=============================================================================
