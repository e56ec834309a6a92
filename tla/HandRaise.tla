----------------------------- MODULE HandRaise -----------------------------
(***************************************************************************)
(* The raised hands of a room: no server keeps them.  Each browser holds   *)
(* its own hand and a list of those of the others, and tells the others    *)
(* with data messages, which LiveKit delivers in the order of each sender  *)
(* and never to the sender; the departure of a participant is told apart,  *)
(* on no order with its messages.  Who enters asks for the hands already   *)
(* raised.  The engagement table of a host counts the raises it hears of.  *)
(***************************************************************************)
EXTENDS Naturals, Sequences, FiniteSets

CONSTANTS
  Persons,        \* identities, one browser each
  Hosts,          \* those who manage the room
  MaxHandActs,    \* bounds on the clicks
  MaxHandMoves    \*   and on the arrivals and departures

ASSUME HandAssumption == Hosts \subseteq Persons /\ MaxHandActs \in Nat /\ MaxHandMoves \in Nat

VARIABLES
  inRoom,       \* who is connected
  raised,       \* who has the hand up, each in its own browser (raisedAtRef)
  hands,        \* hands[q]: whose hands the browser of q lists
  wire,         \* wire[p][q]: what p published and q has not received
  departed,     \* departed[q]: whose departure q has not been told of
  ghosts,       \* ghosts[q]: who was listed by a message received after the departure
  handRaises,   \* handRaises[q][p]: the raises of p the table of host q counts
  heardBy,      \* heardBy[q][p]: the raises of p while q was there (history)
  handActs, handMoves

handVars == <<inRoom, raised, hands, wire, departed, ghosts, handRaises, heardBy,
              handActs, handMoves>>

\* set with raisedAgoMs = 0, set of an answer to sync, set with null; sync; lower.
HandMessages == {"up", "again", "down", "sync", "lower"}

HandTypeOK ==
  /\ inRoom \subseteq Persons
  /\ raised \subseteq inRoom
  /\ hands \in [Persons -> SUBSET Persons]
  /\ \A p, q \in Persons : wire[p][q] \in Seq(HandMessages)
  /\ departed \in [Persons -> SUBSET Persons]
  /\ ghosts \in [Persons -> SUBSET Persons]
  /\ handRaises \in [Hosts -> [Persons -> 0..MaxHandActs]]
  /\ heardBy \in [Hosts -> [Persons -> 0..MaxHandActs]]
  /\ handActs \in 0..MaxHandActs
  /\ handMoves \in 0..MaxHandMoves

\* Some have entered already, and nobody has a hand up.
HandInit ==
  /\ inRoom \in SUBSET Persons
  /\ raised = {}
  /\ hands = [p \in Persons |-> {}]
  /\ wire = [p \in Persons |-> [q \in Persons |-> <<>>]]
  /\ departed = [p \in Persons |-> {}]
  /\ ghosts = [p \in Persons |-> {}]
  /\ handRaises = [q \in Hosts |-> [p \in Persons |-> 0]]
  /\ heardBy = [q \in Hosts |-> [p \in Persons |-> 0]]
  /\ handActs = 0
  /\ handMoves = 0

\* publish: to all the others; to none but q, for a message the rest ignores.
Publish(p, m) == [wire EXCEPT ![p] = [q \in Persons |-> IF q \in inRoom \ {p} THEN Append(@[q], m) ELSE @[q]]]
PublishTo(w, p, Q, m) == [w EXCEPT ![p] = [q \in Persons |-> IF q \in Q THEN Append(@[q], m) ELSE @[q]]]

-----------------------------------------------------------------------------
(* Arrivals and departures                                                  *)

\* A reconnection takes longer than the notice of the departure and the last messages.
Enter(p) ==
  /\ p \notin inRoom
  /\ handMoves < MaxHandMoves
  /\ \A q \in Persons : p \notin departed[q] /\ wire[p][q] = <<>>
  /\ handMoves' = handMoves + 1
  /\ inRoom' = inRoom \cup {p}
  /\ wire' = PublishTo(wire, p, inRoom, "sync")
  /\ UNCHANGED <<raised, hands, departed, ghosts, handRaises, heardBy, handActs>>

\* What was on its way to p is lost, and its page forgets everything.
LeaveHands(p) ==
  /\ p \in inRoom
  /\ handMoves < MaxHandMoves
  /\ handMoves' = handMoves + 1
  /\ inRoom' = inRoom \ {p}
  /\ raised' = raised \ {p}
  /\ hands' = [hands EXCEPT ![p] = {}]
  /\ wire' = [q \in Persons |-> [wire[q] EXCEPT ![p] = <<>>]]
  /\ departed' = [q \in Persons |->
       IF q = p THEN {} ELSE IF q \in inRoom THEN departed[q] \cup {p} ELSE departed[q]]
  /\ ghosts' = [ghosts EXCEPT ![p] = {}]
  /\ handRaises' = [q \in Hosts |-> IF q = p THEN [r \in Persons |-> 0] ELSE handRaises[q]]
  /\ heardBy' = [q \in Hosts |-> IF q = p THEN [r \in Persons |-> 0] ELSE heardBy[q]]
  /\ UNCHANGED handActs

HandleLeft(q, p) ==
  /\ p \in departed[q]
  /\ departed' = [departed EXCEPT ![q] = @ \ {p}]
  /\ hands' = [hands EXCEPT ![q] = @ \ {p}]
  /\ UNCHANGED <<inRoom, raised, wire, ghosts, handRaises, heardBy, handActs, handMoves>>

-----------------------------------------------------------------------------
(* Clicks                                                                   *)

Click == handActs < MaxHandActs /\ handActs' = handActs + 1

Toggle(p) ==
  /\ p \in inRoom
  /\ Click
  /\ IF p \in raised
       THEN /\ raised' = raised \ {p}
            /\ wire' = Publish(p, "down")
            /\ UNCHANGED heardBy
       ELSE /\ raised' = raised \cup {p}
            /\ wire' = Publish(p, "up")
            /\ heardBy' = [q \in Hosts |->
                 IF q \in inRoom \ {p} THEN [heardBy[q] EXCEPT ![p] = @ + 1] ELSE heardBy[q]]
  /\ UNCHANGED <<inRoom, hands, departed, ghosts, handRaises, handMoves>>

\* Mutant: the host announces the lowering for its owner.
LowerForOwner(h, P) ==
  /\ h \in inRoom \cap Hosts
  /\ P \subseteq hands[h] /\ P # {}
  /\ Click
  /\ hands' = [q \in Persons |-> hands[q] \ P]
  /\ UNCHANGED <<inRoom, raised, wire, departed, ghosts, handRaises, heardBy, handMoves>>

\* lower(identity) and lowerAll: the owner will say it itself.
Lower(h, P) ==
  /\ h \in inRoom \cap Hosts
  /\ P \subseteq hands[h] /\ P # {}
  /\ P = hands[h] \/ Cardinality(P) = 1
  /\ Click
  /\ hands' = [hands EXCEPT ![h] = @ \ P]
  /\ wire' = PublishTo(wire, h, (P \cap inRoom) \ {h}, "lower")
  /\ UNCHANGED <<inRoom, raised, departed, ghosts, handRaises, heardBy, handMoves>>

-----------------------------------------------------------------------------
(* Receptions                                                               *)

\* The table of a host: an answer to sync repeats a raise already counted.
CountedAgain(q, p, m) ==
  IF q \in Hosts /\ m \in {"up", "again"} THEN [handRaises EXCEPT ![q][p] = IF @ = MaxHandActs THEN @ ELSE @ + 1]
  ELSE handRaises
Counted(q, p, m) ==
  IF q \in Hosts /\ m = "up" THEN [handRaises EXCEPT ![q][p] = @ + 1] ELSE handRaises

\* handleData, on the oldest message of p to q.
Receive(q, p) ==
  /\ q \in inRoom
  /\ wire[p][q] # <<>>
  /\ LET m    == Head(wire[p][q])
         rest == [wire EXCEPT ![p][q] = Tail(@)]
     IN /\ hands' = [hands EXCEPT ![q] = IF m \in {"up", "again"} THEN @ \cup {p}
                                         ELSE IF m = "down" THEN @ \ {p} ELSE @]
        /\ ghosts' = [ghosts EXCEPT ![q] =
             IF m \in {"up", "again"} /\ p \notin inRoom \cup departed[q] THEN @ \cup {p}
             ELSE IF m \in {"up", "again", "down"} THEN @ \ {p} ELSE @]
        /\ raised' = IF m = "lower" THEN raised \ {q} ELSE raised
        /\ wire' = IF m = "lower" THEN PublishTo(rest, q, inRoom \ {q}, "down")
                   ELSE IF m = "sync" /\ q \in raised THEN PublishTo(rest, q, inRoom \ {q}, "again")
                   ELSE rest
        /\ handRaises' = Counted(q, p, m)
  /\ UNCHANGED <<inRoom, departed, heardBy, handActs, handMoves>>

HandNext ==
  \/ \E p \in Persons : Enter(p) \/ LeaveHands(p) \/ Toggle(p)
  \/ \E h \in Persons, P \in SUBSET Persons : Lower(h, P)
  \/ \E p, q \in Persons : HandleLeft(q, p) \/ Receive(q, p)

\* LiveKit delivers the messages and the notices.
HandFairness == \A p, q \in Persons : WF_handVars(HandleLeft(q, p)) /\ WF_handVars(Receive(q, p))

HandSpec == HandInit /\ [][HandNext]_handVars /\ HandFairness

-----------------------------------------------------------------------------
(* Properties                                                               *)

InFlightRaises(q, p) == Cardinality({i \in DOMAIN wire[p][q] : wire[p][q][i] = "up"})

\* The table of a host counts every raise once, whoever enters meanwhile and makes
\* everybody repeat theirs (the comment of handleSignal).
RaisesCountedOnce ==
  \A q \in Hosts, p \in Persons :
     q \in inRoom => handRaises[q][p] + InFlightRaises(q, p) = heardBy[q][p]

\* Once nobody clicks, comes or goes, every browser lists those of the others whose
\* hand is up, those raised before it entered too (the comment above
\* useHandRaiseState), but for a hand whose message overtook the departure.
HandsAgree ==
  <>[](\A q \in inRoom : \A p \in Persons \ (ghosts[q] \cup {q}) :
          p \in hands[q] <=> p \in raised)

=============================================================================
