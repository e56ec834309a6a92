---------------------------- MODULE PagesProofs ----------------------------
(***************************************************************************)
(* Six components of the pages of the application, each for every value of *)
(* its constants: the engagement table of a host, the changes of room, the *)
(* preview of the device check, the panels of the whiteboard, the lists    *)
(* and the warning of an echo; the accounts have a module of their own.    *)
(* Then all of them together.                                              *)
(***************************************************************************)
EXTENDS MCClients, AccountsProofs,
        SequenceTheorems, FunctionTheorems, FiniteSetTheorems, TLAPS

-----------------------------------------------------------------------------
(* SEQUENCES                                                               *)

LEMMA Removal ==
  ASSUME NEW S, NEW s \in Seq(S), NEW i \in 1..Len(s)
  PROVE  /\ RemoveAt(s, i) \in Seq(S)
         /\ Len(RemoveAt(s, i)) = Len(s) - 1
         /\ \A j \in 1..(Len(s) - 1) : RemoveAt(s, i)[j] = s[IF j < i THEN j ELSE j + 1]
<1> DEFINE front == SubSeq(s, 1, i - 1)
           back  == SubSeq(s, i + 1, Len(s))
<1>1. Len(s) \in Nat /\ i \in Nat /\ \A j \in 1..Len(s) : s[j] \in S
  BY ElementOfSeq
<1>2. /\ front \in Seq(S) /\ Len(front) = i - 1
      /\ \A j \in 1..(i - 1) : front[j] = s[j]
  BY <1>1, SubSeqProperties
<1>3. /\ back \in Seq(S) /\ Len(back) = Len(s) - i
      /\ \A j \in 1..(Len(s) - i) : back[j] = s[i + j]
  BY <1>1, SubSeqProperties
<1>4. RemoveAt(s, i) = front \o back
  BY DEF RemoveAt
<1> HIDE DEF front, back
<1>5. /\ front \o back \in Seq(S) /\ Len(front \o back) = Len(front) + Len(back)
      /\ \A j \in 1..(Len(front) + Len(back)) :
           (front \o back)[j] = IF j <= Len(front) THEN front[j] ELSE back[j - Len(front)]
  BY <1>2, <1>3, ConcatProperties
<1>6. Len(front) + Len(back) = Len(s) - 1
  BY <1>1, <1>2, <1>3
<1>7. ASSUME NEW j \in 1..(Len(s) - 1)
      PROVE  RemoveAt(s, i)[j] = s[IF j < i THEN j ELSE j + 1]
  <2>1. CASE j < i
    BY <1>1, <1>2, <1>4, <1>5, <1>6, <1>7, <2>1
  <2>2. CASE ~(j < i)
    <3>1. j - (i - 1) \in 1..(Len(s) - i)
      BY <1>1, <1>7, <2>2
    <3>2. back[j - (i - 1)] = s[i + (j - (i - 1))]
      BY <1>3, <3>1
    <3>3. i + (j - (i - 1)) = j + 1
      BY <1>1, <1>7
    <3> QED
      BY <1>1, <1>2, <1>4, <1>5, <1>6, <1>7, <2>2, <3>2, <3>3
  <2> QED
    BY <2>1, <2>2
<1> QED
  BY <1>4, <1>5, <1>6, <1>7

LEMMA NoneLeft ==
  ASSUME NEW S, NEW s \in Seq(S)
  PROVE  (s = <<>> <=> Len(s) = 0) /\ (s = <<>> => DOMAIN s = {})
<1>1. Len(s) \in Nat /\ DOMAIN s = 1..Len(s)
  BY LenProperties
<1> QED
  BY <1>1, EmptySeq

-----------------------------------------------------------------------------
(***************************************************************************)
(* THE TIMES OF A MEETING                                                  *)
(*                                                                         *)
(* The events of one person come in turn, whatever those of the others: the*)
(* row is then made of times of the past that do not overlap, and          *)
(* counts the connections whose events were handled.                       *)
(***************************************************************************)

USE EngAssumption DEF EngAssumption

TimesRow == [presence : Nat, since : 0..NoTime, talk : Nat, speakingSince : 0..NoTime, turns : Nat, connections : Nat]

\* The times of a row are possible ones: periods do not overlap, and speech is within presence.
RowOK(r) ==
  /\ r # NoTimes => r.connections >= 1
  /\ r.since = NoTime => r.speakingSince = NoTime /\ r.talk <= r.presence /\ r.presence <= now
  /\ r.since # NoTime =>
       /\ r.presence <= r.since /\ r.since <= now
       /\ r.speakingSince = NoTime => r.talk <= r.presence + (now - r.since)
       /\ r.speakingSince # NoTime => /\ r.since <= r.speakingSince /\ r.speakingSince <= now
                                      /\ r.talk <= r.presence + (r.speakingSince - r.since)

\* The arrivals and departures of p in q come in turn, for who is among B before and among A after.
About(q, p) == {i \in DOMAIN q : q[i].t \in {"connected", "left"} /\ q[i].p = p}
InTurn(q, p, B, A) ==
  /\ \A i, j \in About(q, p) : (i < j /\ \A k \in About(q, p) : ~(i < k /\ k < j)) =>
                                 (q[i].t = "left" <=> q[j].t = "connected")
  /\ \A i \in About(q, p) : (\A k \in About(q, p) : ~(k < i)) => (q[i].t = "connected" <=> p \notin B)
  /\ \A i \in About(q, p) : (\A k \in About(q, p) : ~(i < k)) => (q[i].t = "connected" <=> p \in A)
  /\ About(q, p) = {} => (p \in B <=> p \in A)

Arrivals(p) == {e \in Events : e.t = "connected" /\ e.p = p}
Number(q, S) == Cardinality({i \in DOMAIN q : q[i] \in S})

EngTypes ==
  /\ now \in 0..MaxSeconds
  /\ attending \in [Guests -> 0..NoTime]
  /\ talkers \subseteq Guests
  /\ inbox \in Seq(Events)
  /\ table \in [Guests -> TimesRow]
  /\ sentEvents \in 0..MaxEvents
  /\ joins \in [Guests -> Nat]

TimesOK    == \A p \in Guests : RowOK(table[p])
NoneAhead == \A i \in DOMAIN inbox : inbox[i].t = "connected" => inbox[i].joinedAt <= now
Present == {p \in Guests : table[p].since # NoTime}
Inside  == {p \in Guests : attending[p] # NoTime}
AllInTurn == \A p \in Guests : InTurn(inbox, p, Present, Inside)
AllCounted == \A p \in Guests : /\ table[p].connections + Number(inbox, Arrivals(p)) = joins[p]
                                /\ joins[p] <= sentEvents + 1
                                /\ table[p].turns + Len(inbox) <= sentEvents

EngInv == EngTypes /\ TimesOK /\ NoneAhead /\ AllInTurn /\ AllCounted

-----------------------------------------------------------------------------
(* Events in a sequence                                                     *)

LEMMA EventKinds ==
  ASSUME NEW e \in Events
  PROVE  /\ e.t \in {"connected", "left", "speakers"}
         /\ e.t \in {"connected", "left"} => e.p \in Guests
         /\ e.t = "connected" => e.joinedAt \in 0..MaxSeconds
         /\ e.t = "speakers" => e.who \subseteq Guests
BY DEF Events

LEMMA NumberFinite ==
  ASSUME NEW q \in Seq(Events), NEW S
  PROVE  IsFiniteSet({i \in DOMAIN q : q[i] \in S}) /\ Number(q, S) \in Nat
<1>1. Len(q) \in Nat /\ DOMAIN q = 1..Len(q)
  BY LenProperties
<1>2. IsFiniteSet(1..Len(q))
  BY <1>1, FS_Interval
<1>3. {i \in DOMAIN q : q[i] \in S} \in SUBSET (1..Len(q))
  BY <1>1
<1>4. IsFiniteSet({i \in DOMAIN q : q[i] \in S})
  BY <1>2, <1>3, FS_Subset
<1> QED
  BY <1>4, FS_CardinalityType DEF Number

LEMMA NumberAppend ==
  ASSUME NEW q \in Seq(Events), NEW e \in Events, NEW S
  PROVE  Number(Append(q, e), S) = IF e \in S THEN Number(q, S) + 1 ELSE Number(q, S)
<1> DEFINE U == {i \in DOMAIN q : q[i] \in S}
           V == {i \in DOMAIN Append(q, e) : Append(q, e)[i] \in S}
<1>1. /\ Len(q) \in Nat /\ DOMAIN q = 1..Len(q)
      /\ DOMAIN Append(q, e) = 1..Len(q) + 1
      /\ \A i \in 1..Len(q) : Append(q, e)[i] = q[i]
      /\ Append(q, e)[Len(q) + 1] = e
  BY AppendProperties, LenProperties
<1>2. V = IF e \in S THEN U \cup {Len(q) + 1} ELSE U
  BY <1>1
<1>3. Len(q) + 1 \notin U
  BY <1>1
<1>4. IsFiniteSet(U)
  BY NumberFinite
<1> HIDE DEF U, V
<1>5. Cardinality(V) = IF e \in S THEN Cardinality(U) + 1 ELSE Cardinality(U)
  BY <1>2, <1>3, <1>4, FS_AddElement
<1> QED
  BY <1>5 DEF Number, U, V

LEMMA NumberTail ==
  ASSUME NEW q \in Seq(Events), q # <<>>, NEW S
  PROVE  Number(q, S) = IF Head(q) \in S THEN Number(Tail(q), S) + 1 ELSE Number(Tail(q), S)
<1> DEFINE U == {i \in DOMAIN q : q[i] \in S}
           V == {i \in DOMAIN Tail(q) : Tail(q)[i] \in S}
           W == U \ {1}
           f == [i \in V |-> i + 1]
<1>1. /\ Len(q) \in Nat \ {0} /\ DOMAIN q = 1..Len(q)
      /\ Tail(q) \in Seq(Events)
      /\ DOMAIN Tail(q) = 1..Len(q) - 1
      /\ \A i \in 1..Len(q) - 1 : Tail(q)[i] = q[i + 1]
      /\ Head(q) = q[1]
  BY HeadTailProperties, LenProperties, EmptySeq
<1>2. f \in Bijection(V, W)
  <2>1. f \in [V -> W]
    BY <1>1
  <2>2. \A i, j \in V : f[i] = f[j] => i = j
    BY <1>1
  <2>3. \A w \in W : \E i \in V : f[i] = w
    <3> SUFFICES ASSUME NEW w \in W PROVE \E i \in V : f[i] = w
      OBVIOUS
    <3>1. w - 1 \in V /\ (w - 1) + 1 = w
      BY <1>1
    <3> QED
      BY <3>1
  <2> HIDE DEF f, V, W
  <2> QED
    BY <2>1, <2>2, <2>3, Fun_IsBij
<1>3. IsFiniteSet(U) /\ IsFiniteSet(V)
  BY <1>1, NumberFinite
<1>6. 1 \in U <=> Head(q) \in S
  BY <1>1
<1> HIDE DEF U, V, f
<1>4. Cardinality(W) = Cardinality(V)
  BY <1>2, <1>3, FS_Bijection DEF ExistsBijection
<1>5. Cardinality(W) = IF 1 \in U THEN Cardinality(U) - 1 ELSE Cardinality(U)
  BY <1>3, FS_RemoveElement
<1>7. Cardinality(U) \in Nat /\ Cardinality(V) \in Nat
  BY <1>3, FS_CardinalityType
<1>8. Cardinality(U) = IF Head(q) \in S THEN Cardinality(V) + 1 ELSE Cardinality(V)
  BY <1>4, <1>5, <1>6, <1>7
<1>9. Cardinality(U) = Number(q, S) /\ Cardinality(V) = Number(Tail(q), S)
  BY DEF Number, U, V
<1> QED
  BY <1>8, <1>9

\* Another event at the end: one of p must be the contrary of the last.
LEMMA TurnsAppend ==
  ASSUME NEW q \in Seq(Events), NEW e \in Events, NEW p \in Guests, NEW B, NEW A, NEW C,
         InTurn(q, p, B, A)
  PROVE  /\ e.t = "connected" /\ e.p = p /\ p \notin A /\ p \in C => InTurn(Append(q, e), p, B, C)
         /\ e.t = "left" /\ e.p = p /\ p \in A /\ p \notin C => InTurn(Append(q, e), p, B, C)
         /\ ~(e.t \in {"connected", "left"} /\ e.p = p) /\ (p \in A <=> p \in C) => InTurn(Append(q, e), p, B, C)
<1> DEFINE z == Append(q, e)
           n == Len(q) + 1
           E == About(q, p)
<1>1. /\ Len(q) \in Nat /\ DOMAIN q = 1..Len(q) /\ DOMAIN z = 1..n
      /\ \A i \in 1..Len(q) : z[i] = q[i]
      /\ z[n] = e
  BY AppendProperties, LenProperties
<1> HIDE DEF z
<1>2. E \subseteq 1..Len(q) /\ \A i \in E : i < n /\ ~(n < i) /\ z[i] = q[i]
  BY <1>1 DEF About
<1>3. CASE ~(e.t \in {"connected", "left"} /\ e.p = p) /\ (p \in A <=> p \in C)
  <2>1. About(z, p) = E
    BY <1>1, <1>3 DEF About
  <2> QED
    BY <1>2, <1>3, <2>1 DEF InTurn, z
<1>4. ASSUME e.t \in {"connected", "left"}, e.p = p, e.t = "connected" <=> p \notin A, p \in C <=> p \notin A
      PROVE  InTurn(z, p, B, C)
  <2>1. About(z, p) = E \cup {n}
    BY <1>1, <1>4 DEF About
  <2>2. \A i, j \in E \cup {n} : (i < j /\ \A k \in E \cup {n} : ~(i < k /\ k < j)) =>
                                 (z[i].t = "left" <=> z[j].t = "connected")
    <3> SUFFICES ASSUME NEW i \in E \cup {n}, NEW j \in E \cup {n}, i < j,
                        \A k \in E \cup {n} : ~(i < k /\ k < j)
                 PROVE  z[i].t = "left" <=> z[j].t = "connected"
      OBVIOUS
    <3>1. i \in E
      BY <1>1, <1>2
    <3>2. CASE j \in E
      BY <1>2, <3>1, <3>2 DEF InTurn
    <3>3. CASE j = n
      <4>1. \A k \in E : ~(i < k)
        BY <1>2, <3>3
      <4>2. q[i].t = "connected" <=> p \in A
        BY <3>1, <4>1 DEF InTurn
      <4>3. q[i].t \in {"connected", "left"}
        BY <3>1 DEF About
      <4> QED
        BY <1>1, <1>2, <1>4, <3>1, <3>3, <4>2, <4>3
    <3> QED
      BY <3>2, <3>3
  <2>3. \A i \in E \cup {n} : (\A k \in E \cup {n} : ~(k < i)) => (z[i].t = "connected" <=> p \notin B)
    <3> SUFFICES ASSUME NEW i \in E \cup {n}, \A k \in E \cup {n} : ~(k < i)
                 PROVE  z[i].t = "connected" <=> p \notin B
      OBVIOUS
    <3>1. CASE i \in E
      BY <1>2, <3>1 DEF InTurn
    <3>2. CASE i = n
      <4>1. E = {}
        BY <1>2, <3>2
      <4> QED
        BY <1>1, <1>4, <3>2, <4>1 DEF InTurn
    <3> QED
      BY <3>1, <3>2
  <2>4. \A i \in E \cup {n} : (\A k \in E \cup {n} : ~(i < k)) => (z[i].t = "connected" <=> p \in C)
    BY <1>1, <1>2, <1>4
  <2> QED
    BY <2>1, <2>2, <2>3, <2>4 DEF InTurn
<1> QED
  BY <1>3, <1>4 DEF z

\* The first event is taken: if it is about p, p was absent before it or present.
LEMMA TurnsTail ==
  ASSUME NEW q \in Seq(Events), q # <<>>, NEW p \in Guests, NEW B, NEW A, NEW C,
         InTurn(q, p, B, A)
  PROVE  /\ Head(q).t = "connected" /\ Head(q).p = p => p \notin B /\ (p \in C => InTurn(Tail(q), p, C, A))
         /\ Head(q).t = "left" /\ Head(q).p = p => p \in B /\ (p \notin C => InTurn(Tail(q), p, C, A))
         /\ ~(Head(q).t \in {"connected", "left"} /\ Head(q).p = p) /\ (p \in B <=> p \in C) =>
              InTurn(Tail(q), p, C, A)
<1> DEFINE z == Tail(q)
           E == About(q, p)
           F == About(z, p)
<1>1. /\ Len(q) \in Nat \ {0} /\ DOMAIN q = 1..Len(q) /\ DOMAIN z = 1..Len(q) - 1
      /\ \A i \in 1..Len(q) - 1 : z[i] = q[i + 1]
      /\ Head(q) = q[1]
  BY HeadTailProperties, LenProperties, EmptySeq
<1> HIDE DEF z
<1>2. /\ E \subseteq 1..Len(q) /\ F \subseteq 1..Len(q) - 1
      /\ \A i \in F : i + 1 \in E /\ z[i] = q[i + 1]
      /\ \A i \in E : i = 1 \/ i - 1 \in F
      /\ 1 \in E <=> Head(q).t \in {"connected", "left"} /\ Head(q).p = p
      /\ \A i \in E : q[i].t \in {"connected", "left"}
  BY <1>1 DEF About
<1> HIDE DEF E, F
<1>3. \A i, j \in F : (i < j /\ \A k \in F : ~(i < k /\ k < j)) => (z[i].t = "left" <=> z[j].t = "connected")
  <2> SUFFICES ASSUME NEW i \in F, NEW j \in F, i < j, \A k \in F : ~(i < k /\ k < j)
               PROVE  z[i].t = "left" <=> z[j].t = "connected"
    OBVIOUS
  <2>1. \A k \in E : ~(i + 1 < k /\ k < j + 1)
    <3> SUFFICES ASSUME NEW k \in E, i + 1 < k, k < j + 1 PROVE FALSE
      OBVIOUS
    <3>1. k - 1 \in F /\ i < k - 1 /\ k - 1 < j
      BY <1>2
    <3> QED
      BY <3>1
  <2>2. i + 1 \in E /\ j + 1 \in E /\ i + 1 < j + 1
    BY <1>2
  <2> QED
    BY <1>2, <2>1, <2>2 DEF InTurn, E
<1>4. \A i \in F : (\A k \in F : ~(i < k)) => (z[i].t = "connected" <=> p \in A)
  <2> SUFFICES ASSUME NEW i \in F, \A k \in F : ~(i < k) PROVE z[i].t = "connected" <=> p \in A
    OBVIOUS
  <2>1. \A k \in E : ~(i + 1 < k)
    <3> SUFFICES ASSUME NEW k \in E, i + 1 < k PROVE FALSE
      OBVIOUS
    <3>1. k - 1 \in F /\ i < k - 1
      BY <1>2
    <3> QED
      BY <3>1
  <2> QED
    BY <1>2, <2>1 DEF InTurn, E
<1>5. CASE 1 \in E
  <2>1. \A k \in E : ~(k < 1)
    BY <1>2
  <2>2. Head(q).t = "connected" <=> p \notin B
    BY <1>1, <1>5, <2>1 DEF InTurn, E
  <2>3. \A i \in F : (\A k \in F : ~(k < i)) => (z[i].t = "connected" <=> p \in B)
    <3> SUFFICES ASSUME NEW i \in F, \A k \in F : ~(k < i) PROVE z[i].t = "connected" <=> p \in B
      OBVIOUS
    <3>1. \A k \in E : ~(1 < k /\ k < i + 1)
      <4> SUFFICES ASSUME NEW k \in E, 1 < k, k < i + 1 PROVE FALSE
        OBVIOUS
      <4>1. k - 1 \in F /\ k - 1 < i
        BY <1>2
      <4> QED
        BY <4>1
    <3>2. i + 1 \in E /\ 1 < i + 1
      BY <1>2
    <3>3. q[1].t = "left" <=> q[i + 1].t = "connected"
      BY <1>5, <3>1, <3>2 DEF InTurn, E
    <3> QED
      BY <1>1, <1>2, <1>5, <2>2, <3>3
  <2>4. F = {} => (p \in B <=> p \notin A)
    <3> SUFFICES ASSUME F = {} PROVE p \in B <=> p \notin A
      OBVIOUS
    <3>1. \A k \in E : ~(1 < k)
      BY <1>2
    <3>2. q[1].t = "connected" <=> p \in A
      BY <1>5, <3>1 DEF InTurn, E
    <3> QED
      BY <1>1, <2>2, <3>2
  <2>5. (p \in C <=> p \notin B) => InTurn(z, p, C, A)
    BY <1>3, <1>4, <2>3, <2>4 DEF InTurn, F
  <2>6. Head(q).t \in {"connected", "left"} /\ Head(q).p = p
    BY <1>2, <1>5
  <2> QED
    BY <2>2, <2>5, <2>6 DEF z
<1>6. CASE 1 \notin E
  <2>1. \A i \in F : (\A k \in F : ~(k < i)) => (z[i].t = "connected" <=> p \notin B)
    <3> SUFFICES ASSUME NEW i \in F, \A k \in F : ~(k < i) PROVE z[i].t = "connected" <=> p \notin B
      OBVIOUS
    <3>1. \A k \in E : ~(k < i + 1)
      <4> SUFFICES ASSUME NEW k \in E, k < i + 1 PROVE FALSE
        OBVIOUS
      <4>1. k - 1 \in F /\ k - 1 < i
        BY <1>2, <1>6
      <4> QED
        BY <4>1
    <3> QED
      BY <1>2, <3>1 DEF InTurn, E
  <2>2. F = {} => (p \in B <=> p \in A)
    <3>1. F = {} => E = {}
      BY <1>2, <1>6
    <3> QED
      BY <3>1 DEF InTurn, E
  <2>3. (p \in B <=> p \in C) => InTurn(z, p, C, A)
    BY <1>3, <1>4, <2>1, <2>2 DEF InTurn, F
  <2> QED
    BY <1>2, <1>6, <2>3 DEF z
<1> QED
  BY <1>5, <1>6

-----------------------------------------------------------------------------
(* The rows of the table                                                    *)

LEMMA ClosedRow ==
  ASSUME now \in 0..MaxSeconds, NEW r \in TimesRow, RowOK(r)
  PROVE  /\ Closed(r) \in TimesRow /\ RowOK(Closed(r))
         /\ Closed(r).since = r.since /\ Closed(r).speakingSince = NoTime
         /\ Closed(r).presence = r.presence
         /\ Closed(r).connections = r.connections /\ Closed(r).turns = r.turns
<1>1. CASE r.speakingSince = NoTime
  BY <1>1 DEF Closed
<1>2. CASE r.speakingSince # NoTime
  <2> DEFINE c == [r EXCEPT !.talk = @ + now - r.speakingSince, !.speakingSince = NoTime]
  <2>1. /\ r.since # NoTime /\ r.connections >= 1
        /\ r.since <= r.speakingSince /\ r.speakingSince <= now
        /\ r.presence <= r.since /\ r.talk <= r.presence + (r.speakingSince - r.since)
    BY <1>2 DEF RowOK, NoTimes
  <2>2. /\ r.talk \in Nat /\ r.presence \in Nat /\ r.since \in 0..NoTime /\ r.speakingSince \in 0..NoTime
        /\ r.turns \in Nat /\ r.connections \in Nat
    BY DEF TimesRow
  <2>3. r.talk + now - r.speakingSince \in Nat
    BY <2>1, <2>2
  <2>4. /\ c.talk = r.talk + now - r.speakingSince /\ c.speakingSince = NoTime
        /\ c.since = r.since /\ c.presence = r.presence /\ c.connections = r.connections /\ c.turns = r.turns
    BY DEF TimesRow
  <2>5. c \in TimesRow
    <3>1. NoTime \in 0..NoTime
      BY DEF NoTime
    <3> QED
      BY <2>3, <3>1 DEF TimesRow
  <2> HIDE DEF c
  <2>6. c # NoTimes
    BY <2>1, <2>4 DEF NoTimes
  <2>7. RowOK(c)
    BY <2>1, <2>2, <2>4 DEF RowOK
  <2>8. Closed(r) = c
    BY <1>2 DEF Closed, c
  <2> QED
    BY <2>4, <2>5, <2>7, <2>8
<1> QED
  BY <1>1, <1>2

LEMMA OpenedRow ==
  ASSUME now \in 0..MaxSeconds, NEW r \in TimesRow, RowOK(r), r.since # NoTime
  PROVE  /\ Opened(r) \in TimesRow /\ RowOK(Opened(r))
         /\ Opened(r).since = r.since /\ Opened(r).connections = r.connections
         /\ Opened(r).turns \in {r.turns, r.turns + 1}
<1>1. CASE r.speakingSince # NoTime
  BY <1>1 DEF Opened
<1>2. CASE r.speakingSince = NoTime
  <2> DEFINE o == [r EXCEPT !.speakingSince = now, !.turns = @ + 1]
  <2>1. /\ r.presence <= r.since /\ r.since <= now /\ r.talk <= r.presence + (now - r.since)
        /\ r.connections >= 1
    BY <1>2 DEF RowOK, NoTimes
  <2>2. /\ r.talk \in Nat /\ r.presence \in Nat /\ r.since \in 0..NoTime
        /\ r.turns \in Nat /\ r.connections \in Nat
    BY DEF TimesRow
  <2>3. /\ o.speakingSince = now /\ o.turns = r.turns + 1 /\ o.talk = r.talk
        /\ o.since = r.since /\ o.presence = r.presence /\ o.connections = r.connections
    BY DEF TimesRow
  <2>4. o \in TimesRow
    <3>1. now \in 0..NoTime /\ r.turns + 1 \in Nat
      BY <2>2 DEF NoTime
    <3> QED
      BY <3>1 DEF TimesRow
  <2> HIDE DEF o
  <2>5. o # NoTimes /\ now # NoTime
    BY <2>1, <2>3 DEF NoTimes, NoTime
  <2>6. RowOK(o)
    BY <2>1, <2>2, <2>3, <2>5 DEF RowOK
  <2>7. Opened(r) = o
    BY <1>2 DEF Opened, o
  <2> QED
    BY <2>3, <2>4, <2>6, <2>7
<1> QED
  BY <1>1, <1>2

LEMMA NewRowOK ==
  ASSUME now \in 0..MaxSeconds, NEW n \in 0..MaxSeconds, n <= now
  PROVE  /\ NewRow(n) \in TimesRow /\ RowOK(NewRow(n))
         /\ NewRow(n).since = n /\ NewRow(n).since # NoTime
         /\ NewRow(n).connections = 1 /\ NewRow(n).turns = 0
<1> DEFINE r == NewRow(n)
<1>2. n \in 0..NoTime /\ NoTime \in 0..NoTime /\ n # NoTime
  BY DEF NoTime
<1>3. NoTimes \in TimesRow
  BY <1>2 DEF NoTimes, TimesRow
<1>5. r \in TimesRow
  BY <1>2, <1>3 DEF NewRow, TimesRow
<1>1. /\ r.presence = 0 /\ r.since = n /\ r.talk = 0 /\ r.speakingSince = NoTime
      /\ r.turns = 0 /\ r.connections = 1
  <2>1. /\ NoTimes.presence = 0 /\ NoTimes.talk = 0 /\ NoTimes.speakingSince = NoTime
        /\ NoTimes.turns = 0
    BY DEF NoTimes
  <2> QED
    BY <1>3, <2>1 DEF NewRow, TimesRow
<1>4. RowOK(r)
  BY <1>1, <1>2 DEF RowOK
<1> QED
  BY <1>1, <1>2, <1>4, <1>5

\* A row of somebody who arrives, and was away.
LEMMA ConnectedRow ==
  ASSUME now \in 0..MaxSeconds, NEW e, e.joinedAt \in 0..MaxSeconds, e.joinedAt <= now,
         table[e.p] \in TimesRow, RowOK(table[e.p]), table[e.p].since = NoTime
  PROVE  /\ Connected(e) \in TimesRow /\ RowOK(Connected(e)) /\ Connected(e).since # NoTime
         /\ Connected(e).connections = table[e.p].connections + 1 /\ Connected(e).turns = table[e.p].turns
<1> DEFINE r == table[e.p]
<1>1. CASE r = NoTimes
  <2>1. r.connections = 0 /\ r.turns = 0 /\ Connected(e) = NewRow(e.joinedAt)
    BY <1>1 DEF NoTimes, Connected
  <2> QED
    BY <2>1, NewRowOK
<1>2. CASE r # NoTimes
  <2> DEFINE c == [r EXCEPT !.since = now, !.connections = @ + 1]
  <2>1. /\ r.talk \in Nat /\ r.presence \in Nat /\ r.turns \in Nat /\ r.connections \in Nat
        /\ r.speakingSince = NoTime /\ r.talk <= r.presence /\ r.presence <= now
    BY DEF TimesRow, RowOK
  <2>2. /\ c.since = now /\ c.connections = r.connections + 1 /\ c.turns = r.turns
        /\ c.talk = r.talk /\ c.presence = r.presence /\ c.speakingSince = NoTime
    BY <2>1 DEF TimesRow
  <2>3. c \in TimesRow
    <3>1. now \in 0..NoTime /\ r.connections + 1 \in Nat
      BY <2>1 DEF NoTime
    <3> QED
      BY <3>1 DEF TimesRow
  <2> HIDE DEF c
  <2>4. now # NoTime
    BY DEF NoTime
  <2>5. RowOK(c)
    BY <2>1, <2>2, <2>4 DEF RowOK
  <2>6. Connected(e) = c
    BY <1>2 DEF Connected, c
  <2> QED
    BY <2>2, <2>3, <2>4, <2>5, <2>6
<1> QED
  BY <1>1, <1>2

\* That of somebody who leaves, and was present.
LEMMA LeftRow ==
  ASSUME now \in 0..MaxSeconds, NEW p, table[p] \in TimesRow, RowOK(table[p]), table[p].since # NoTime
  PROVE  /\ Left(p) \in TimesRow /\ RowOK(Left(p)) /\ Left(p).since = NoTime
         /\ Left(p).connections = table[p].connections /\ Left(p).turns = table[p].turns
<1> DEFINE r == Closed(table[p])
           c == [r EXCEPT !.presence = @ + now - r.since, !.since = NoTime]
<1>1. /\ r \in TimesRow /\ RowOK(r) /\ r.since = table[p].since /\ r.speakingSince = NoTime
      /\ r.connections = table[p].connections /\ r.turns = table[p].turns
  BY ClosedRow
<1> HIDE DEF r
<1>2. /\ r.talk \in Nat /\ r.presence \in Nat /\ r.turns \in Nat /\ r.connections \in Nat
      /\ r.since \in 0..NoTime
      /\ r.presence <= r.since /\ r.since <= now /\ r.talk <= r.presence + (now - r.since)
      /\ r.connections >= 1
  BY <1>1 DEF TimesRow, RowOK, NoTimes
<1>3. r.presence + now - r.since \in Nat
  BY <1>2
<1>4. /\ c.presence = r.presence + now - r.since /\ c.since = NoTime /\ c.talk = r.talk
      /\ c.speakingSince = NoTime /\ c.connections = r.connections /\ c.turns = r.turns
  BY <1>1 DEF TimesRow
<1>5. c \in TimesRow
  <2>1. NoTime \in 0..NoTime
    BY DEF NoTime
  <2> QED
    BY <1>1, <1>3, <2>1 DEF TimesRow
<1>6. Left(p) = c
  BY DEF Left, r
<1> HIDE DEF c
<1>7. RowOK(c)
  BY <1>2, <1>4 DEF RowOK
<1> QED
  BY <1>1, <1>4, <1>5, <1>6, <1>7

-----------------------------------------------------------------------------
(* The invariant                                                            *)

LEMMA EngInvInit == EngInit => EngInv
<1> SUFFICES ASSUME EngInit PROVE EngInv
  OBVIOUS
<1>1. now = 1 /\ now \in 0..MaxSeconds /\ inbox = <<>> /\ Len(inbox) = 0 /\ DOMAIN inbox = {} /\ sentEvents = 0
  BY DEF EngInit
<1>2. /\ NoTimes \in TimesRow /\ RowOK(NoTimes) /\ NoTimes.since = NoTime
      /\ NoTimes.connections = 0 /\ NoTimes.turns = 0
  <2>1. NoTime \in 0..NoTime
    BY DEF NoTime
  <2> QED
    BY <1>1, <2>1 DEF NoTimes, TimesRow, RowOK
<1>3. /\ NewRow(0) \in TimesRow /\ RowOK(NewRow(0)) /\ NewRow(0).since # NoTime
      /\ NewRow(0).connections = 1 /\ NewRow(0).turns = 0
  BY <1>1, NewRowOK
<1>4. NoTime # 0 /\ NoTime \in 0..NoTime
  BY DEF NoTime
<1>5. \A p \in Guests :
        \/ attending[p] = 0 /\ table[p] = NewRow(0) /\ joins[p] = 1
        \/ attending[p] = NoTime /\ table[p] = NoTimes /\ joins[p] = 0
  BY <1>4 DEF EngInit
<1>6. EngTypes
  <2>1. table \in [Guests -> TimesRow]
    BY <1>2, <1>3 DEF EngInit
  <2>2. attending \in [Guests -> 0..NoTime]
    BY <1>4 DEF EngInit
  <2> QED
    BY <1>1, <2>1, <2>2 DEF EngInit, EngTypes
<1>7. TimesOK
  BY <1>2, <1>3, <1>5 DEF TimesOK
<1>8. NoneAhead
  BY <1>1 DEF NoneAhead
<1>9. AllInTurn
  <2>1. \A p \in Guests : About(inbox, p) = {}
    BY <1>1 DEF About
  <2>2. \A p \in Guests : p \in Present <=> p \in Inside
    BY <1>2, <1>3, <1>4, <1>5 DEF Present, Inside
  <2> QED
    BY <2>1, <2>2 DEF AllInTurn, InTurn
<1>10. AllCounted
  <2>1. \A p \in Guests : Number(inbox, Arrivals(p)) = 0
    <3>1. \A S : {i \in DOMAIN inbox : inbox[i] \in S} = {}
      BY <1>1
    <3> QED
      BY <3>1, FS_EmptySet DEF Number
  <2> QED
    BY <1>1, <1>2, <1>3, <1>5, <2>1 DEF AllCounted
<1> QED
  BY <1>6, <1>7, <1>8, <1>9, <1>10 DEF EngInv

LEMMA TickKeeps ==
  ASSUME EngInv, Tick
  PROVE  EngInv'
<1>1. /\ now < MaxSeconds /\ now' = now + 1 /\ now \in 0..MaxSeconds
      /\ UNCHANGED <<attending, talkers, inbox, table, sentEvents, joins>>
  BY DEF Tick, EngInv, EngTypes
<1>2. EngTypes'
  BY <1>1 DEF EngInv, EngTypes
<1>3. TimesOK'
  <2> SUFFICES ASSUME NEW p \in Guests PROVE RowOK(table[p])'
    BY DEF TimesOK
  <2> DEFINE r == table[p]
  <2>1. /\ r \in TimesRow /\ RowOK(r)
    BY DEF EngInv, EngTypes, TimesOK
  <2>2. /\ r.talk \in Nat /\ r.presence \in Nat /\ r.since \in 0..NoTime /\ r.speakingSince \in 0..NoTime
    BY <2>1 DEF TimesRow
  <2> QED
    BY <1>1, <2>1, <2>2 DEF RowOK, NoTimes, NoTime
<1>4. NoneAhead'
  <2> SUFFICES ASSUME NEW i \in DOMAIN inbox, inbox[i].t = "connected" PROVE inbox[i].joinedAt <= now'
    BY <1>1 DEF NoneAhead
  <2>1. inbox[i] \in Events
    BY ElementOfSeq DEF EngInv, EngTypes
  <2> QED
    BY <1>1, <2>1, EventKinds DEF EngInv, NoneAhead
<1>5. AllInTurn'
  BY <1>1 DEF EngInv, AllInTurn, InTurn, About, Present, Inside
<1>6. AllCounted'
  BY <1>1 DEF EngInv, AllCounted, Number, Arrivals
<1> QED
  BY <1>2, <1>3, <1>4, <1>5, <1>6 DEF EngInv

-----------------------------------------------------------------------------
(* What the room sends                                                      *)

\* The queue q agrees with the table, when the people of R are in the room, j counts the arrivals
\* and s the events sent.
Queue(q, R, j, s) ==
  /\ q \in Seq(Events)
  /\ \A i \in DOMAIN q : q[i].t = "connected" => q[i].joinedAt <= now
  /\ \A p \in Guests : /\ InTurn(q, p, Present, R)
                       /\ table[p].connections + Number(q, Arrivals(p)) = j[p]
                       /\ table[p].turns + Len(q) <= s

LEMMA QueueOfInv ==
  ASSUME EngInv
  PROVE  Queue(inbox, Inside, joins, sentEvents)
BY DEF EngInv, EngTypes, NoneAhead, AllInTurn, AllCounted, Queue

LEMMA InvOfQueue ==
  ASSUME EngInv, EngTypes', UNCHANGED <<now, table>>, Queue(inbox', Inside', joins', sentEvents'),
         \A p \in Guests : joins'[p] <= sentEvents' + 1
  PROVE  EngInv'
<1>1. TimesOK'
  BY DEF EngInv, TimesOK, RowOK, NoTimes
<1>2. NoneAhead'
  BY DEF Queue, NoneAhead
<1>3. AllInTurn'
  <2>1. Present' = Present
    BY DEF Present
  <2> QED
    BY <2>1 DEF Queue, AllInTurn, InTurn, About
<1>4. AllCounted'
  BY DEF Queue, AllCounted, Number, Arrivals
<1> QED
  BY <1>1, <1>2, <1>3, <1>4 DEF EngInv

LEMMA QueueAppend ==
  ASSUME EngTypes, NEW q, NEW R, NEW j \in [Guests -> Nat], NEW s \in Nat, Queue(q, R, j, s),
         NEW e \in Events
  PROVE  /\ Append(q, e) \in Seq(Events) /\ Len(Append(q, e)) = Len(q) + 1
         /\ \A p \in Guests : table[p].turns + Len(Append(q, e)) <= s + 1
         /\ e.t = "connected" => (e.joinedAt <= now =>
              \A i \in DOMAIN Append(q, e) : Append(q, e)[i].t = "connected" => Append(q, e)[i].joinedAt <= now)
         /\ e.t # "connected" =>
              \A i \in DOMAIN Append(q, e) : Append(q, e)[i].t = "connected" => Append(q, e)[i].joinedAt <= now
<1>1. q \in Seq(Events)
  BY DEF Queue
<1>2. /\ Len(q) \in Nat /\ DOMAIN q = 1..Len(q)
      /\ DOMAIN Append(q, e) = 1..Len(q) + 1
      /\ \A i \in 1..Len(q) : Append(q, e)[i] = q[i]
      /\ Append(q, e)[Len(q) + 1] = e
      /\ Append(q, e) \in Seq(Events) /\ Len(Append(q, e)) = Len(q) + 1
  BY <1>1, AppendProperties, LenProperties
<1>3. \A p \in Guests : table[p].turns \in Nat
  BY DEF EngTypes, TimesRow
<1>4. \A p \in Guests : table[p].turns + Len(Append(q, e)) <= s + 1
  BY <1>2, <1>3 DEF Queue
<1>5. \A i \in 1..Len(q) : q[i].t = "connected" => q[i].joinedAt <= now
  BY <1>2 DEF Queue
<1> QED
  BY <1>2, <1>4, <1>5

LEMMA QueueConnected ==
  ASSUME EngTypes, NEW q, NEW R, NEW j \in [Guests -> Nat], NEW s \in Nat, Queue(q, R, j, s),
         NEW p \in Guests, p \notin R
  PROVE  Queue(Append(q, [t |-> "connected", p |-> p, joinedAt |-> now]), R \cup {p}, [j EXCEPT ![p] = @ + 1], s + 1)
<1> DEFINE e == [t |-> "connected", p |-> p, joinedAt |-> now]
<1>1. e \in Events /\ e.t = "connected" /\ e.p = p /\ e.joinedAt <= now /\ now \in Nat
  BY DEF EngTypes, Events
<1> HIDE DEF e
<1>2. q \in Seq(Events)
  BY DEF Queue
<1>3. \A x \in Guests : InTurn(Append(q, e), x, Present, R \cup {p})
  <2> SUFFICES ASSUME NEW x \in Guests PROVE InTurn(Append(q, e), x, Present, R \cup {p})
    OBVIOUS
  <2>1. InTurn(q, x, Present, R)
    BY DEF Queue
  <2>2. CASE x = p
    <3>1. x \in R \cup {p}
      BY <2>2
    <3> QED
      BY <1>1, <1>2, <2>1, <2>2, <3>1, TurnsAppend
  <2>3. CASE x # p
    <3>1. x \in R \cup {p} <=> x \in R
      BY <2>3
    <3> QED
      BY <1>1, <1>2, <2>1, <2>3, <3>1, TurnsAppend
  <2> QED
    BY <2>2, <2>3
<1>4. \A x \in Guests : table[x].connections + Number(Append(q, e), Arrivals(x)) = [j EXCEPT ![p] = @ + 1][x]
  <2> SUFFICES ASSUME NEW x \in Guests
               PROVE  table[x].connections + Number(Append(q, e), Arrivals(x)) = [j EXCEPT ![p] = @ + 1][x]
    OBVIOUS
  <2>1. e \in Arrivals(x) <=> x = p
    BY <1>1 DEF Arrivals
  <2>2. Number(Append(q, e), Arrivals(x)) = IF x = p THEN Number(q, Arrivals(x)) + 1 ELSE Number(q, Arrivals(x))
    BY <1>1, <1>2, <2>1, NumberAppend
  <2>3. Number(q, Arrivals(x)) \in Nat /\ table[x].connections \in Nat
    BY <1>2, NumberFinite DEF EngTypes, TimesRow
  <2>4. table[x].connections + Number(q, Arrivals(x)) = j[x]
    BY DEF Queue
  <2> QED
    BY <2>2, <2>3, <2>4
<1>5. /\ Append(q, e) \in Seq(Events)
      /\ \A i \in DOMAIN Append(q, e) : Append(q, e)[i].t = "connected" => Append(q, e)[i].joinedAt <= now
      /\ \A x \in Guests : table[x].turns + Len(Append(q, e)) <= s + 1
  BY <1>1, QueueAppend
<1>6. Queue(Append(q, e), R \cup {p}, [j EXCEPT ![p] = @ + 1], s + 1)
  BY <1>3, <1>4, <1>5 DEF Queue
<1> QED
  BY <1>6 DEF e

LEMMA QueueLeft ==
  ASSUME EngTypes, NEW q, NEW R, NEW j \in [Guests -> Nat], NEW s \in Nat, Queue(q, R, j, s),
         NEW p \in R \cap Guests
  PROVE  Queue(Append(q, [t |-> "left", p |-> p]), R \ {p}, j, s + 1)
<1> DEFINE e == [t |-> "left", p |-> p]
<1>1. e \in Events /\ e.t = "left" /\ e.p = p
  BY DEF Events
<1> HIDE DEF e
<1>2. q \in Seq(Events)
  BY DEF Queue
<1>3. \A x \in Guests : InTurn(Append(q, e), x, Present, R \ {p})
  <2> SUFFICES ASSUME NEW x \in Guests PROVE InTurn(Append(q, e), x, Present, R \ {p})
    OBVIOUS
  <2>1. InTurn(q, x, Present, R)
    BY DEF Queue
  <2>2. CASE x = p
    <3>1. x \notin R \ {p}
      BY <2>2
    <3> QED
      BY <1>1, <1>2, <2>1, <2>2, <3>1, TurnsAppend
  <2>3. CASE x # p
    <3>1. x \in R \ {p} <=> x \in R
      BY <2>3
    <3> QED
      BY <1>1, <1>2, <2>1, <2>3, <3>1, TurnsAppend
  <2> QED
    BY <2>2, <2>3
<1>4. \A x \in Guests : Number(Append(q, e), Arrivals(x)) = Number(q, Arrivals(x))
  BY <1>1, <1>2, NumberAppend DEF Arrivals
<1> QED
  BY <1>1, <1>3, <1>4, QueueAppend DEF Queue, e

LEMMA QueueSpeakers ==
  ASSUME EngTypes, NEW q, NEW R, NEW j \in [Guests -> Nat], NEW s \in Nat, Queue(q, R, j, s),
         NEW S \in SUBSET Guests
  PROVE  Queue(Append(q, [t |-> "speakers", who |-> S]), R, j, s + 1)
<1> DEFINE e == [t |-> "speakers", who |-> S]
<1>1. e \in Events /\ e.t = "speakers"
  BY DEF Events
<1> HIDE DEF e
<1>2. q \in Seq(Events)
  BY DEF Queue
<1>3. \A x \in Guests : InTurn(Append(q, e), x, Present, R)
  BY <1>1, <1>2, TurnsAppend DEF Queue
<1>4. \A x \in Guests : Number(Append(q, e), Arrivals(x)) = Number(q, Arrivals(x))
  BY <1>1, <1>2, NumberAppend DEF Arrivals
<1> QED
  BY <1>1, <1>3, <1>4, QueueAppend DEF Queue, e

LEMMA SendOne ==
  ASSUME EngTypes, NEW e \in Events, Send(<<e>>)
  PROVE  /\ sentEvents' = sentEvents + 1 /\ sentEvents' \in 0..MaxEvents
         /\ inbox' = Append(inbox, e)
<1>1. Len(<<e>>) = 1 /\ sentEvents \in Nat
  BY DEF EngTypes
<1>2. inbox \o <<e>> = Append(inbox, e)
  BY DEF EngTypes
<1> QED
  BY <1>1, <1>2 DEF Send

LEMMA SendTwo ==
  ASSUME EngTypes, NEW e \in Events, NEW f \in Events, Send(<<e>> \o <<f>>)
  PROVE  /\ sentEvents' = sentEvents + 1 + 1 /\ sentEvents' \in 0..MaxEvents
         /\ inbox' = Append(Append(inbox, e), f)
<1>1. Len(<<e>> \o <<f>>) = 2 /\ sentEvents \in Nat /\ sentEvents + 2 = sentEvents + 1 + 1
  BY DEF EngTypes
<1>2. inbox \o (<<e>> \o <<f>>) = Append(Append(inbox, e), f)
  <2>1. (inbox \o <<e>>) \o <<f>> = inbox \o (<<e>> \o <<f>>)
    BY ConcatAssociative DEF EngTypes
  <2>2. inbox \o <<e>> = Append(inbox, e) /\ Append(inbox, e) \in Seq(Events)
    BY DEF EngTypes
  <2>3. Append(inbox, e) \o <<f>> = Append(Append(inbox, e), f)
    BY <2>2
  <2> QED
    BY <2>1, <2>2, <2>3
<1>3. /\ sentEvents + Len(<<e>> \o <<f>>) <= MaxEvents
      /\ sentEvents' = sentEvents + Len(<<e>> \o <<f>>)
      /\ inbox' = inbox \o (<<e>> \o <<f>>)
  BY DEF Send
<1> QED
  BY <1>1, <1>2, <1>3

LEMMA AttendKeeps ==
  ASSUME EngInv, NEW p \in Guests, Attend(p)
  PROVE  EngInv'
<1> DEFINE e == [t |-> "connected", p |-> p, joinedAt |-> now]
<1>1. /\ attending[p] = NoTime /\ Send(<<e>>)
      /\ attending' = [attending EXCEPT ![p] = now] /\ joins' = [joins EXCEPT ![p] = @ + 1]
      /\ UNCHANGED <<now, talkers, table>>
  BY DEF Attend
<1>2. EngTypes /\ e \in Events /\ now # NoTime /\ now \in 0..NoTime
  BY DEF EngInv, EngTypes, Events, NoTime
<1>3. sentEvents' = sentEvents + 1 /\ sentEvents' \in 0..MaxEvents /\ inbox' = Append(inbox, e)
  BY <1>1, <1>2, SendOne
<1>4. Inside' = Inside \cup {p} /\ p \notin Inside
  BY <1>1, <1>2 DEF Inside, EngTypes
<1>5. /\ inbox \in Seq(Events) /\ attending \in [Guests -> 0..NoTime] /\ joins \in [Guests -> Nat]
      /\ sentEvents \in Nat
  BY <1>2 DEF EngTypes
<1>6. Queue(Append(inbox, e), Inside \cup {p}, [joins EXCEPT ![p] = @ + 1], sentEvents + 1)
  BY <1>2, <1>4, <1>5, QueueOfInv, QueueConnected
<1> HIDE DEF e
<1>7. Queue(inbox', Inside', joins', sentEvents')
  BY <1>1, <1>3, <1>4, <1>6
<1>8. EngTypes'
  <2>1. inbox' \in Seq(Events)
    BY <1>2, <1>3, <1>5, AppendProperties
  <2>2. attending' \in [Guests -> 0..NoTime] /\ joins' \in [Guests -> Nat]
    BY <1>1, <1>2, <1>5
  <2> QED
    BY <1>1, <1>2, <1>3, <2>1, <2>2 DEF EngTypes
<1>9. \A x \in Guests : joins'[x] <= sentEvents' + 1
  BY <1>1, <1>3, <1>5 DEF EngInv, AllCounted
<1> QED
  BY <1>1, <1>7, <1>8, <1>9, InvOfQueue

LEMMA SpeakKeeps ==
  ASSUME EngInv, NEW S \in SUBSET Guests, Speak(S)
  PROVE  EngInv'
<1> DEFINE e == [t |-> "speakers", who |-> S]
<1>1. Send(<<e>>) /\ talkers' = S /\ UNCHANGED <<now, attending, table, joins>>
  BY DEF Speak
<1>2. EngTypes /\ e \in Events
  BY DEF EngInv, Events
<1>3. sentEvents' = sentEvents + 1 /\ sentEvents' \in 0..MaxEvents /\ inbox' = Append(inbox, e)
  BY <1>1, <1>2, SendOne
<1>4. Inside' = Inside
  BY <1>1 DEF Inside
<1>5. inbox \in Seq(Events) /\ joins \in [Guests -> Nat] /\ sentEvents \in Nat
  BY <1>2 DEF EngTypes
<1>6. Queue(Append(inbox, e), Inside, joins, sentEvents + 1)
  BY <1>2, <1>5, QueueOfInv, QueueSpeakers
<1> HIDE DEF e
<1>7. Queue(inbox', Inside', joins', sentEvents')
  BY <1>1, <1>3, <1>4, <1>6
<1>8. EngTypes'
  <2>1. inbox' \in Seq(Events)
    BY <1>2, <1>3, <1>5, AppendProperties
  <2> QED
    BY <1>1, <1>2, <1>3, <2>1 DEF EngTypes
<1>9. \A x \in Guests : joins'[x] <= sentEvents' + 1
  BY <1>1, <1>3, <1>5 DEF EngInv, AllCounted
<1> QED
  BY <1>1, <1>7, <1>8, <1>9, InvOfQueue

LEMMA DepartKeeps ==
  ASSUME EngInv, NEW p \in Guests, Depart(p)
  PROVE  EngInv'
<1> DEFINE e == [t |-> "left", p |-> p]
           S == talkers \ {p}
           f == [t |-> "speakers", who |-> S]
<1>1. /\ attending[p] # NoTime
      /\ Send(<<e>> \o IF p \in talkers THEN <<f>> ELSE <<>>)
      /\ attending' = [attending EXCEPT ![p] = NoTime] /\ talkers' = S
      /\ UNCHANGED <<now, table, joins>>
  BY DEF Depart
<1>2. EngTypes /\ e \in Events /\ f \in Events /\ S \in SUBSET Guests /\ NoTime \in 0..NoTime
  BY DEF EngInv, EngTypes, Events, NoTime
<1>4. Inside' = Inside \ {p} /\ p \in Inside \cap Guests
  BY <1>1, <1>2 DEF Inside, EngTypes
<1>5. /\ inbox \in Seq(Events) /\ attending \in [Guests -> 0..NoTime] /\ joins \in [Guests -> Nat]
      /\ sentEvents \in Nat
  BY <1>2 DEF EngTypes
<1>6. Queue(Append(inbox, e), Inside \ {p}, joins, sentEvents + 1)
  BY <1>2, <1>4, <1>5, QueueOfInv, QueueLeft
<1>7. Queue(Append(Append(inbox, e), f), Inside \ {p}, joins, sentEvents + 1 + 1)
  <2>1. sentEvents + 1 \in Nat
    BY <1>5
  <2> QED
    BY <1>2, <1>5, <1>6, <2>1, QueueSpeakers
<1>8. /\ Queue(inbox', Inside \ {p}, joins, sentEvents')
      /\ sentEvents' \in 0..MaxEvents /\ sentEvents' >= sentEvents
  <2>1. CASE p \in talkers
    <3>1. sentEvents' = sentEvents + 1 + 1 /\ sentEvents' \in 0..MaxEvents /\ inbox' = Append(Append(inbox, e), f)
      BY <1>1, <1>2, <2>1, SendTwo
    <3> HIDE DEF e, f
    <3> QED
      BY <1>5, <1>7, <3>1
  <2>2. CASE p \notin talkers
    <3>1. <<e>> \o <<>> = <<e>>
      BY <1>2, ConcatEmptySeq
    <3>2. sentEvents' = sentEvents + 1 /\ sentEvents' \in 0..MaxEvents /\ inbox' = Append(inbox, e)
      BY <1>1, <1>2, <2>2, <3>1, SendOne
    <3> HIDE DEF e, f
    <3> QED
      BY <1>5, <1>6, <3>2
  <2> QED
    BY <2>1, <2>2
<1> HIDE DEF e, f
<1>9. Queue(inbox', Inside', joins', sentEvents')
  BY <1>1, <1>4, <1>8
<1>10. EngTypes'
  <2>1. inbox' \in Seq(Events)
    BY <1>8 DEF Queue
  <2>2. attending' \in [Guests -> 0..NoTime]
    BY <1>1, <1>2, <1>5
  <2> QED
    BY <1>1, <1>2, <1>8, <2>1, <2>2 DEF EngTypes
<1>11. \A x \in Guests : joins'[x] <= sentEvents' + 1
  BY <1>1, <1>5, <1>8 DEF EngInv, AllCounted
<1> QED
  BY <1>1, <1>9, <1>10, <1>11, InvOfQueue

-----------------------------------------------------------------------------
(* What the browser handles                                                 *)

LEMMA TurnsNext ==
  ASSUME \A p \in Guests : InTurn(inbox', p, Present', Inside')
  PROVE  AllInTurn'
BY DEF AllInTurn, InTurn, About

\* The first event is taken, and the rows follow: c2 and s2 are the rows' connections and turns after it.
LEMMA HeadHandled ==
  ASSUME EngInv, inbox # <<>>, inbox' = Tail(inbox), table' \in [Guests -> TimesRow],
         UNCHANGED <<now, attending, talkers, sentEvents, joins>>,
         \A p \in Guests :
           /\ RowOK(table[p])'
           /\ table'[p].turns \in {table[p].turns, table[p].turns + 1}
           /\ Head(inbox).t = "connected" /\ Head(inbox).p = p =>
                table'[p].since # NoTime /\ table'[p].connections = table[p].connections + 1
           /\ Head(inbox).t = "left" /\ Head(inbox).p = p =>
                table'[p].since = NoTime /\ table'[p].connections = table[p].connections
           /\ ~(Head(inbox).t \in {"connected", "left"} /\ Head(inbox).p = p) =>
                (table'[p].since = NoTime <=> table[p].since = NoTime) /\ table'[p].connections = table[p].connections
  PROVE  EngInv'
<1>1. inbox \in Seq(Events) /\ sentEvents \in Nat
  BY DEF EngInv, EngTypes
<1>2. /\ Len(inbox) \in Nat \ {0} /\ DOMAIN inbox = 1..Len(inbox)
      /\ Tail(inbox) \in Seq(Events) /\ Len(Tail(inbox)) = Len(inbox) - 1
      /\ DOMAIN Tail(inbox) = 1..Len(inbox) - 1
      /\ \A i \in 1..Len(inbox) - 1 : Tail(inbox)[i] = inbox[i + 1]
      /\ Head(inbox) = inbox[1] /\ Head(inbox) \in Events
  BY <1>1, HeadTailProperties, LenProperties, EmptySeq
<1>3. EngTypes'
  BY <1>2 DEF EngInv, EngTypes
<1>4. TimesOK'
  BY DEF TimesOK
<1>5. NoneAhead'
  BY <1>2 DEF EngInv, NoneAhead
<1>6. AllInTurn'
  <2> SUFFICES ASSUME NEW p \in Guests PROVE InTurn(Tail(inbox), p, Present', Inside)
    <3>1. Inside' = Inside
      BY DEF Inside
    <3>2. \A p \in Guests : InTurn(inbox', p, Present', Inside')
      BY <3>1
    <3> QED
      BY <3>2, TurnsNext
  <2>1. InTurn(inbox, p, Present, Inside)
    BY DEF EngInv, AllInTurn
  <2>2. (p \in Present' <=> table'[p].since # NoTime) /\ (p \in Present <=> table[p].since # NoTime)
    BY DEF Present
  <2> DEFINE C == Present'
  <2> HIDE DEF C
  <2>3. CASE Head(inbox).t = "connected" /\ Head(inbox).p = p
    BY <1>1, <2>1, <2>2, <2>3, TurnsTail DEF C
  <2>4. CASE Head(inbox).t = "left" /\ Head(inbox).p = p
    BY <1>1, <2>1, <2>2, <2>4, TurnsTail DEF C
  <2>5. CASE ~(Head(inbox).t \in {"connected", "left"} /\ Head(inbox).p = p)
    BY <1>1, <2>1, <2>2, <2>5, TurnsTail DEF C
  <2> QED
    BY <2>3, <2>4, <2>5
<1>7. AllCounted'
  <2> SUFFICES ASSUME NEW p \in Guests
               PROVE  /\ table'[p].connections + Number(Tail(inbox), Arrivals(p)) = joins[p]
                      /\ joins[p] <= sentEvents + 1
                      /\ table'[p].turns + Len(Tail(inbox)) <= sentEvents
    BY DEF AllCounted, Number, Arrivals
  <2>1. /\ table[p].connections + Number(inbox, Arrivals(p)) = joins[p]
        /\ joins[p] <= sentEvents + 1
        /\ table[p].turns + Len(inbox) <= sentEvents
    BY DEF EngInv, AllCounted
  <2>2. /\ table[p].connections \in Nat /\ table[p].turns \in Nat
        /\ Number(inbox, Arrivals(p)) \in Nat /\ Number(Tail(inbox), Arrivals(p)) \in Nat
    BY <1>1, <1>2, NumberFinite DEF EngInv, EngTypes, TimesRow
  <2>3. Head(inbox) \in Arrivals(p) <=> Head(inbox).t = "connected" /\ Head(inbox).p = p
    BY <1>2 DEF Arrivals
  <2>4. Number(inbox, Arrivals(p)) =
          IF Head(inbox) \in Arrivals(p) THEN Number(Tail(inbox), Arrivals(p)) + 1 ELSE Number(Tail(inbox), Arrivals(p))
    BY <1>1, NumberTail
  <2>5. table'[p].connections = IF Head(inbox) \in Arrivals(p) THEN table[p].connections + 1 ELSE table[p].connections
    BY <2>3
  <2>6. table'[p].connections + Number(Tail(inbox), Arrivals(p)) = joins[p]
    <3> DEFINE a == table[p].connections
               b == table'[p].connections
               x == Number(inbox, Arrivals(p))
               y == Number(Tail(inbox), Arrivals(p))
    <3>1. a \in Nat /\ y \in Nat /\ a + x = joins[p]
      BY <2>1, <2>2
    <3>2. (x = y + 1 /\ b = a + 1) \/ (x = y /\ b = a)
      <4>1. CASE Head(inbox) \in Arrivals(p)
        BY <2>4, <2>5, <4>1
      <4>2. CASE Head(inbox) \notin Arrivals(p)
        BY <2>4, <2>5, <4>2
      <4> QED
        BY <4>1, <4>2
    <3> HIDE DEF a, b, x, y
    <3>3. b + y = joins[p]
      BY <3>1, <3>2
    <3> QED
      BY <3>3 DEF b, y
  <2> DEFINE n == table[p].turns
             m == table'[p].turns
             l == Len(inbox)
  <2>7. n \in Nat /\ m \in {n, n + 1} /\ l \in Nat /\ n + l <= sentEvents /\ Len(Tail(inbox)) = l - 1
    BY <1>2, <2>1, <2>2
  <2> HIDE DEF n, m, l
  <2>8. m + (l - 1) <= sentEvents
    BY <1>1, <2>7
  <2> QED
    BY <2>1, <2>6, <2>7, <2>8 DEF m
<1> QED
  BY <1>3, <1>4, <1>5, <1>6, <1>7 DEF EngInv

LEMMA HandleEventKeeps ==
  ASSUME EngInv, HandleEvent
  PROVE  EngInv'
<1> DEFINE e == Head(inbox)
           S == {p \in e.who : table[p].since # NoTime}
<1>1. /\ inbox # <<>> /\ inbox' = Tail(inbox)
      /\ table' = IF e.t = "connected" THEN [table EXCEPT ![e.p] = Connected(e)]
                  ELSE IF e.t = "left" THEN [table EXCEPT ![e.p] = Left(e.p)]
                  ELSE Speaking(S)
      /\ UNCHANGED <<now, attending, talkers, sentEvents, joins>>
  BY DEF HandleEvent
<1>2. inbox \in Seq(Events) /\ now \in 0..MaxSeconds /\ table \in [Guests -> TimesRow]
  BY DEF EngInv, EngTypes
<1>3. e \in Events /\ 1 \in DOMAIN inbox /\ e = inbox[1]
  BY <1>1, <1>2, HeadTailProperties, LenProperties, EmptySeq
<1> HIDE DEF e
<1>4. /\ e.t \in {"connected", "left", "speakers"}
      /\ e.t \in {"connected", "left"} => e.p \in Guests
      /\ e.t = "connected" => e.joinedAt \in 0..MaxSeconds /\ e.joinedAt <= now
      /\ e.t = "speakers" => e.who \subseteq Guests
  BY <1>3, EventKinds DEF EngInv, NoneAhead
<1>5. \A p \in Guests : table[p] \in TimesRow /\ RowOK(table[p]) /\ InTurn(inbox, p, Present, Inside)
                        /\ (p \in Present <=> table[p].since # NoTime)
  BY <1>2 DEF EngInv, TimesOK, AllInTurn, Present
<1>6. \A p \in Guests : /\ e.t = "connected" /\ e.p = p => table[p].since = NoTime
                        /\ e.t = "left" /\ e.p = p => table[p].since # NoTime
  <2> SUFFICES ASSUME NEW p \in Guests
               PROVE  /\ e.t = "connected" /\ e.p = p => table[p].since = NoTime
                      /\ e.t = "left" /\ e.p = p => table[p].since # NoTime
    OBVIOUS
  <2>1. InTurn(inbox, p, Present, Inside)
    BY <1>5
  <2> QED
    BY <1>1, <1>2, <1>5, <2>1, TurnsTail DEF e
<1>7. \A p \in Guests, r \in TimesRow : table'[p] = r /\ RowOK(r) => RowOK(table[p])'
  BY <1>1 DEF RowOK, NoTimes, NoTime
<1>8. CASE e.t = "connected"
  <2>1. /\ Connected(e) \in TimesRow /\ RowOK(Connected(e)) /\ Connected(e).since # NoTime
        /\ Connected(e).connections = table[e.p].connections + 1 /\ Connected(e).turns = table[e.p].turns
    BY <1>2, <1>4, <1>5, <1>6, <1>8, ConnectedRow
  <2> DEFINE c == Connected(e)
  <2>2. table' = [table EXCEPT ![e.p] = c]
    BY <1>1, <1>8
  <2> HIDE DEF c
  <2>3. table' \in [Guests -> TimesRow]
    BY <1>2, <2>1, <2>2 DEF c
  <2>4. \A p \in Guests : table'[p] = IF p = e.p THEN c ELSE table[p]
    BY <1>2, <2>2
  <2>5. \A p \in Guests : RowOK(table[p])'
    BY <1>5, <1>7, <2>1, <2>4 DEF c
  <2>6. \A p \in Guests :
           /\ RowOK(table[p])'
           /\ table'[p].turns \in {table[p].turns, table[p].turns + 1}
           /\ Head(inbox).t = "connected" /\ Head(inbox).p = p =>
                table'[p].since # NoTime /\ table'[p].connections = table[p].connections + 1
           /\ Head(inbox).t = "left" /\ Head(inbox).p = p =>
                table'[p].since = NoTime /\ table'[p].connections = table[p].connections
           /\ ~(Head(inbox).t \in {"connected", "left"} /\ Head(inbox).p = p) =>
                (table'[p].since = NoTime <=> table[p].since = NoTime) /\ table'[p].connections = table[p].connections
    BY <1>4, <1>8, <2>1, <2>4, <2>5 DEF c, e
  <2> QED
    BY <1>1, <2>3, <2>6, HeadHandled
<1>9. CASE e.t = "left"
  <2>1. /\ Left(e.p) \in TimesRow /\ RowOK(Left(e.p)) /\ Left(e.p).since = NoTime
        /\ Left(e.p).connections = table[e.p].connections /\ Left(e.p).turns = table[e.p].turns
    BY <1>2, <1>4, <1>5, <1>6, <1>9, LeftRow
  <2> DEFINE c == Left(e.p)
  <2>2. table' = [table EXCEPT ![e.p] = c]
    BY <1>1, <1>9
  <2> HIDE DEF c
  <2>3. table' \in [Guests -> TimesRow]
    BY <1>2, <2>1, <2>2 DEF c
  <2>4. \A p \in Guests : table'[p] = IF p = e.p THEN c ELSE table[p]
    BY <1>2, <2>2
  <2>5. \A p \in Guests : RowOK(table[p])'
    BY <1>5, <1>7, <2>1, <2>4 DEF c
  <2>6. \A p \in Guests :
           /\ RowOK(table[p])'
           /\ table'[p].turns \in {table[p].turns, table[p].turns + 1}
           /\ Head(inbox).t = "connected" /\ Head(inbox).p = p =>
                table'[p].since # NoTime /\ table'[p].connections = table[p].connections + 1
           /\ Head(inbox).t = "left" /\ Head(inbox).p = p =>
                table'[p].since = NoTime /\ table'[p].connections = table[p].connections
           /\ ~(Head(inbox).t \in {"connected", "left"} /\ Head(inbox).p = p) =>
                (table'[p].since = NoTime <=> table[p].since = NoTime) /\ table'[p].connections = table[p].connections
    BY <1>4, <1>9, <2>1, <2>4, <2>5 DEF c, e
  <2> QED
    BY <1>1, <2>3, <2>6, HeadHandled
<1>10. CASE e.t = "speakers"
  <2>1. \A p \in Guests : table'[p] = IF p \in S THEN Opened(table[p]) ELSE Closed(table[p])
    BY <1>1, <1>10 DEF Speaking
  <2>2. \A p \in Guests : p \in S => table[p].since # NoTime
    OBVIOUS
  <2> HIDE DEF S
  <2>3. \A p \in Guests : /\ table'[p] \in TimesRow /\ RowOK(table'[p])
                          /\ table'[p].since = table[p].since
                          /\ table'[p].connections = table[p].connections
                          /\ table'[p].turns \in {table[p].turns, table[p].turns + 1}
    <3> SUFFICES ASSUME NEW p \in Guests
                 PROVE  /\ table'[p] \in TimesRow /\ RowOK(table'[p])
                        /\ table'[p].since = table[p].since
                        /\ table'[p].connections = table[p].connections
                        /\ table'[p].turns \in {table[p].turns, table[p].turns + 1}
      OBVIOUS
    <3>1. CASE p \in S
      <4>1. table'[p] = Opened(table[p])
        BY <2>1, <3>1
      <4> QED
        BY <1>2, <1>5, <2>2, <3>1, <4>1, OpenedRow
    <3>2. CASE p \notin S
      <4>1. table'[p] = Closed(table[p])
        BY <2>1, <3>2
      <4> QED
        BY <1>2, <1>5, <3>2, <4>1, ClosedRow
    <3> QED
      BY <3>1, <3>2
  <2>4. table' \in [Guests -> TimesRow]
    <3>1. table' = Speaking(S)
      BY <1>1, <1>10 DEF S
    <3>2. DOMAIN table' = Guests /\ table' = [p \in Guests |-> table'[p]]
      BY <3>1 DEF Speaking
    <3> QED
      BY <2>3, <3>2
  <2>5. \A p \in Guests : RowOK(table[p])'
    BY <1>7, <2>3
  <2>6. \A p \in Guests :
           /\ RowOK(table[p])'
           /\ table'[p].turns \in {table[p].turns, table[p].turns + 1}
           /\ Head(inbox).t = "connected" /\ Head(inbox).p = p =>
                table'[p].since # NoTime /\ table'[p].connections = table[p].connections + 1
           /\ Head(inbox).t = "left" /\ Head(inbox).p = p =>
                table'[p].since = NoTime /\ table'[p].connections = table[p].connections
           /\ ~(Head(inbox).t \in {"connected", "left"} /\ Head(inbox).p = p) =>
                (table'[p].since = NoTime <=> table[p].since = NoTime) /\ table'[p].connections = table[p].connections
    BY <1>10, <2>3, <2>5 DEF e
  <2> QED
    BY <1>1, <2>4, <2>6, HeadHandled
<1> QED
  BY <1>4, <1>8, <1>9, <1>10

LEMMA EngStutter ==
  ASSUME EngInv, UNCHANGED engVars
  PROVE  EngInv'
<1>1. UNCHANGED <<now, attending, talkers, inbox, table, sentEvents, joins>>
  BY DEF engVars
<1>2. EngTypes' /\ NoneAhead'
  BY <1>1 DEF EngInv, EngTypes, NoneAhead
<1>3. TimesOK'
  BY <1>1 DEF EngInv, TimesOK, RowOK, NoTimes
<1>4. AllInTurn'
  BY <1>1 DEF EngInv, AllInTurn, InTurn, About, Present, Inside
<1>5. AllCounted'
  BY <1>1 DEF EngInv, AllCounted, Number, Arrivals
<1> QED
  BY <1>2, <1>3, <1>4, <1>5 DEF EngInv

LEMMA EngInvStep == EngInv /\ [EngNext]_engVars => EngInv'
<1> SUFFICES ASSUME EngInv, [EngNext]_engVars PROVE EngInv'
  OBVIOUS
<1>1. CASE Tick
  BY <1>1, TickKeeps
<1>2. CASE HandleEvent
  BY <1>2, HandleEventKeeps
<1>3. ASSUME NEW p \in Guests, Attend(p) PROVE EngInv'
  BY <1>3, AttendKeeps
<1>4. ASSUME NEW p \in Guests, Depart(p) PROVE EngInv'
  BY <1>4, DepartKeeps
<1>5. ASSUME NEW S \in SUBSET Guests, Speak(S) PROVE EngInv'
  BY <1>5, SpeakKeeps
<1>6. CASE UNCHANGED engVars
  BY <1>6, EngStutter
<1> QED
  BY <1>1, <1>2, <1>3, <1>4, <1>5, <1>6 DEF EngNext

LEMMA EngInvAlways == EngSpec => []EngInv
BY EngInvInit, EngInvStep, PTL DEF EngSpec

LEMMA EngTypesGive == EngInv => EngTypeOK
<1> SUFFICES ASSUME EngInv PROVE EngTypeOK
  OBVIOUS
<1>1. EngTypes
  BY DEF EngInv
<1>2. \A p \in Guests : joins[p] \in 0..MaxEvents + 1
  BY <1>1 DEF EngInv, EngTypes, AllCounted
<1>3. \A p \in Guests :
        table[p] \in [presence : 0..MaxSeconds, since : 0..NoTime, talk : 0..MaxSeconds,
                      speakingSince : 0..NoTime, turns : 0..MaxEvents, connections : 0..MaxEvents + 1]
  <2> SUFFICES ASSUME NEW p \in Guests
               PROVE  table[p] \in [presence : 0..MaxSeconds, since : 0..NoTime, talk : 0..MaxSeconds,
                      speakingSince : 0..NoTime, turns : 0..MaxEvents, connections : 0..MaxEvents + 1]
    OBVIOUS
  <2> DEFINE r == table[p]
  <2>1. /\ r \in TimesRow /\ RowOK(r) /\ now \in 0..MaxSeconds
        /\ r.connections + Number(inbox, Arrivals(p)) = joins[p]
        /\ joins[p] <= sentEvents + 1
        /\ r.turns + Len(inbox) <= sentEvents
        /\ sentEvents \in 0..MaxEvents
    BY DEF EngInv, EngTypes, TimesOK, AllCounted
  <2>2. Number(inbox, Arrivals(p)) \in Nat /\ Len(inbox) \in Nat /\ joins[p] \in Nat
    BY <1>1, <1>2, NumberFinite, LenProperties DEF EngTypes
  <2> HIDE DEF r
  <2>3. /\ r.presence \in Nat /\ r.talk \in Nat /\ r.since \in 0..NoTime /\ r.speakingSince \in 0..NoTime
        /\ r.turns \in Nat /\ r.connections \in Nat
        /\ r = [presence |-> r.presence, since |-> r.since, talk |-> r.talk,
                speakingSince |-> r.speakingSince, turns |-> r.turns, connections |-> r.connections]
    BY <2>1 DEF TimesRow
  <2>4. r.turns \in 0..MaxEvents /\ r.connections \in 0..MaxEvents + 1
    BY <2>1, <2>2, <2>3, SMTT(30)
  <2>5. r.presence \in 0..MaxSeconds /\ r.talk \in 0..MaxSeconds
    BY <2>1, <2>3 DEF RowOK
  <2> QED
    BY <2>3, <2>4, <2>5 DEF r
<1> QED
  BY <1>1, <1>2, <1>3 DEF EngTypes, EngTypeOK

\* The times of the table never exceed the time gone by, nor its counts the events sent (Engagement).
THEOREM EngTypeCorrect == EngSpec => []EngTypeOK
<1> QED
  BY EngTypesGive, EngInvAlways, PTL

\* The table never shows more speech than presence, and once it has handled what LiveKit sent it counts
\* every connection and says present those who are (useEngagementStats, Engagement).
THEOREM TimesAreExact == EngSpec => []TimesAreTrue
<1>1. EngInv => SpeechWithinPresence
  <2> SUFFICES ASSUME EngInv, NEW p \in Guests PROVE Talk(p) <= Presence(p)
    BY DEF SpeechWithinPresence
  <2>1. table[p] \in TimesRow /\ RowOK(table[p]) /\ now \in 0..MaxSeconds
    BY DEF EngInv, EngTypes, TimesOK
  <2>2. /\ table[p].presence \in Nat /\ table[p].talk \in Nat /\ table[p].since \in 0..NoTime
        /\ table[p].speakingSince \in 0..NoTime
    BY <2>1 DEF TimesRow
  <2> QED
    BY <2>1, <2>2 DEF RowOK, Talk, Presence
<1>2. EngInv => PresenceAsInRoom
  <2> SUFFICES ASSUME EngInv, inbox = <<>>, NEW p \in Guests
               PROVE  /\ table[p].connections = joins[p]
                      /\ table[p].since # NoTime <=> attending[p] # NoTime
    BY DEF PresenceAsInRoom
  <2>1. DOMAIN inbox = {}
    OBVIOUS
  <2>2. About(inbox, p) = {} /\ {i \in DOMAIN inbox : inbox[i] \in Arrivals(p)} = {}
    BY <2>1 DEF About
  <2>3. Number(inbox, Arrivals(p)) = 0
    BY <2>2, FS_EmptySet DEF Number
  <2>4. p \in Present <=> p \in Inside
    BY <2>2 DEF EngInv, AllInTurn, InTurn
  <2>5. table[p].connections \in Nat /\ table[p].connections + Number(inbox, Arrivals(p)) = joins[p]
    BY DEF EngInv, EngTypes, TimesRow, AllCounted
  <2> QED
    BY <2>3, <2>4, <2>5 DEF Present, Inside
<1>3. EngInv => TimesAreTrue
  BY <1>1, <1>2 DEF TimesAreTrue
<1> QED
  BY <1>3, EngInvAlways, PTL

HIDE EngAssumption DEF EngAssumption

-----------------------------------------------------------------------------
(***************************************************************************)
(* THE ROOM PAGE                                                           *)
(*                                                                         *)
(* A change of room is told from a departure: as long as no two changes    *)
(* overlapped, the disconnection to come is that of the change under way or*)
(* of a departure, and the one for a room that is gone is not lost.        *)
(***************************************************************************)

USE PageAssumption DEF PageAssumption

\* The page before and after the device check: nothing of the call before it, no request to join after it.
Mounted ==
  /\ (ask # "idle" \/ timer) => conn.room = None
  /\ ~checked => link = "none" /\ discs = <<>> /\ clicks = <<>> /\ saving = None /\ ~switching
  /\ checked => conn.room # None /\ link # "none"

\* Each change of room, save and drop is counted, and brings one disconnection at most.
Budget == /\ Len(clicks) <= pageActs.switch
          /\ Len(discs) + Len(clicks) <= pageActs.switch + pageActs.drop
          /\ saving # None => Len(discs) + Len(clicks) + 1 <= pageActs.switch + pageActs.drop

\* As long as no two changes overlapped, a disconnection to come is that of the change under way,
\* or of a departure; and a room that is gone has one that will be taken for a departure.
OneChange ==
  ~mixed =>
    /\ Len(clicks) <= 1
    /\ clicks # <<>> => conn.room # Head(clicks)
    /\ saving # None => conn.room = saving
    /\ switching => discs # <<>>
    /\ link = "down" /\ out = "page" => discs # <<>> /\ (switching => Len(discs) >= 2)
    /\ pageActs.drop = 0 => /\ Len(discs) <= 1
                            /\ \A i \in DOMAIN discs : discs[i] = "switch"
                            /\ discs # <<>> => switching
                            /\ link # "down" /\ out \in {"page", "closed"}

PageTypes ==
  /\ who \in {"manager", "enrolled", "stranger"}
  /\ ask \in {"idle", "sent"} \cup Answers
  /\ {hosted, timer, waiting, fatal, mainJoined, checked, switching, mixed} \subseteq BOOLEAN
  /\ conn \in [room : {None} \cup Rooms, token : {None} \cup Rooms]
  /\ link \in {"none", "up", "down"}
  /\ discs \in Seq({"switch", "leave"})
  /\ clicks \in Seq(PageGroups)
  /\ saving \in {None} \cup Rooms
  /\ out \in {"page", "closed", "home", "moodle"}
  /\ pageActs \in [switch : 0..MaxPageActs, drop : 0..MaxDrops, fail : 0..MaxJoinFails]

PageInv == PageTypes /\ Mounted /\ Budget /\ OneChange

-----------------------------------------------------------------------------

LEMMA PageInvInit == PageInit => PageInv
<1> SUFFICES ASSUME PageInit PROVE PageInv
  OBVIOUS
<1>1. /\ ask = "sent" /\ timer = FALSE /\ waiting = FALSE /\ fatal = FALSE /\ mainJoined = FALSE
      /\ conn = [room |-> None, token |-> None] /\ checked = FALSE /\ switching = FALSE
      /\ link = "none" /\ discs = <<>> /\ clicks = <<>> /\ saving = None /\ out = "page" /\ mixed = FALSE
      /\ pageActs = [switch |-> 0, drop |-> 0, fail |-> 0]
      /\ who \in {"manager", "enrolled", "stranger"} /\ hosted \in BOOLEAN
  BY DEF PageInit
<1>2. Len(discs) = 0 /\ Len(clicks) = 0 /\ conn.room = None
      /\ discs \in Seq({"switch", "leave"}) /\ clicks \in Seq(PageGroups)
  BY <1>1, EmptySeq
<1>3. PageTypes
  <2>1. pageActs \in [switch : 0..MaxPageActs, drop : 0..MaxDrops, fail : 0..MaxJoinFails]
    BY <1>1
  <2>2. conn \in [room : {None} \cup Rooms, token : {None} \cup Rooms]
    BY <1>1
  <2>3. {hosted, timer, waiting, fatal, mainJoined, checked, switching, mixed} \subseteq BOOLEAN
    BY <1>1
  <2> QED
    BY <1>1, <1>2, <2>1, <2>2, <2>3 DEF PageTypes
<1>4. Mounted
  BY <1>1, <1>2 DEF Mounted
<1>5. Budget
  BY <1>1, <1>2 DEF Budget
<1>6. OneChange
  BY <1>1, <1>2 DEF OneChange
<1> QED
  BY <1>3, <1>4, <1>5, <1>6 DEF PageInv

\* Before the call nothing of it changes.
LEMMA BeforeCall ==
  ASSUME PageInv, PageTypes',
         (ask' # "idle" \/ timer') => conn'.room = None,
         checked => UNCHANGED conn,
         UNCHANGED <<switching, link, discs, checked, clicks, saving, mixed>>,
         out' = out \/ out' = "closed",
         pageActs'.switch = pageActs.switch /\ pageActs'.drop = pageActs.drop
  PROVE  PageInv'
<1>1. Mounted'
  BY DEF PageInv, Mounted
<1>2. Budget'
  BY DEF PageInv, Budget
<1>3. OneChange'
  <2>1. CASE checked
    BY <2>1 DEF PageInv, OneChange
  <2>2. CASE ~checked
    <3>1. link = "none" /\ discs = <<>> /\ clicks = <<>> /\ saving = None /\ ~switching
      BY <2>2 DEF PageInv, Mounted
    <3> QED
      BY <3>1 DEF PageInv, OneChange
  <2> QED
    BY <2>1, <2>2
<1> QED
  BY <1>1, <1>2, <1>3 DEF PageInv

\* The whole of the queues' arithmetic: an answer or a disconnection more, or one less.
LEMMA QueueFacts ==
  ASSUME PageTypes
  PROVE  /\ Len(discs) \in Nat /\ Len(clicks) \in Nat
         /\ DOMAIN discs = 1..Len(discs) /\ DOMAIN clicks = 1..Len(clicks)
         /\ \A d \in {"switch", "leave"} :
              /\ Append(discs, d) \in Seq({"switch", "leave"}) /\ Append(discs, d) # <<>>
              /\ Len(Append(discs, d)) = Len(discs) + 1
              /\ discs = <<>> => \A i \in DOMAIN Append(discs, d) : Append(discs, d)[i] = d
         /\ \A g \in PageGroups :
              /\ Append(clicks, g) \in Seq(PageGroups)
              /\ Len(Append(clicks, g)) = Len(clicks) + 1
              /\ clicks = <<>> => Head(Append(clicks, g)) = g
         /\ discs # <<>> => /\ Len(discs) > 0 /\ Tail(discs) \in Seq({"switch", "leave"})
                            /\ Len(Tail(discs)) = Len(discs) - 1
         /\ clicks # <<>> => /\ Len(clicks) > 0 /\ Tail(clicks) \in Seq(PageGroups)
                             /\ Len(Tail(clicks)) = Len(clicks) - 1
                             /\ Head(clicks) \in PageGroups
         /\ discs = <<>> <=> Len(discs) = 0
         /\ clicks = <<>> <=> Len(clicks) = 0
         /\ pageActs.switch \in Nat /\ pageActs.drop \in Nat
<1>1. discs \in Seq({"switch", "leave"}) /\ clicks \in Seq(PageGroups)
  BY DEF PageTypes
<1>2. /\ Len(discs) \in Nat /\ Len(clicks) \in Nat
      /\ DOMAIN discs = 1..Len(discs) /\ DOMAIN clicks = 1..Len(clicks)
      /\ discs = <<>> <=> Len(discs) = 0
      /\ clicks = <<>> <=> Len(clicks) = 0
  BY <1>1, LenProperties, EmptySeq
<1>3. ASSUME NEW d \in {"switch", "leave"}
      PROVE  /\ Append(discs, d) \in Seq({"switch", "leave"}) /\ Append(discs, d) # <<>>
             /\ Len(Append(discs, d)) = Len(discs) + 1
             /\ discs = <<>> => \A i \in DOMAIN Append(discs, d) : Append(discs, d)[i] = d
  <2>1. /\ Append(discs, d) \in Seq({"switch", "leave"}) /\ Append(discs, d) # <<>>
        /\ Len(Append(discs, d)) = Len(discs) + 1
        /\ Append(discs, d)[Len(discs) + 1] = d
        /\ DOMAIN Append(discs, d) = 1..Len(discs) + 1
    BY <1>1, AppendProperties, LenProperties
  <2> QED
    BY <1>2, <2>1
<1>4. ASSUME NEW g \in PageGroups
      PROVE  /\ Append(clicks, g) \in Seq(PageGroups)
             /\ Len(Append(clicks, g)) = Len(clicks) + 1
             /\ clicks = <<>> => Head(Append(clicks, g)) = g
  <2>1. /\ Append(clicks, g) \in Seq(PageGroups) /\ Append(clicks, g) # <<>>
        /\ Len(Append(clicks, g)) = Len(clicks) + 1
        /\ Append(clicks, g)[Len(clicks) + 1] = g
    BY <1>1, AppendProperties
  <2>2. Head(Append(clicks, g)) = Append(clicks, g)[1]
    BY <2>1, HeadTailProperties
  <2> QED
    BY <1>2, <2>1, <2>2
<1>5. discs # <<>> => /\ Len(discs) > 0 /\ Tail(discs) \in Seq({"switch", "leave"})
                      /\ Len(Tail(discs)) = Len(discs) - 1
  BY <1>1, <1>2, HeadTailProperties
<1>6. clicks # <<>> => /\ Len(clicks) > 0 /\ Tail(clicks) \in Seq(PageGroups)
                       /\ Len(Tail(clicks)) = Len(clicks) - 1
                       /\ Head(clicks) \in PageGroups
  BY <1>1, <1>2, HeadTailProperties
<1>7. pageActs.switch \in Nat /\ pageActs.drop \in Nat
  BY DEF PageTypes
<1> QED
  BY <1>2, <1>3, <1>4, <1>5, <1>6, <1>7

LEMMA CountedOne ==
  ASSUME PageTypes
  PROVE  /\ Counted("switch") /\ pageActs.switch < MaxPageActs =>
              /\ pageActs' \in [switch : 0..MaxPageActs, drop : 0..MaxDrops, fail : 0..MaxJoinFails]
              /\ pageActs'.switch = pageActs.switch + 1 /\ pageActs'.drop = pageActs.drop
         /\ Counted("drop") /\ pageActs.drop < MaxDrops =>
              /\ pageActs' \in [switch : 0..MaxPageActs, drop : 0..MaxDrops, fail : 0..MaxJoinFails]
              /\ pageActs'.switch = pageActs.switch /\ pageActs'.drop = pageActs.drop + 1
         /\ Counted("fail") /\ pageActs.fail < MaxJoinFails =>
              /\ pageActs' \in [switch : 0..MaxPageActs, drop : 0..MaxDrops, fail : 0..MaxJoinFails]
              /\ pageActs'.switch = pageActs.switch /\ pageActs'.drop = pageActs.drop
BY SMTT(30) DEF PageTypes, Counted

LEMMA WaitKeeps ==
  ASSUME PageInv, Moderators \/ Join \/ AttemptAnswered \/ Retry \/ ClosePage
  PROVE  PageInv'
<1>1. PageTypes /\ Mounted
  BY DEF PageInv
<1>2. CASE Moderators
  <2>1. PageTypes'
    BY <1>1, <1>2 DEF Moderators, PageTypes, waitVars, callVars, Answers
  <2> QED
    BY <1>1, <1>2, <2>1, BeforeCall DEF Moderators, waitVars, callVars, Mounted
<1>3. CASE Join
  <2>1. JoinVerdict \in Answers
    <3>1. who \in {"manager", "enrolled", "stranger"}
      BY <1>1 DEF PageTypes
    <3>2. who = "manager" => JoinVerdict = "token"
      BY Zenon DEF JoinVerdict
    <3>3. who = "stranger" => JoinVerdict = "forbidden"
      BY Zenon DEF JoinVerdict
    <3>4. who = "enrolled" => JoinVerdict \in {"token", "noModerator"}
      BY Zenon DEF JoinVerdict
    <3> QED
      BY <3>1, <3>2, <3>3, <3>4 DEF Answers
  <2>2. /\ pageActs' \in [switch : 0..MaxPageActs, drop : 0..MaxDrops, fail : 0..MaxJoinFails]
        /\ pageActs'.switch = pageActs.switch /\ pageActs'.drop = pageActs.drop
        /\ ask' \in Answers
    <3>1. CASE UNCHANGED pageActs /\ ask' = JoinVerdict
      BY <1>1, <2>1, <3>1 DEF PageTypes
    <3>2. CASE pageActs.fail < MaxJoinFails /\ Counted("fail") /\ ask' = "failed"
      BY <1>1, <3>2, CountedOne DEF Answers
    <3> QED
      BY <1>3, <3>1, <3>2 DEF Join
  <2>3. PageTypes'
    BY <1>1, <1>3, <2>2 DEF Join, PageTypes, callVars
  <2> QED
    BY <1>1, <1>3, <2>2, <2>3, BeforeCall DEF Join, callVars, Mounted
<1>4. CASE AttemptAnswered
  <2>1. waiting' \in BOOLEAN
    <3>1. waiting \in BOOLEAN
      BY <1>1 DEF PageTypes
    <3>2. waiting' = CASE ask = "token" -> FALSE [] ask = "noModerator" -> TRUE [] OTHER -> waiting
      BY <1>4 DEF AttemptAnswered
    <3> QED
      BY <3>1, <3>2, Zenon
  <2>2. timer' \in BOOLEAN /\ fatal' \in BOOLEAN /\ mainJoined' \in BOOLEAN
    BY <1>4, Zenon DEF AttemptAnswered
  <2>3. conn' \in [room : {None} \cup Rooms, token : {None} \cup Rooms]
    BY <1>1, <1>4 DEF AttemptAnswered, PageTypes, Rooms
  <2>4. PageTypes'
    BY <1>1, <1>4, <2>1, <2>2, <2>3 DEF AttemptAnswered, PageTypes
  <2>5. ask # "idle"
    BY <1>4 DEF AttemptAnswered, Answers
  <2>6. conn.room = None /\ ~checked
    BY <1>1, <2>5 DEF Mounted
  <2>7. (ask' # "idle" \/ timer') => conn'.room = None
    BY <1>4, <2>6 DEF AttemptAnswered
  <2> QED
    BY <1>4, <2>4, <2>6, <2>7, BeforeCall DEF AttemptAnswered
<1>5. CASE Retry
  <2>1. PageTypes'
    BY <1>1, <1>5 DEF Retry, PageTypes, callVars
  <2>2. conn.room = None
    BY <1>1, <1>5 DEF Mounted, Retry
  <2> QED
    BY <1>5, <2>1, <2>2, BeforeCall DEF Retry, callVars
<1>6. CASE ClosePage
  <2>1. PageTypes'
    BY <1>1, <1>6 DEF ClosePage, PageTypes, callVars
  <2> QED
    BY <1>1, <1>6, <2>1, BeforeCall DEF ClosePage, callVars, Mounted
<1> QED
  BY <1>2, <1>3, <1>4, <1>5, <1>6

LEMMA ValidateKeeps ==
  ASSUME PageInv, Validate
  PROVE  PageInv'
<1>1. /\ out = "page" /\ ~checked /\ conn.room # None /\ checked' = TRUE /\ link' = "up"
      /\ UNCHANGED <<who, hosted, waitVars, conn, switching, discs, clicks, saving, out, mixed, pageActs>>
  BY DEF Validate
<1>2. /\ ask = "idle" /\ ~timer
      /\ link = "none" /\ discs = <<>> /\ clicks = <<>> /\ saving = None /\ ~switching
  BY <1>1 DEF PageInv, Mounted
<1>3. PageTypes'
  BY <1>1 DEF PageInv, PageTypes, waitVars
<1>4. Mounted'
  BY <1>1, <1>2 DEF Mounted, waitVars
<1>5. Budget'
  BY <1>1 DEF PageInv, Budget
<1>6. OneChange'
  BY <1>1, <1>2 DEF PageInv, OneChange
<1> QED
  BY <1>3, <1>4, <1>5, <1>6 DEF PageInv

\* What holds in the call.
LEMMA CallFacts ==
  ASSUME PageInv, InCall
  PROVE  /\ out = "page" /\ checked /\ ask = "idle" /\ ~timer /\ conn.room # None /\ link \in {"up", "down"}
         /\ conn.room \in Rooms
BY DEF PageInv, PageTypes, Mounted, InCall

LEMMA ClickJoinKeeps ==
  ASSUME PageInv, NEW g \in PageGroups, ClickJoin(g)
  PROVE  PageInv'
<1>1. /\ InCall /\ conn.room # g /\ pageActs.switch < MaxPageActs
      /\ clicks' = Append(clicks, g) /\ mixed' = (mixed \/ clicks # <<>>) /\ Counted("switch")
      /\ UNCHANGED <<who, hosted, waitVars, callVars, checked, saving, out>>
  BY DEF ClickJoin
<1>2. PageTypes /\ Mounted /\ Budget /\ OneChange
  BY DEF PageInv
<1>3. /\ pageActs' \in [switch : 0..MaxPageActs, drop : 0..MaxDrops, fail : 0..MaxJoinFails]
      /\ pageActs'.switch = pageActs.switch + 1 /\ pageActs'.drop = pageActs.drop
  BY <1>1, <1>2, CountedOne
<1>4. /\ clicks' \in Seq(PageGroups) /\ Len(clicks') = Len(clicks) + 1
      /\ clicks = <<>> => Head(clicks') = g
      /\ Len(clicks) \in Nat /\ Len(discs) \in Nat /\ clicks = <<>> <=> Len(clicks) = 0
      /\ pageActs.switch \in Nat /\ pageActs.drop \in Nat
  BY <1>1, <1>2, QueueFacts
<1>5. mixed' \in BOOLEAN
  BY <1>1, Zenon
<1>6. PageTypes'
  BY <1>1, <1>2, <1>3, <1>4, <1>5 DEF PageTypes, waitVars, callVars
<1>7. Mounted'
  BY <1>1, <1>2, CallFacts DEF Mounted, waitVars, callVars
<1>8. Budget'
  <2>1. discs' = discs /\ saving' = saving
    BY <1>1 DEF callVars
  <2>2. Len(clicks') = Len(clicks) + 1 /\ Len(clicks) \in Nat /\ Len(discs) \in Nat
    BY <1>4
  <2>3. pageActs'.switch = pageActs.switch + 1 /\ pageActs'.drop = pageActs.drop
    BY <1>3
  <2>4. Budget /\ pageActs.switch \in Nat /\ pageActs.drop \in Nat
    BY <1>2, <1>4
  <2> QED
    BY <2>1, <2>2, <2>3, <2>4 DEF Budget
<1>9. OneChange'
  <2> SUFFICES ASSUME ~mixed' PROVE OneChange'
    BY DEF OneChange
  <2>1. ~mixed /\ clicks = <<>>
    BY <1>1
  <2> QED
    BY <1>1, <1>2, <1>3, <1>4, <2>1 DEF OneChange, callVars
<1> QED
  BY <1>6, <1>7, <1>8, <1>9 DEF PageInv

\* A change of room marked by switchingRef.
LEMMA ChangeKeeps ==
  ASSUME PageInv, InCall, NEW r \in Rooms,
         switching' = TRUE, conn' = [room |-> r, token |-> r], Mount(r),
         UNCHANGED <<who, hosted, waitVars, checked, saving, out>>,
         pageActs' \in [switch : 0..MaxPageActs, drop : 0..MaxDrops, fail : 0..MaxJoinFails],
         pageActs'.drop = pageActs.drop,
         clicks' \in Seq(PageGroups), Len(clicks') <= pageActs'.switch,
         Len(clicks') + 1 + pageActs.switch <= Len(clicks) + pageActs'.switch,
         mixed' \in BOOLEAN,
         ~mixed' => ~mixed /\ ~Pending /\ saving = None /\ clicks' = <<>> /\ r # conn.room
  PROVE  PageInv'
<1>1. PageTypes /\ Mounted /\ Budget /\ OneChange
  BY DEF PageInv
<1>2. /\ out = "page" /\ checked /\ ask = "idle" /\ ~timer /\ conn.room # None /\ link \in {"up", "down"}
  BY CallFacts
<1>3. /\ discs' = IF r # conn.room /\ link = "up" THEN Append(discs, "switch") ELSE discs
      /\ link' = IF r # conn.room THEN "up" ELSE link
  BY DEF Mount
<1>4. /\ Len(discs) \in Nat /\ Len(clicks) \in Nat /\ DOMAIN discs = 1..Len(discs)
      /\ Append(discs, "switch") \in Seq({"switch", "leave"}) /\ Append(discs, "switch") # <<>>
      /\ Len(Append(discs, "switch")) = Len(discs) + 1
      /\ discs = <<>> => \A i \in DOMAIN Append(discs, "switch") : Append(discs, "switch")[i] = "switch"
      /\ discs = <<>> <=> Len(discs) = 0
      /\ pageActs.switch \in Nat /\ pageActs.drop \in Nat
  BY <1>1, QueueFacts
<1>5. conn' \in [room : {None} \cup Rooms, token : {None} \cup Rooms] /\ conn'.room = r
  OBVIOUS
<1>6. PageTypes'
  <2>1. discs' \in Seq({"switch", "leave"}) /\ link' \in {"none", "up", "down"}
    BY <1>1, <1>2, <1>3, <1>4 DEF PageTypes
  <2> QED
    BY <1>1, <1>5, <2>1 DEF PageTypes, waitVars
<1>7. Mounted'
  <2>1. r # None
    BY DEF Rooms, None, Main
  <2>2. link' # "none"
    BY <1>2, <1>3
  <2> QED
    BY <1>1, <1>2, <1>5, <2>1, <2>2 DEF Mounted, waitVars
<1>8. Budget'
  <2>1. Len(clicks') \in Nat /\ pageActs'.switch \in Nat
    BY LenProperties
  <2>2. Len(discs') <= Len(discs) + 1 /\ Len(discs') \in Nat
    BY <1>3, <1>4
  <2>5. /\ Len(discs) \in Nat /\ Len(clicks) \in Nat /\ pageActs.switch \in Nat /\ pageActs.drop \in Nat
        /\ pageActs'.drop = pageActs.drop
        /\ Len(clicks') + 1 + pageActs.switch <= Len(clicks) + pageActs'.switch
    BY <1>4
  <2>6. /\ Len(discs) + Len(clicks) <= pageActs.switch + pageActs.drop
        /\ saving # None => Len(discs) + Len(clicks) + 1 <= pageActs.switch + pageActs.drop
    BY <1>1 DEF Budget
  <2> DEFINE d == Len(discs)   c == Len(clicks)   a == pageActs.switch   b == pageActs.drop
             e == Len(discs')  f == Len(clicks')  g == pageActs'.switch
  <2>7. /\ d \in Nat /\ c \in Nat /\ a \in Nat /\ b \in Nat /\ e \in Nat /\ f \in Nat /\ g \in Nat
        /\ f + 1 + a <= c + g /\ e <= d + 1 /\ d + c <= a + b
        /\ saving # None => d + c + 1 <= a + b
    BY <2>1, <2>2, <2>5, <2>6
  <2> HIDE DEF d, c, a, b, e, f, g
  <2>8. e + f <= g + b /\ (saving # None => e + f + 1 <= g + b)
    BY <2>7
  <2>3. Len(discs') + Len(clicks') <= pageActs'.switch + pageActs'.drop
    BY <2>5, <2>8 DEF e, f, g, b
  <2>4. saving # None => Len(discs') + Len(clicks') + 1 <= pageActs'.switch + pageActs'.drop
    BY <2>5, <2>8 DEF e, f, g, b
  <2> QED
    BY <2>3, <2>4 DEF Budget
<1>9. OneChange'
  <2> SUFFICES ASSUME ~mixed' PROVE OneChange'
    BY DEF OneChange
  <2>1. ~mixed /\ ~Pending /\ saving = None /\ clicks' = <<>> /\ r # conn.room
    OBVIOUS
  <2>2. Len(clicks') = 0 /\ saving' = None /\ link' = "up"
    BY <1>3, <2>1
  <2>3. CASE link = "up"
    <3>1. discs' = Append(discs, "switch")
      BY <1>3, <2>1, <2>3
    <3>2. pageActs.drop = 0 => discs = <<>>
      BY <1>1, <1>4, <2>1 DEF OneChange, Pending
    <3> QED
      BY <1>1, <1>2, <1>4, <2>1, <2>2, <3>1, <3>2 DEF OneChange
  <2>4. CASE link = "down"
    <3>1. discs' = discs
      BY <1>3, <2>4
    <3>2. discs # <<>> /\ pageActs.drop # 0
      BY <1>1, <1>2, <2>1, <2>4 DEF OneChange
    <3> QED
      BY <2>1, <2>2, <3>1, <3>2 DEF OneChange
  <2> QED
    BY <1>2, <2>3, <2>4
<1> QED
  BY <1>6, <1>7, <1>8, <1>9 DEF PageInv

LEMMA JoinAnsweredKeeps ==
  ASSUME PageInv, JoinAnswered
  PROVE  PageInv'
<1>1. /\ InCall /\ clicks # <<>> /\ clicks' = Tail(clicks)
      /\ UNCHANGED <<who, hosted, waitVars, checked, saving, out, pageActs>>
  BY DEF JoinAnswered
<1>2. PageTypes /\ Mounted /\ Budget /\ OneChange
  BY DEF PageInv
<1>3. /\ Len(discs) \in Nat /\ Len(clicks) \in Nat
      /\ Len(clicks) > 0 /\ Tail(clicks) \in Seq(PageGroups)
      /\ Len(Tail(clicks)) = Len(clicks) - 1 /\ Head(clicks) \in PageGroups
      /\ pageActs.switch \in Nat /\ pageActs.drop \in Nat
  BY <1>1, <1>2, QueueFacts
<1>4. ~mixed => Tail(clicks) = <<>>
  <2>1. ~mixed => Len(Tail(clicks)) = 0
    BY <1>2, <1>3 DEF OneChange
  <2> QED
    BY <1>3, <2>1, EmptySeq
<1>5. CASE UNCHANGED <<callVars, mixed>>
  <2>1. PageTypes'
    BY <1>1, <1>2, <1>3, <1>5 DEF PageTypes, waitVars, callVars
  <2>2. Mounted'
    BY <1>1, <1>2, <1>5, CallFacts DEF Mounted, waitVars, callVars
  <2>3. Budget'
    <3>1. /\ Len(Tail(clicks)) <= pageActs.switch
          /\ Len(discs) + Len(Tail(clicks)) <= pageActs.switch + pageActs.drop
      BY <1>2, <1>3 DEF Budget
    <3>2. saving # None => Len(discs) + Len(Tail(clicks)) + 1 <= pageActs.switch + pageActs.drop
      BY <1>2, <1>3 DEF Budget
    <3> QED
      BY <1>1, <1>5, <3>1, <3>2 DEF Budget, callVars
  <2>4. OneChange'
    <3> SUFFICES ASSUME ~mixed' PROVE OneChange'
      BY DEF OneChange
    <3>1. ~mixed /\ clicks' = <<>> /\ Len(clicks') = 0
      BY <1>1, <1>4, <1>5
    <3> QED
      BY <1>1, <1>2, <1>5, <3>1 DEF OneChange, callVars
  <2> QED
    BY <2>1, <2>2, <2>3, <2>4 DEF PageInv
<1>6. ASSUME NEW g, g = Head(clicks), switching' = TRUE, conn' = [room |-> g, token |-> g], Mount(g),
             mixed' = (mixed \/ Pending \/ saving # None)
      PROVE  PageInv'
  <2>1. g \in Rooms
    BY <1>3, <1>6 DEF Rooms
  <2>2. mixed' \in BOOLEAN
    BY <1>6, Zenon
  <2>3. ~mixed' => ~mixed /\ ~Pending /\ saving = None /\ clicks' = <<>> /\ g # conn.room
    <3>1. ~mixed' => ~mixed /\ ~Pending /\ saving = None
      BY <1>6
    <3> QED
      BY <1>1, <1>2, <1>4, <1>6, <3>1 DEF OneChange
  <2>4. /\ clicks' \in Seq(PageGroups) /\ Len(clicks') <= pageActs'.switch
        /\ Len(clicks') + 1 + pageActs.switch <= Len(clicks) + pageActs'.switch
        /\ pageActs' \in [switch : 0..MaxPageActs, drop : 0..MaxDrops, fail : 0..MaxJoinFails]
        /\ pageActs'.drop = pageActs.drop
    BY <1>1, <1>2, <1>3 DEF Budget, PageTypes
  <2> QED
    BY <1>1, <1>6, <2>1, <2>2, <2>3, <2>4, ChangeKeeps
<1> QED
  BY <1>5, <1>6 DEF JoinAnswered

LEMMA ReturnKeeps ==
  ASSUME PageInv, HandleReturnToMain
  PROVE  PageInv'
<1>1. /\ InCall /\ conn.room \in PageGroups /\ pageActs.switch < MaxPageActs
      /\ switching' = TRUE /\ conn' = [room |-> Main, token |-> Main] /\ Mount(Main)
      /\ mixed' = (mixed \/ Pending \/ saving # None \/ clicks # <<>>) /\ Counted("switch")
      /\ UNCHANGED <<who, hosted, waitVars, checked, clicks, saving, out>>
  BY DEF HandleReturnToMain
<1>2. PageTypes /\ Budget
  BY DEF PageInv
<1>3. /\ pageActs' \in [switch : 0..MaxPageActs, drop : 0..MaxDrops, fail : 0..MaxJoinFails]
      /\ pageActs'.switch = pageActs.switch + 1 /\ pageActs'.drop = pageActs.drop
  BY <1>1, <1>2, CountedOne
<1>4. Len(clicks) \in Nat /\ pageActs.switch \in Nat /\ clicks \in Seq(PageGroups)
  BY <1>2, QueueFacts DEF PageTypes
<1>5. /\ clicks' \in Seq(PageGroups) /\ Len(clicks') <= pageActs'.switch
      /\ Len(clicks') + 1 + pageActs.switch <= Len(clicks) + pageActs'.switch
  BY <1>1, <1>2, <1>3, <1>4 DEF Budget
<1>6. mixed' \in BOOLEAN
  BY <1>1, Zenon
<1>7. ~mixed' => ~mixed /\ ~Pending /\ saving = None /\ clicks' = <<>> /\ Main # conn.room
  BY <1>1 DEF Main
<1>8. Main \in Rooms
  BY DEF Rooms
<1> QED
  BY <1>1, <1>3, <1>5, <1>6, <1>7, <1>8, ChangeKeeps

LEMMA DropKeeps ==
  ASSUME PageInv, Drop
  PROVE  PageInv'
<1>1. /\ InCall /\ link = "up" /\ pageActs.drop < MaxDrops /\ link' = "down"
      /\ discs' = Append(discs, "leave") /\ Counted("drop")
      /\ UNCHANGED <<who, hosted, waitVars, conn, switching, checked, clicks, saving, out, mixed>>
  BY DEF Drop
<1>2. PageTypes /\ Mounted /\ Budget /\ OneChange
  BY DEF PageInv
<1>3. /\ pageActs' \in [switch : 0..MaxPageActs, drop : 0..MaxDrops, fail : 0..MaxJoinFails]
      /\ pageActs'.switch = pageActs.switch /\ pageActs'.drop = pageActs.drop + 1
  BY <1>1, <1>2, CountedOne
<1>4. /\ discs' \in Seq({"switch", "leave"}) /\ Len(discs') = Len(discs) + 1 /\ discs' # <<>>
      /\ Len(clicks) \in Nat /\ Len(discs) \in Nat /\ discs = <<>> <=> Len(discs) = 0
      /\ pageActs.switch \in Nat /\ pageActs.drop \in Nat
  BY <1>1, <1>2, QueueFacts
<1>5. PageTypes'
  BY <1>1, <1>2, <1>3, <1>4 DEF PageTypes, waitVars
<1>6. Mounted'
  BY <1>1, <1>2, CallFacts DEF Mounted, waitVars
<1>7. Budget'
  <2>1. clicks' = clicks /\ saving' = saving
    BY <1>1
  <2>2. Len(discs') = Len(discs) + 1 /\ Len(clicks) \in Nat /\ Len(discs) \in Nat
    BY <1>4
  <2>3. pageActs'.switch = pageActs.switch /\ pageActs'.drop = pageActs.drop + 1
    BY <1>3
  <2>4. Budget /\ pageActs.switch \in Nat /\ pageActs.drop \in Nat
    BY <1>2, <1>4
  <2> QED
    BY <2>1, <2>2, <2>3, <2>4, SMTT(30) DEF Budget
<1>8. OneChange'
  BY <1>1, <1>2, <1>3, <1>4 DEF OneChange
<1> QED
  BY <1>5, <1>6, <1>7, <1>8 DEF PageInv

LEMMA DisconnectedKeeps ==
  ASSUME PageInv, OnDisconnected
  PROVE  PageInv'
<1>1. /\ InCall /\ discs # <<>> /\ discs' = Tail(discs) /\ switching' = FALSE
      /\ out' \in IF switching THEN {out} ELSE {"home", "moodle"}
      /\ UNCHANGED <<who, hosted, waitVars, conn, link, checked, clicks, saving, mixed, pageActs>>
  BY DEF OnDisconnected
<1>2. PageTypes /\ Mounted /\ Budget /\ OneChange
  BY DEF PageInv
<1>3. /\ Len(discs) > 0 /\ Tail(discs) \in Seq({"switch", "leave"})
      /\ Len(Tail(discs)) = Len(discs) - 1 /\ Len(clicks) \in Nat /\ Len(discs) \in Nat
      /\ pageActs.switch \in Nat /\ pageActs.drop \in Nat
  BY <1>1, <1>2, QueueFacts
<1>4. /\ Tail(discs) = <<>> <=> Len(discs) = 1
      /\ Tail(discs) = <<>> => Len(Tail(discs)) = 0 /\ DOMAIN Tail(discs) = {}
  <2>1. /\ Tail(discs) = <<>> <=> Len(Tail(discs)) = 0
        /\ Tail(discs) = <<>> => DOMAIN Tail(discs) = {}
    BY <1>3, NoneLeft
  <2> QED
    BY <1>3, <2>1, SMTT(30)
<1>5. PageTypes'
  <2>1. out' \in {"page", "closed", "home", "moodle"}
    BY <1>1, <1>2 DEF PageTypes
  <2> QED
    BY <1>1, <1>2, <1>3, <2>1 DEF PageTypes, waitVars
<1>6. Mounted'
  BY <1>1, <1>2, CallFacts DEF Mounted, waitVars
<1>7. Budget'
  <2>1. discs' = Tail(discs) /\ clicks' = clicks /\ saving' = saving /\ pageActs' = pageActs
    BY <1>1
  <2>2. Len(Tail(discs)) \in Nat /\ Len(Tail(discs)) <= Len(discs)
    BY <1>3
  <2> QED
    BY <1>2, <1>3, <2>1, <2>2 DEF Budget
<1>8. OneChange'
  <2> SUFFICES ASSUME ~mixed, ~mixed' PROVE OneChange'
    BY <1>1 DEF OneChange
  <2>1. link = "down" /\ out' = "page" => discs' # <<>>
    <3>1. out' = "page" => switching /\ out = "page"
      BY <1>1 DEF InCall
    <3> QED
      BY <1>1, <1>2, <1>3, <1>4, <3>1 DEF OneChange
  <2>2. pageActs.drop = 0 => discs' = <<>> /\ out' \in {"page", "closed"}
    BY <1>1, <1>2, <1>3, <1>4 DEF OneChange
  <2>3. discs' = <<>> => Len(discs') = 0 /\ DOMAIN discs' = {}
    BY <1>1, <1>4
  <2> QED
    BY <1>1, <1>2, <2>1, <2>2, <2>3 DEF OneChange
<1> QED
  BY <1>5, <1>6, <1>7, <1>8 DEF PageInv

LEMMA SavingKeeps ==
  ASSUME PageInv, SaveSettings \/ SettingsSaved
  PROVE  PageInv'
<1>1. PageTypes /\ Mounted /\ Budget /\ OneChange
  BY DEF PageInv
<1>2. CASE SaveSettings
  <2>1. /\ InCall /\ conn.room = Main /\ saving = None /\ pageActs.switch < MaxPageActs
        /\ saving' = Main /\ mixed' = (mixed \/ clicks # <<>>) /\ Counted("switch")
        /\ UNCHANGED <<who, hosted, waitVars, callVars, checked, clicks, out>>
    BY <1>2 DEF SaveSettings
  <2>2. /\ pageActs' \in [switch : 0..MaxPageActs, drop : 0..MaxDrops, fail : 0..MaxJoinFails]
        /\ pageActs'.switch = pageActs.switch + 1 /\ pageActs'.drop = pageActs.drop
    BY <1>1, <2>1, CountedOne
  <2>3. Len(clicks) \in Nat /\ Len(discs) \in Nat /\ pageActs.switch \in Nat /\ pageActs.drop \in Nat
    BY <1>1, QueueFacts
  <2>4. mixed' \in BOOLEAN
    BY <2>1, Zenon
  <2>5. PageTypes'
    BY <1>1, <2>1, <2>2, <2>4 DEF PageTypes, waitVars, callVars, Rooms
  <2>6. Mounted'
    BY <1>1, <2>1, CallFacts DEF Mounted, waitVars, callVars
  <2>7. Budget'
    BY <1>1, <2>1, <2>2, <2>3, SMTT(30) DEF Budget, callVars
  <2>8. OneChange'
    <3> SUFFICES ASSUME ~mixed' PROVE OneChange'
      BY DEF OneChange
    <3>1. ~mixed
      BY <2>1
    <3> QED
      BY <1>1, <2>1, <2>2, <3>1 DEF OneChange, callVars
  <2> QED
    BY <2>5, <2>6, <2>7, <2>8 DEF PageInv
<1>3. CASE SettingsSaved
  <2>1. /\ InCall /\ saving # None /\ saving' = None /\ conn' = [conn EXCEPT !.room = saving] /\ Mount(saving)
        /\ UNCHANGED <<who, hosted, waitVars, switching, checked, clicks, out, mixed, pageActs>>
    BY <1>3 DEF SettingsSaved
  <2>2. saving \in Rooms
    BY <1>1, <2>1 DEF PageTypes
  <2>3. conn' \in [room : {None} \cup Rooms, token : {None} \cup Rooms] /\ conn'.room = saving
    BY <1>1, <2>1, <2>2 DEF PageTypes
  <2>4. /\ discs' = IF saving # conn.room /\ link = "up" THEN Append(discs, "switch") ELSE discs
        /\ link' = IF saving # conn.room THEN "up" ELSE link
    BY <2>1 DEF Mount
  <2>5. /\ Len(discs) \in Nat /\ Len(clicks) \in Nat
        /\ Append(discs, "switch") \in Seq({"switch", "leave"})
        /\ Len(Append(discs, "switch")) = Len(discs) + 1
        /\ pageActs.switch \in Nat /\ pageActs.drop \in Nat
    BY <1>1, QueueFacts
  <2>6. PageTypes'
    <3>1. discs' \in Seq({"switch", "leave"}) /\ link' \in {"none", "up", "down"}
      BY <1>1, <2>4, <2>5 DEF PageTypes
    <3> QED
      BY <1>1, <2>1, <2>3, <3>1 DEF PageTypes, waitVars
  <2>7. Mounted'
    <3>1. link' # "none"
      BY <2>1, <2>4, CallFacts
    <3> QED
      BY <1>1, <2>1, <2>3, <3>1, CallFacts DEF Mounted, waitVars
  <2>8. Budget'
    <3>1. Len(discs) + Len(clicks) + 1 <= pageActs.switch + pageActs.drop /\ Len(clicks) <= pageActs.switch
      BY <1>1, <2>1 DEF Budget
    <3>2. Len(discs') <= Len(discs) + 1 /\ Len(discs') \in Nat
      BY <2>4, <2>5
    <3> QED
      BY <2>1, <2>5, <3>1, <3>2 DEF Budget
  <2>9. OneChange'
    <3> SUFFICES ASSUME ~mixed PROVE OneChange'
      BY <2>1 DEF OneChange
    <3>1. conn.room = saving
      BY <1>1, <2>1 DEF OneChange
    <3> QED
      BY <1>1, <2>1, <2>3, <2>4, <3>1 DEF OneChange
  <2> QED
    BY <2>6, <2>7, <2>8, <2>9 DEF PageInv
<1> QED
  BY <1>2, <1>3

LEMMA PageInvStep == PageInv /\ [PageNext]_pageVars => PageInv'
<1> SUFFICES ASSUME PageInv, [PageNext]_pageVars PROVE PageInv'
  OBVIOUS
<1>1. CASE Moderators \/ Join \/ AttemptAnswered \/ Retry \/ ClosePage
  BY <1>1, WaitKeeps
<1>2. CASE Validate
  BY <1>2, ValidateKeeps
<1>3. CASE JoinAnswered
  BY <1>3, JoinAnsweredKeeps
<1>4. CASE HandleReturnToMain
  BY <1>4, ReturnKeeps
<1>5. CASE Drop
  BY <1>5, DropKeeps
<1>6. CASE OnDisconnected
  BY <1>6, DisconnectedKeeps
<1>7. CASE SaveSettings \/ SettingsSaved
  BY <1>7, SavingKeeps
<1>8. ASSUME NEW g \in PageGroups, ClickJoin(g) PROVE PageInv'
  BY <1>8, ClickJoinKeeps
<1>9. CASE UNCHANGED pageVars
  <2>1. UNCHANGED <<who, hosted, ask, timer, waiting, fatal, mainJoined, conn, switching, link, discs, checked,
                    clicks, saving, out, mixed, pageActs>>
    BY <1>9 DEF pageVars, waitVars, callVars
  <2>2. PageTypes'
    BY <2>1 DEF PageInv, PageTypes
  <2>3. (Mounted /\ Budget /\ OneChange)'
    BY <2>1 DEF PageInv, Mounted, Budget, OneChange
  <2> QED
    BY <2>2, <2>3 DEF PageInv
<1> QED
  BY <1>1, <1>2, <1>3, <1>4, <1>5, <1>6, <1>7, <1>8, <1>9 DEF PageNext

LEMMA PageInvAlways == PageSpec => []PageInv
BY PageInvInit, PageInvStep, PTL DEF PageSpec

LEMMA PageTypesGive == PageInv => PageTypeOK
<1> SUFFICES ASSUME PageInv PROVE PageTypeOK
  OBVIOUS
<1>1. PageTypes /\ Budget
  BY DEF PageInv
<1>2. Len(discs) \in Nat /\ Len(clicks) \in Nat
  BY <1>1, QueueFacts
<1>3. pageActs.switch \in 0..MaxPageActs /\ pageActs.drop \in 0..MaxDrops
  BY <1>1 DEF PageTypes
<1>4. Len(discs) <= MaxPageActs + MaxDrops /\ Len(clicks) <= MaxPageActs
  BY <1>1, <1>2, <1>3 DEF Budget
<1> QED
  BY <1>1, <1>4 DEF PageTypes, PageTypeOK

\* The page of a person keeps its types: no more disconnections to be told than changes of room, saves
\* and drops (RoomPage).
THEOREM PageTypeCorrect == PageSpec => []PageTypeOK
<1> QED
  BY PageTypesGive, PageInvAlways, PTL

\* Whatever the number of groups, clicks, saves and departures, a change of room never sends the person out
\* of the meeting and a departure is never taken for one, unless two changes overlapped (RoomPage's
\* switchingRef and onDisconnected).
THEOREM DeparturesAreTold == PageSpec => []DeparturesTold
<1>1. PageInv => SwitchKeepsIn
  <2> SUFFICES ASSUME PageInv, out \in {"home", "moodle"}, ~mixed PROVE pageActs.drop > 0
    BY DEF SwitchKeepsIn
  <2>1. pageActs.drop \in Nat
    BY DEF PageInv, PageTypes
  <2>2. pageActs.drop # 0
    BY DEF PageInv, OneChange
  <2> QED
    BY <2>1, <2>2
<1>2. PageInv => NoDeadRoom
  BY DEF PageInv, OneChange, NoDeadRoom, InCall
<1>3. PageInv => DeparturesTold
  BY <1>1, <1>2 DEF DeparturesTold
<1> QED
  BY <1>3, PageInvAlways, PTL

HIDE PageAssumption DEF PageAssumption

-----------------------------------------------------------------------------
(***************************************************************************)
(* THE DEVICE CHECK                                                        *)
(*                                                                         *)
(* Only the last acquisition may hold a device, and it is the preview.  The*)
(* type bounds the acquisitions: each was asked for by a choice, or by a   *)
(* fallback, which a device unplugged or a refusal explains.               *)
(***************************************************************************)

USE PreAssumption DEF PreAssumption

\* Acquisition i of n, for that selection, stream and screen: only the last may be on, for the preview,
\* and it shows what is selected.
AcqOK(a, i, n, sel, str, scr) ==
  /\ i < n => a.cancelled
  /\ a.cancelled \/ a.step # "done" => a.tracks = NoTracks
  /\ scr # "shown" => a.cancelled
  /\ a.tracks # NoTracks => i = str
  /\ i = n => a.asked = sel
  /\ \A k \in Kinds : a.tracks[k] # Off /\ sel[k] # Unchosen => a.tracks[k] = sel[k]

AcqsOK == \A i \in 1..Len(acqs) : AcqOK(acqs[i], i, Len(acqs), selection, stream, screen)

\* A fallback opens a device less than was asked: it was unplugged, or refused, since the last fallback.
Falling == acqs # <<>> /\ acqs[Len(acqs)].step = "default" /\ ~acqs[Len(acqs)].cancelled
FewAcqs ==
  /\ Len(acqs) <= 1 + preActs.pick + preActs.plug + preActs.refuse
  /\ Falling \/ Openable(selection) = {} => Len(acqs) <= preActs.pick + preActs.plug + preActs.refuse

PreTypes ==
  /\ allowed \subseteq Kinds
  /\ plugged \in [Kinds -> SUBSET Devices]
  /\ stored \in Choice /\ selection \in Choice
  /\ acqs \in Seq(Acq)
  /\ stream \in 0..Len(acqs)
  /\ permission \in {"pending", "granted", "denied", "skipped"}
  /\ echo \in {"idle", "recording", "playing", "verdict"}
  /\ screen \in {"shown", "joined", "left"}
  /\ preActs \in [pick : 0..MaxPicks, plug : 0..MaxUnplugs, refuse : 0..MaxRefusals]

PreInv == PreTypes /\ AcqsOK /\ FewAcqs

Tracks == [Kinds -> Devices \cup {Off}]

-----------------------------------------------------------------------------
(* The list of the acquisitions                                             *)

LEMMA OneMore == \A n \in Nat : \A j \in 1..n + 1 : j \in 1..n \/ j = n + 1
OBVIOUS

LEMMA AcqsNext ==
  ASSUME \A j \in 1..Len(acqs') : AcqOK(acqs'[j], j, Len(acqs'), selection', stream', screen')
  PROVE  AcqsOK'
BY DEF AcqsOK, AcqOK, NoTracks

LEMMA AcqFields ==
  ASSUME NEW a \in Acq
  PROVE  /\ a.asked \in Choice /\ a.step \in {"exact", "default", "done"} /\ a.cancelled \in BOOLEAN
         /\ a.tracks \in Tracks
         /\ \A s \in {"exact", "default", "done"} : [a EXCEPT !.step = s] \in Acq
         /\ \A s \in {"exact", "default", "done"}, t \in Tracks : [a EXCEPT !.step = s, !.tracks = t] \in Acq
         /\ \A t \in Tracks : [a EXCEPT !.tracks = t] \in Acq
         /\ \A t \in Tracks : [a EXCEPT !.cancelled = TRUE, !.tracks = t] \in Acq
BY DEF Acq, Tracks

LEMMA NoTracksOff == NoTracks \in Tracks /\ \A k \in Kinds : NoTracks[k] = Off
BY DEF NoTracks, Tracks

LEMMA AcqChanged ==
  ASSUME NEW q \in Seq(Acq), NEW i \in 1..Len(q), NEW a \in Acq
  PROVE  /\ [q EXCEPT ![i] = a] \in Seq(Acq) /\ Len([q EXCEPT ![i] = a]) = Len(q)
         /\ \A j \in 1..Len(q) : [q EXCEPT ![i] = a][j] = IF j = i THEN a ELSE q[j]
BY ExceptSeq

\* The clean-up: only the last is changed.
LEMMA Cleaning ==
  ASSUME NEW q \in Seq(Acq)
  PROVE  /\ Cleaned(q) \in Seq(Acq) /\ Len(Cleaned(q)) = Len(q)
         /\ \A j \in 1..Len(q) : j # Len(q) => Cleaned(q)[j] = q[j]
         /\ \A j \in 1..Len(q) : j = Len(q) =>
              /\ Cleaned(q)[j].cancelled = TRUE /\ Cleaned(q)[j].tracks = NoTracks
              /\ Cleaned(q)[j].asked = q[j].asked /\ Cleaned(q)[j].step = q[j].step
<1> DEFINE f(j) == IF j = Len(q) THEN [q[j] EXCEPT !.cancelled = TRUE, !.tracks = NoTracks] ELSE q[j]
<1>1. Len(q) \in Nat /\ DOMAIN q = 1..Len(q) /\ \A j \in 1..Len(q) : q[j] \in Acq
  BY LenProperties, ElementOfSeq
<1>2. \A j \in 1..Len(q) : [q[j] EXCEPT !.cancelled = TRUE, !.tracks = NoTracks] \in Acq
  BY <1>1, AcqFields, NoTracksOff
<1>3. \A j \in 1..Len(q) : f(j) \in Acq
  BY <1>1, <1>2
<1>4. Cleaned(q) = [j \in 1..Len(q) |-> f(j)]
  BY <1>1 DEF Cleaned
<1>5. \A j \in 1..Len(q) : j = Len(q) =>
              /\ f(j).cancelled = TRUE /\ f(j).tracks = NoTracks
              /\ f(j).asked = q[j].asked /\ f(j).step = q[j].step
  BY <1>1 DEF Acq
<1>6. \A j \in 1..Len(q) : j # Len(q) => f(j) = q[j]
  OBVIOUS
<1> HIDE DEF f
<1>7. Cleaned(q) \in Seq(Acq) /\ Len(Cleaned(q)) = Len(q)
  BY <1>1, <1>3, <1>4, SeqDef, LenProperties
<1> QED
  BY <1>4, <1>5, <1>6, <1>7

LEMMA Restarted ==
  ASSUME NEW q \in Seq(Acq), NEW sel \in Choice, allowed # {}
  PROVE  /\ q \o Started(sel) \in Seq(Acq) /\ Len(q \o Started(sel)) = Len(q) + 1
         /\ \A j \in 1..Len(q) : (q \o Started(sel))[j] = q[j]
         /\ (q \o Started(sel))[Len(q) + 1] =
              [asked |-> sel, step |-> "exact", cancelled |-> FALSE, tracks |-> NoTracks]
<1> DEFINE a == [asked |-> sel, step |-> "exact", cancelled |-> FALSE, tracks |-> NoTracks]
<1>1. a \in Acq /\ Started(sel) = <<a>>
  BY NoTracksOff DEF Acq, Started, Tracks
<1> HIDE DEF a
<1>2. q \o <<a>> = Append(q, a)
  BY <1>1
<1> QED
  BY <1>1, <1>2, AppendProperties DEF a

LEMMA Contents ==
  ASSUME PreInv
  PROVE  /\ acqs \in Seq(Acq) /\ Len(acqs) \in Nat /\ DOMAIN acqs = 1..Len(acqs)
         /\ \A i \in 1..Len(acqs) : acqs[i] \in Acq
         /\ \A i \in 1..Len(acqs) : AcqOK(acqs[i], i, Len(acqs), selection, stream, screen)
         /\ preActs.pick \in Nat /\ preActs.plug \in Nat /\ preActs.refuse \in Nat
BY LenProperties, ElementOfSeq DEF PreInv, PreTypes, AcqsOK

-----------------------------------------------------------------------------

LEMMA PreInvInit == PreInit => PreInv
<1> SUFFICES ASSUME PreInit PROVE PreInv
  OBVIOUS
<1>1. /\ allowed \in SUBSET Kinds /\ plugged = [k \in Kinds |-> Devices] /\ stored \in Choice
      /\ selection = stored /\ acqs = Started(stored) /\ stream = 0
      /\ permission = IF allowed = {} THEN "skipped" ELSE "pending"
      /\ echo = "idle" /\ screen = "shown" /\ preActs = [pick |-> 0, plug |-> 0, refuse |-> 0]
  BY DEF PreInit
<1>2. /\ acqs \in Seq(Acq) /\ Len(acqs) \in 0..1
      /\ \A i \in 1..Len(acqs) : acqs[i] = [asked |-> stored, step |-> "exact", cancelled |-> FALSE, tracks |-> NoTracks]
      /\ acqs = <<>> <=> Len(acqs) = 0
  <2>1. CASE allowed = {}
    <3>1. acqs = <<>>
      BY <1>1, <2>1 DEF Started
    <3> QED
      BY <3>1, EmptySeq
  <2>2. CASE allowed # {}
    <3> DEFINE a == [asked |-> stored, step |-> "exact", cancelled |-> FALSE, tracks |-> NoTracks]
    <3>1. acqs = <<a>> /\ a \in Acq
      BY <1>1, <2>2, NoTracksOff DEF Acq, Tracks, Started
    <3> HIDE DEF a
    <3>2. acqs \in Seq(Acq) /\ Len(acqs) = 1 /\ acqs[1] = a
      BY <3>1
    <3>3. acqs # <<>>
      <4>1. acqs = <<>> <=> Len(acqs) = 0
        BY <3>2, NoneLeft, Zenon
      <4> QED
        BY <3>2, <4>1
    <3>4. \A i \in 1..Len(acqs) : acqs[i] = a
      BY <3>2
    <3> QED
      BY <3>2, <3>3, <3>4 DEF a
  <2> QED
    BY <2>1, <2>2
<1>3. Openable(selection) # {}
  <2>3. PICK some : some \in Devices
    BY PreAssumption DEF PreAssumption
  <2> DEFINE t == [k \in Kinds |-> IF k \notin allowed THEN Off ELSE IF selection[k] = Unchosen THEN some ELSE selection[k]]
  <2>1. \A k \in Kinds : selection[k] \in Devices \cup {Unchosen}
    BY <1>1 DEF Choice
  <2>2. t \in Openable(selection)
    BY <1>1, <2>1, <2>3 DEF Openable
  <2> QED
    BY <2>2
<1>4. PreTypes
  <2>1. preActs \in [pick : 0..MaxPicks, plug : 0..MaxUnplugs, refuse : 0..MaxRefusals]
    BY <1>1
  <2>2. plugged \in [Kinds -> SUBSET Devices]
    BY <1>1
  <2> QED
    BY <1>1, <1>2, <2>1, <2>2 DEF PreTypes
<1>5. AcqsOK
  BY <1>1, <1>2, NoTracksOff DEF AcqsOK, AcqOK
<1>6. FewAcqs
  <2>1. ~Falling
    BY <1>2 DEF Falling
  <2> QED
    BY <1>1, <1>2, <1>3, <2>1 DEF FewAcqs
<1> QED
  BY <1>4, <1>5, <1>6 DEF PreInv

\* The uncancelled acquisition is the last, and the only one that can be on.
LEMMA OnlyLast ==
  ASSUME PreInv, NEW i \in 1..Len(acqs)
  PROVE  /\ ~acqs[i].cancelled => i = Len(acqs)
         /\ i # Len(acqs) => acqs[i].cancelled /\ acqs[i].tracks = NoTracks
         /\ acqs # <<>>
<1>1. Len(acqs) \in Nat /\ AcqOK(acqs[i], i, Len(acqs), selection, stream, screen) /\ acqs \in Seq(Acq)
  BY Contents
<1>2. i # Len(acqs) => i < Len(acqs)
  BY <1>1
<1>3. acqs # <<>>
  BY <1>1, EmptySeq
<1> QED
  BY <1>1, <1>2, <1>3 DEF AcqOK

\* One acquisition is answered.
LEMMA Answered ==
  ASSUME PreInv, NEW i \in 1..Len(acqs), NEW a \in Acq, acqs' = [acqs EXCEPT ![i] = a],
         a.cancelled = acqs[i].cancelled, a.asked = acqs[i].asked,
         a.cancelled \/ a.step # "done" => a.tracks = NoTracks,
         a.tracks # NoTracks => stream' = i,
         \A k \in Kinds : a.tracks[k] # Off /\ selection[k] # Unchosen => a.tracks[k] = selection[k],
         stream' = stream \/ (stream' = i /\ ~a.cancelled),
         UNCHANGED <<allowed, plugged, stored, selection, echo, screen>>,
         permission' \in {"pending", "granted", "denied", "skipped"},
         preActs' \in [pick : 0..MaxPicks, plug : 0..MaxUnplugs, refuse : 0..MaxRefusals],
         preActs'.pick = preActs.pick, preActs'.plug = preActs.plug,
         preActs'.refuse \in {preActs.refuse, preActs.refuse + 1},
         a.step = "default" /\ ~a.cancelled /\ Openable(selection) # {} => preActs'.refuse = preActs.refuse + 1
  PROVE  PreInv'
<1>1. /\ acqs \in Seq(Acq) /\ Len(acqs) \in Nat
      /\ \A j \in 1..Len(acqs) : AcqOK(acqs[j], j, Len(acqs), selection, stream, screen)
      /\ preActs.pick \in Nat /\ preActs.plug \in Nat /\ preActs.refuse \in Nat
  BY Contents
<1>2. /\ acqs' \in Seq(Acq) /\ Len(acqs') = Len(acqs)
      /\ \A j \in 1..Len(acqs) : acqs'[j] = IF j = i THEN a ELSE acqs[j]
  BY <1>1, AcqChanged
<1>3. PreTypes'
  <2>1. stream' \in 0..Len(acqs')
    BY <1>1, <1>2 DEF PreInv, PreTypes
  <2> QED
    BY <1>2, <2>1 DEF PreInv, PreTypes
<1>4. AcqsOK'
  <2> SUFFICES ASSUME NEW j \in 1..Len(acqs)
               PROVE  AcqOK(acqs'[j], j, Len(acqs), selection, stream', screen)
    <3>1. /\ \A j \in 1..Len(acqs') : AcqOK(acqs'[j], j, Len(acqs'), selection', stream', screen')
      BY <1>2
    <3> QED
      BY <3>1, AcqsNext
  <2>1. AcqOK(acqs[j], j, Len(acqs), selection, stream, screen)
    BY <1>1
  <2>2. CASE j = i
    <3>1. acqs'[j] = a
      BY <1>2, <2>2
    <3> QED
      BY <2>1, <2>2, <3>1 DEF AcqOK
  <2>3. CASE j # i
    <3>1. acqs'[j] = acqs[j]
      BY <1>2, <2>3
    <3>2. stream' # stream => acqs[j].tracks = NoTracks
      <4>1. stream' # stream => i = Len(acqs)
        BY OnlyLast
      <4> QED
        BY <2>3, <4>1, OnlyLast
    <3> QED
      BY <2>1, <2>3, <3>1, <3>2 DEF AcqOK
  <2> QED
    BY <2>2, <2>3
<1>5. FewAcqs'
  <2>1. FewAcqs
    BY DEF PreInv
  <2>2. Openable(selection)' = Openable(selection)
    BY DEF Openable
  <2>3. Falling' => Falling \/ Openable(selection) = {} \/ preActs'.refuse = preActs.refuse + 1
    <3> SUFFICES ASSUME Falling', Openable(selection) # {}, preActs'.refuse # preActs.refuse + 1 PROVE Falling
      OBVIOUS
    <3>4. acqs'[Len(acqs')].step = "default" /\ ~acqs'[Len(acqs')].cancelled
      BY DEF Falling
    <3>5. Len(acqs) \in 1..Len(acqs)
      BY <1>1
    <3>1. acqs'[Len(acqs)].step = "default" /\ ~acqs'[Len(acqs)].cancelled /\ Len(acqs) \in 1..Len(acqs)
      BY <1>2, <3>4, <3>5
    <3>2. Len(acqs) # i
      BY <1>2, <3>1
    <3>3. acqs'[Len(acqs)] = acqs[Len(acqs)]
      BY <1>2, <3>1, <3>2
    <3> QED
      BY <3>1, <3>3, OnlyLast DEF Falling
  <2> DEFINE n == Len(acqs)   p == preActs.pick   u == preActs.plug   f == preActs.refuse   g == preActs'.refuse
  <2>4. /\ n \in Nat /\ p \in Nat /\ u \in Nat /\ f \in Nat /\ g \in {f, f + 1}
        /\ n <= 1 + p + u + f
        /\ Falling \/ Openable(selection) = {} => n <= p + u + f
        /\ Falling' => Falling \/ Openable(selection) = {} \/ g = f + 1
    BY <1>1, <2>1, <2>3 DEF FewAcqs
  <2> HIDE DEF n, p, u, f, g
  <2>5. n <= 1 + p + u + g
    BY <2>4
  <2>6. Falling' \/ Openable(selection) = {} => n <= p + u + g
    <3>1. CASE g = f + 1
      BY <2>4, <3>1
    <3>2. CASE g # f + 1
      BY <2>4, <3>2
    <3> QED
      BY <3>1, <3>2
  <2> QED
    BY <1>2, <2>2, <2>5, <2>6 DEF FewAcqs, n, p, u, g
<1> QED
  BY <1>3, <1>4, <1>5 DEF PreInv

\* The effect runs again: the former acquisitions are over, the new one has not opened anything.
LEMMA RunsAgain ==
  ASSUME PreInv, NEW q \in Seq(Acq), Len(q) = Len(acqs), allowed # {}, screen = "shown",
         \A j \in 1..Len(q) : j # Len(q) => q[j].cancelled /\ q[j].tracks = NoTracks,
         selection' \in Choice, stored' \in Choice, acqs' = Cleaned(q) \o Started(selection'),
         stream' \in 0..Len(acqs),
         UNCHANGED <<allowed, plugged, echo, screen>>,
         permission' \in {"pending", "granted", "denied", "skipped"},
         preActs' \in [pick : 0..MaxPicks, plug : 0..MaxUnplugs, refuse : 0..MaxRefusals],
         Len(acqs) <= preActs'.pick + preActs'.plug + preActs'.refuse,
         Openable(selection)' = {} => Len(acqs) + 1 <= preActs'.pick + preActs'.plug + preActs'.refuse
  PROVE  PreInv'
<1> DEFINE c == Cleaned(q)
           b == [asked |-> selection', step |-> "exact", cancelled |-> FALSE, tracks |-> NoTracks]
<1>1. Len(acqs) \in Nat
  BY Contents
<1>2. /\ c \in Seq(Acq) /\ Len(c) = Len(acqs)
      /\ \A j \in 1..Len(acqs) : c[j].cancelled /\ c[j].tracks = NoTracks
  BY <1>1, Cleaning
<1> HIDE DEF c
<1>3. /\ acqs' \in Seq(Acq) /\ Len(acqs') = Len(acqs) + 1
      /\ \A j \in 1..Len(acqs) : acqs'[j] = c[j]
      /\ acqs'[Len(acqs) + 1] = b
  <2>1. acqs' = c \o Started(selection')
    BY DEF c
  <2> DEFINE d == c \o Started(selection')
  <2>2. /\ d \in Seq(Acq) /\ Len(d) = Len(c) + 1
        /\ \A j \in 1..Len(c) : d[j] = c[j]
        /\ d[Len(c) + 1] = b
    BY <1>2, Restarted
  <2> HIDE DEF b, d
  <2>3. acqs' = d
    BY <2>1 DEF d
  <2> QED
    BY <1>2, <2>2, <2>3
<1>4. PreTypes'
  <2>1. stream' \in 0..Len(acqs')
    BY <1>1, <1>3
  <2> QED
    BY <1>3, <2>1 DEF PreInv, PreTypes
<1>5. AcqsOK'
  <2> SUFFICES ASSUME NEW j \in 1..Len(acqs) + 1
               PROVE  AcqOK(acqs'[j], j, Len(acqs) + 1, selection', stream', "shown")
    <3>1. /\ \A j \in 1..Len(acqs') : AcqOK(acqs'[j], j, Len(acqs'), selection', stream', screen')
      BY <1>3
    <3> QED
      BY <3>1, AcqsNext
  <2>1. CASE j \in 1..Len(acqs)
    <3>2. acqs'[j] = c[j] /\ c[j].cancelled /\ c[j].tracks = NoTracks
      BY <1>2, <1>3, <2>1
    <3>3. j # Len(acqs) + 1
      BY <1>1, <2>1
    <3>1. acqs'[j].cancelled /\ acqs'[j].tracks = NoTracks /\ j # Len(acqs) + 1
      BY <3>2, <3>3
    <3> QED
      BY <3>1, NoTracksOff DEF AcqOK
  <2>2. CASE j = Len(acqs) + 1
    <3>1. ~(j < Len(acqs) + 1)
      BY <1>1, <2>2
    <3>2. acqs'[j] = b /\ b.asked = selection' /\ b.step = "exact" /\ ~b.cancelled /\ b.tracks = NoTracks
      BY <1>3, <2>2
    <3> HIDE DEF b
    <3>3. AcqOK(b, j, Len(acqs) + 1, selection', stream', "shown")
      BY <3>1, <3>2, NoTracksOff DEF AcqOK
    <3> QED
      BY <3>2, <3>3
  <2>3. j \in 1..Len(acqs) \/ j = Len(acqs) + 1
    BY <1>1, OneMore, Zenon
  <2> QED
    BY <2>1, <2>2, <2>3
<1>6. FewAcqs'
  <2>1. acqs'[Len(acqs')].step = "exact"
    BY <1>3
  <2>2. ~Falling'
    BY <2>1 DEF Falling
  <2>3. /\ preActs'.pick \in Nat /\ preActs'.plug \in Nat /\ preActs'.refuse \in Nat
    OBVIOUS
  <2>4. Len(acqs) + 1 <= 1 + preActs'.pick + preActs'.plug + preActs'.refuse
    BY <1>1, <2>3
  <2> QED
    BY <1>3, <2>2, <2>4 DEF FewAcqs
<1> QED
  BY <1>4, <1>5, <1>6 DEF PreInv

-----------------------------------------------------------------------------
(* The answers of the browser                                               *)

\* Why getUserMedia fails: the device is gone, or the refusal is counted.
LEMMA RefusedFacts ==
  ASSUME PreInv, NEW exact, Refused(exact)
  PROVE  /\ preActs' \in [pick : 0..MaxPicks, plug : 0..MaxUnplugs, refuse : 0..MaxRefusals]
         /\ preActs'.pick = preActs.pick /\ preActs'.plug = preActs.plug
         /\ preActs'.refuse \in {preActs.refuse, preActs.refuse + 1}
         /\ Openable(exact) # {} => preActs'.refuse = preActs.refuse + 1
<1>1. preActs \in [pick : 0..MaxPicks, plug : 0..MaxUnplugs, refuse : 0..MaxRefusals]
  BY DEF PreInv, PreTypes
<1>2. CASE Openable(exact) = {}
  BY <1>1, <1>2 DEF Refused
<1>3. CASE Openable(exact) # {}
  <2>1. preActs.refuse < MaxRefusals /\ preActs' = [preActs EXCEPT !["refuse"] = @ + 1]
    BY <1>3 DEF Refused, PreCount
  <2> QED
    BY <1>1, <1>3, <2>1
<1> QED
  BY <1>2, <1>3

LEMMA ExactOpenedKeeps ==
  ASSUME PreInv, NEW i \in DOMAIN acqs, ExactOpened(i)
  PROVE  PreInv'
<1>1. /\ acqs \in Seq(Acq) /\ Len(acqs) \in Nat /\ i \in 1..Len(acqs) /\ acqs[i] \in Acq
      /\ AcqOK(acqs[i], i, Len(acqs), selection, stream, screen)
  BY Contents
<1>2. PICK t \in Openable(acqs[i].asked) :
        IF acqs[i].cancelled
        THEN acqs' = Stopped(i) /\ UNCHANGED <<stream, permission>>
        ELSE acqs' = OpenedWith(i, t) /\ stream' = i /\ permission' = "granted"
  BY DEF ExactOpened
<1>3. UNCHANGED <<allowed, plugged, stored, selection, echo, screen, preActs>>
  BY DEF ExactOpened
<1>4. /\ preActs' \in [pick : 0..MaxPicks, plug : 0..MaxUnplugs, refuse : 0..MaxRefusals]
      /\ permission \in {"pending", "granted", "denied", "skipped"}
  BY <1>3 DEF PreInv, PreTypes
<1>5. CASE acqs[i].cancelled
  <2> DEFINE a == [acqs[i] EXCEPT !.step = "done", !.tracks = NoTracks]
  <2>1. a \in Acq /\ a.cancelled = acqs[i].cancelled /\ a.asked = acqs[i].asked /\ a.step = "done" /\ a.tracks = NoTracks
    BY <1>1, AcqFields, NoTracksOff, ZenonT(40) DEF Acq
  <2>2. acqs' = [acqs EXCEPT ![i] = a] /\ stream' = stream /\ permission' = permission
    BY <1>1, <1>2, <1>5 DEF Stopped
  <2> HIDE DEF a
  <2> QED
    BY <1>1, <1>3, <1>4, <2>1, <2>2, NoTracksOff, Answered
<1>6. CASE ~acqs[i].cancelled
  <2> DEFINE a == [acqs[i] EXCEPT !.step = "done", !.tracks = t]
  <2>1. t \in Tracks
    BY DEF Openable, Tracks
  <2>2. a \in Acq /\ a.cancelled = acqs[i].cancelled /\ a.asked = acqs[i].asked /\ a.step = "done" /\ a.tracks = t
    BY <1>1, <2>1, AcqFields DEF Acq
  <2>3. acqs' = [acqs EXCEPT ![i] = a] /\ stream' = i /\ permission' = "granted"
    BY <1>1, <1>2, <1>6 DEF OpenedWith
  <2>4. acqs[i].asked = selection
    BY <1>1, <1>6, OnlyLast DEF AcqOK
  <2>5. \A k \in Kinds : t[k] # Off /\ selection[k] # Unchosen => t[k] = selection[k]
    BY <2>4 DEF Openable
  <2> HIDE DEF a
  <2> QED
    BY <1>1, <1>3, <1>4, <1>6, <2>2, <2>3, <2>5, Answered
<1> QED
  BY <1>5, <1>6

LEMMA ExactFailedKeeps ==
  ASSUME PreInv, NEW i \in DOMAIN acqs, ExactFailed(i)
  PROVE  PreInv'
<1> DEFINE remembered == \E k \in Kinds : acqs[i].asked[k] # Unchosen
           s == IF ~acqs[i].cancelled /\ remembered THEN "default" ELSE "done"
           a == [acqs[i] EXCEPT !.step = s]
<1>1. /\ acqs \in Seq(Acq) /\ Len(acqs) \in Nat /\ i \in 1..Len(acqs) /\ acqs[i] \in Acq
      /\ AcqOK(acqs[i], i, Len(acqs), selection, stream, screen)
  BY Contents
<1>2. /\ acqs[i].step = "exact" /\ Refused(acqs[i].asked)
      /\ acqs' = [acqs EXCEPT ![i].step = s]
      /\ permission' = IF ~acqs[i].cancelled /\ ~remembered THEN "denied" ELSE permission
      /\ UNCHANGED <<allowed, plugged, stored, selection, stream, echo, screen>>
  BY DEF ExactFailed
<1>3. s \in {"exact", "default", "done"}
  OBVIOUS
<1> HIDE DEF remembered, s
<1>4. /\ a \in Acq /\ a.cancelled = acqs[i].cancelled /\ a.asked = acqs[i].asked /\ a.step = s
      /\ a.tracks = acqs[i].tracks
  BY <1>1, <1>3, AcqFields DEF Acq
<1>5. acqs' = [acqs EXCEPT ![i] = a]
  BY <1>1, <1>2
<1> HIDE DEF a
<1>6. a.tracks = NoTracks
  BY <1>1, <1>2, <1>4 DEF AcqOK
<1>7. permission' \in {"pending", "granted", "denied", "skipped"}
  <2>1. permission \in {"pending", "granted", "denied", "skipped"}
    BY DEF PreInv, PreTypes
  <2> QED
    BY <1>2, <2>1
<1>8. ~a.cancelled => acqs[i].asked = selection
  BY <1>1, <1>4, OnlyLast DEF AcqOK
<1>9. /\ preActs' \in [pick : 0..MaxPicks, plug : 0..MaxUnplugs, refuse : 0..MaxRefusals]
      /\ preActs'.pick = preActs.pick /\ preActs'.plug = preActs.plug
      /\ preActs'.refuse \in {preActs.refuse, preActs.refuse + 1}
      /\ Openable(acqs[i].asked) # {} => preActs'.refuse = preActs.refuse + 1
  BY <1>2, RefusedFacts
<1>10. /\ a.cancelled \/ a.step # "done" => a.tracks = NoTracks
       /\ a.tracks # NoTracks => stream' = i
       /\ stream' = stream \/ (stream' = i /\ ~a.cancelled)
  BY <1>2, <1>6
<1>11. \A k \in Kinds : a.tracks[k] # Off /\ selection[k] # Unchosen => a.tracks[k] = selection[k]
  BY <1>6, NoTracksOff
<1>12. a.step = "default" /\ ~a.cancelled /\ Openable(selection) # {} => preActs'.refuse = preActs.refuse + 1
  BY <1>8, <1>9
<1> QED
  BY <1>1, <1>2, <1>4, <1>5, <1>7, <1>9, <1>10, <1>11, <1>12, Answered

LEMMA FallbackFailedKeeps ==
  ASSUME PreInv, NEW i \in DOMAIN acqs, FallbackFailed(i)
  PROVE  PreInv'
<1> DEFINE a == [acqs[i] EXCEPT !.step = "done"]
<1>1. /\ acqs \in Seq(Acq) /\ Len(acqs) \in Nat /\ i \in 1..Len(acqs) /\ acqs[i] \in Acq
      /\ AcqOK(acqs[i], i, Len(acqs), selection, stream, screen)
  BY Contents
<1>2. /\ acqs[i].step = "default" /\ Refused(Free)
      /\ acqs' = [acqs EXCEPT ![i].step = "done"]
      /\ permission' = IF acqs[i].cancelled THEN permission ELSE "denied"
      /\ UNCHANGED <<allowed, plugged, stored, selection, stream, echo, screen>>
  BY DEF FallbackFailed
<1>3. /\ a \in Acq /\ a.cancelled = acqs[i].cancelled /\ a.asked = acqs[i].asked /\ a.step = "done"
      /\ a.tracks = acqs[i].tracks
  BY <1>1, AcqFields DEF Acq
<1>4. acqs' = [acqs EXCEPT ![i] = a]
  BY <1>1, <1>2
<1> HIDE DEF a
<1>5. a.tracks = NoTracks
  BY <1>1, <1>2, <1>3 DEF AcqOK
<1>6. permission' \in {"pending", "granted", "denied", "skipped"}
  <2>1. permission \in {"pending", "granted", "denied", "skipped"}
    BY DEF PreInv, PreTypes
  <2> QED
    BY <1>2, <2>1
<1>7. /\ preActs' \in [pick : 0..MaxPicks, plug : 0..MaxUnplugs, refuse : 0..MaxRefusals]
      /\ preActs'.pick = preActs.pick /\ preActs'.plug = preActs.plug
      /\ preActs'.refuse \in {preActs.refuse, preActs.refuse + 1}
  BY <1>2, RefusedFacts
<1>8. /\ a.cancelled \/ a.step # "done" => a.tracks = NoTracks
      /\ a.tracks # NoTracks => stream' = i
      /\ stream' = stream \/ (stream' = i /\ ~a.cancelled)
  BY <1>2, <1>5
<1>9. \A k \in Kinds : a.tracks[k] # Off /\ selection[k] # Unchosen => a.tracks[k] = selection[k]
  BY <1>5, NoTracksOff
<1>10. a.step = "default" /\ ~a.cancelled /\ Openable(selection) # {} => preActs'.refuse = preActs.refuse + 1
  BY <1>3
<1> QED
  BY <1>1, <1>2, <1>3, <1>4, <1>6, <1>7, <1>8, <1>9, <1>10, Answered

LEMMA FallbackOpenedKeeps ==
  ASSUME PreInv, NEW i \in DOMAIN acqs, FallbackOpened(i)
  PROVE  PreInv'
<1>1. /\ acqs \in Seq(Acq) /\ Len(acqs) \in Nat /\ i \in 1..Len(acqs) /\ acqs[i] \in Acq
      /\ AcqOK(acqs[i], i, Len(acqs), selection, stream, screen)
      /\ preActs.pick \in Nat /\ preActs.plug \in Nat /\ preActs.refuse \in Nat
  BY Contents
<1>2. /\ acqs[i].step = "default"
      /\ UNCHANGED <<allowed, plugged, echo, screen, preActs>>
  BY DEF FallbackOpened
<1>3. /\ permission \in {"pending", "granted", "denied", "skipped"} /\ selection \in Choice /\ stored \in Choice
      /\ preActs' \in [pick : 0..MaxPicks, plug : 0..MaxUnplugs, refuse : 0..MaxRefusals]
      /\ plugged \in [Kinds -> SUBSET Devices] /\ allowed \subseteq Kinds
  BY <1>2 DEF PreInv, PreTypes
<1>4. CASE acqs[i].cancelled
  <2> DEFINE a == [acqs[i] EXCEPT !.step = "done", !.tracks = NoTracks]
  <2>1. a \in Acq /\ a.cancelled = acqs[i].cancelled /\ a.asked = acqs[i].asked /\ a.step = "done" /\ a.tracks = NoTracks
    BY <1>1, AcqFields, NoTracksOff DEF Acq
  <2>2. acqs' = Stopped(i) /\ UNCHANGED <<stored, selection, stream, permission>>
    BY <1>4 DEF FallbackOpened
  <2>3. acqs' = [acqs EXCEPT ![i] = a]
    BY <1>1, <2>2 DEF Stopped
  <2> HIDE DEF a
  <2>4. \A k \in Kinds : a.tracks[k] # Off /\ selection[k] # Unchosen => a.tracks[k] = selection[k]
    BY <2>1, NoTracksOff
  <2>5. /\ a.cancelled \/ a.step # "done" => a.tracks = NoTracks
        /\ a.tracks # NoTracks => stream' = i
        /\ stream' = stream \/ (stream' = i /\ ~a.cancelled)
        /\ a.step = "default" /\ ~a.cancelled /\ Openable(selection) # {} => preActs'.refuse = preActs.refuse + 1
    BY <2>1, <2>2
  <2>6. /\ UNCHANGED <<allowed, plugged, stored, selection, echo, screen>>
        /\ permission' \in {"pending", "granted", "denied", "skipped"}
        /\ preActs' \in [pick : 0..MaxPicks, plug : 0..MaxUnplugs, refuse : 0..MaxRefusals]
        /\ preActs'.pick = preActs.pick /\ preActs'.plug = preActs.plug
        /\ preActs'.refuse \in {preActs.refuse, preActs.refuse + 1}
    BY <1>2, <1>3, <2>2
  <2>7. i \in 1..Len(acqs) /\ a \in Acq /\ acqs' = [acqs EXCEPT ![i] = a] /\ a.cancelled = acqs[i].cancelled
        /\ a.asked = acqs[i].asked
    BY <1>1, <2>1, <2>3
  <2> QED
    BY <2>4, <2>5, <2>6, <2>7, Answered
<1>5. CASE ~acqs[i].cancelled
  <2>1. PICK t \in Openable(Free) :
          LET actual == [k \in Kinds |-> IF t[k] = Off THEN selection[k] ELSE t[k]] IN
          /\ selection' = actual
          /\ stored' = actual
          /\ acqs' = IF actual = selection THEN OpenedWith(i, t)
                     ELSE Cleaned(OpenedWith(i, t)) \o Started(actual)
          /\ stream' = i
          /\ permission' = "granted"
    BY <1>5 DEF FallbackOpened
  <2> DEFINE actual == [k \in Kinds |-> IF t[k] = Off THEN selection[k] ELSE t[k]]
             a == [acqs[i] EXCEPT !.step = "done", !.tracks = t]
             q == [acqs EXCEPT ![i] = a]
  <2>2. /\ t \in Tracks
        /\ \A k \in Kinds : t[k] \in Devices \cup {Off}
        /\ \A k \in Kinds : k \notin allowed => t[k] = Off
        /\ \A k \in Kinds : k \in allowed => t[k] \in plugged[k]
    BY DEF Openable, Tracks
  <2>3. actual \in Choice
    BY <1>3, <2>2 DEF Choice
  <2>4. a \in Acq /\ a.cancelled = acqs[i].cancelled /\ a.asked = acqs[i].asked /\ a.step = "done" /\ a.tracks = t
    BY <1>1, <2>2, AcqFields DEF Acq
  <2>5. OpenedWith(i, t) = q
    BY <1>1 DEF OpenedWith
  <2>6. i = Len(acqs) /\ acqs # <<>>
    BY <1>5, OnlyLast
  <2>7. CASE actual = selection
    <3>1. acqs' = [acqs EXCEPT ![i] = a] /\ selection' = selection /\ stored' = selection /\ stream' = i
          /\ permission' = "granted"
      BY <2>1, <2>5, <2>7
    <3>2. \A k \in Kinds : t[k] # Off /\ selection[k] # Unchosen => t[k] = selection[k]
      BY <2>7
    <3> HIDE DEF a, actual, q
    <3>3. PreTypes' /\ AcqsOK' /\ FewAcqs'
      <4>1. /\ acqs' \in Seq(Acq) /\ Len(acqs') = Len(acqs)
            /\ \A j \in 1..Len(acqs) : acqs'[j] = IF j = i THEN a ELSE acqs[j]
        BY <1>1, <2>4, <3>1, AcqChanged
      <4>2. PreTypes'
        <5>1. stream' \in 0..Len(acqs')
          BY <1>1, <3>1, <4>1
        <5> QED
          BY <1>2, <1>3, <3>1, <4>1, <5>1 DEF PreInv, PreTypes
      <4>3. AcqsOK'
        <5>1. ASSUME NEW j \in 1..Len(acqs) PROVE AcqOK(acqs'[j], j, Len(acqs), selection, i, screen)
          <6>1. AcqOK(acqs[j], j, Len(acqs), selection, stream, screen)
            BY Contents
          <6>2. CASE j = i
            <7>1. acqs'[j] = a
              BY <4>1, <6>2
            <7> QED
              BY <1>5, <2>4, <3>2, <6>1, <6>2, <7>1 DEF AcqOK
          <6>3. CASE j # i
            <7>1. acqs'[j] = acqs[j] /\ acqs[j].tracks = NoTracks
              BY <2>6, <4>1, <6>3, OnlyLast
            <7> QED
              BY <6>1, <7>1 DEF AcqOK
          <6> QED
            BY <6>2, <6>3
        <5>2. \A j \in 1..Len(acqs') : AcqOK(acqs'[j], j, Len(acqs'), selection', stream', screen')
          BY <1>2, <3>1, <4>1, <5>1
        <5> QED
          BY <5>2, AcqsNext
      <4>4. FewAcqs'
        <5>1. acqs'[Len(acqs')].step = "done"
          BY <2>4, <2>6, <4>1
        <5>2. ~Falling'
          BY <5>1 DEF Falling
        <5>3. Openable(selection)' = Openable(selection)
          BY <1>2, <3>1 DEF Openable
        <5> QED
          BY <1>2, <4>1, <5>2, <5>3 DEF PreInv, FewAcqs
      <4> QED
        BY <4>2, <4>3, <4>4
    <3> QED
      BY <3>3 DEF PreInv
  <2>8. CASE actual # selection
    <3>1. allowed # {}
      <4> SUFFICES ASSUME allowed = {} PROVE actual = selection
        BY <2>8
      <4>1. \A k \in Kinds : t[k] = Off
        BY <2>2
      <4>2. selection \in [Kinds -> Devices \cup {Unchosen}]
        BY <1>3 DEF Choice
      <4> QED
        BY <4>1, <4>2
    <3>2. acqs' = Cleaned(q) \o Started(selection') /\ selection' = actual /\ stored' = actual /\ stream' = i
          /\ permission' = "granted"
      BY <2>1, <2>5, <2>8
    <3>3. t \in Openable(actual)
      <4>1. actual \in [Kinds -> Devices \cup {Unchosen}] /\ t \in [Kinds -> Devices \cup {Off}]
        BY <2>2, <2>3 DEF Choice, Tracks
      <4>2. ASSUME NEW k \in allowed PROVE t[k] \in plugged[k] /\ k \in Kinds /\ t[k] # Off
        <5>1. k \in Kinds
          BY <1>3
        <5>2. t[k] \in plugged[k] /\ plugged[k] \subseteq Devices
          BY <1>3, <2>2, <5>1
        <5> QED
          BY <5>1, <5>2, PreAssumption DEF PreAssumption, Off
      <4>3. \A k \in allowed : actual[k] = t[k]
        BY <4>2
      <4> HIDE DEF actual
      <4> QED
        BY <2>2, <4>1, <4>2, <4>3 DEF Openable
    <3>4. Openable(selection)' # {}
      BY <1>2, <3>2, <3>3 DEF Openable
    <3> HIDE DEF a, actual
    <3>5. /\ q \in Seq(Acq) /\ Len(q) = Len(acqs)
          /\ \A j \in 1..Len(acqs) : q[j] = IF j = i THEN a ELSE acqs[j]
      BY <1>1, <2>4, AcqChanged
    <3> HIDE DEF q
    <3>6. \A j \in 1..Len(q) : j # Len(q) => q[j].cancelled /\ q[j].tracks = NoTracks
      BY <2>6, <3>5, OnlyLast
    <3>7. screen = "shown"
      BY <1>1, <1>5 DEF AcqOK
    <3>8. Falling
      BY <1>2, <1>5, <2>6 DEF Falling
    <3>9. Len(acqs) <= preActs'.pick + preActs'.plug + preActs'.refuse
      BY <1>2, <3>8 DEF PreInv, FewAcqs
    <3>10. stream' \in 0..Len(acqs)
      BY <1>1, <3>2
    <3> QED
      BY <1>2, <1>3, <2>3, <3>1, <3>2, <3>4, <3>5, <3>6, <3>7, <3>9, <3>10, RunsAgain
  <2> QED
    BY <2>7, <2>8
<1> QED
  BY <1>4, <1>5

-----------------------------------------------------------------------------
(* The person                                                               *)

LEMMA CountedActs ==
  ASSUME PreInv
  PROVE  /\ PreCount("pick") /\ preActs.pick < MaxPicks =>
              /\ preActs' \in [pick : 0..MaxPicks, plug : 0..MaxUnplugs, refuse : 0..MaxRefusals]
              /\ preActs'.pick = preActs.pick + 1 /\ preActs'.plug = preActs.plug
              /\ preActs'.refuse = preActs.refuse
         /\ PreCount("plug") /\ preActs.plug < MaxUnplugs =>
              /\ preActs' \in [pick : 0..MaxPicks, plug : 0..MaxUnplugs, refuse : 0..MaxRefusals]
              /\ preActs'.pick = preActs.pick /\ preActs'.plug = preActs.plug + 1
              /\ preActs'.refuse = preActs.refuse
<1>1. preActs \in [pick : 0..MaxPicks, plug : 0..MaxUnplugs, refuse : 0..MaxRefusals]
  BY DEF PreInv, PreTypes
<1> QED
  BY <1>1 DEF PreCount

LEMMA PickKeeps ==
  ASSUME PreInv, NEW k \in Kinds, NEW d \in Devices, Pick(k, d)
  PROVE  PreInv'
<1>1. /\ screen = "shown" /\ k \in allowed /\ d \in plugged[k] /\ preActs.pick < MaxPicks /\ PreCount("pick")
      /\ stored' = [stored EXCEPT ![k] = d] /\ selection' = [selection EXCEPT ![k] = d]
      /\ acqs' = Cleaned(acqs) \o Started(selection')
      /\ UNCHANGED <<allowed, plugged, stream, permission, echo, screen>>
  BY DEF Pick
<1>2. /\ acqs \in Seq(Acq) /\ Len(acqs) \in Nat
      /\ preActs.pick \in Nat /\ preActs.plug \in Nat /\ preActs.refuse \in Nat
  BY Contents
<1>3. /\ preActs' \in [pick : 0..MaxPicks, plug : 0..MaxUnplugs, refuse : 0..MaxRefusals]
      /\ preActs'.pick = preActs.pick + 1 /\ preActs'.plug = preActs.plug
      /\ preActs'.refuse = preActs.refuse
  BY <1>1, CountedActs
<1>4. /\ selection \in [Kinds -> Devices \cup {Unchosen}] /\ stored \in [Kinds -> Devices \cup {Unchosen}]
      /\ stream \in 0..Len(acqs) /\ permission \in {"pending", "granted", "denied", "skipped"}
  BY DEF PreInv, PreTypes, Choice
<1>5. selection' \in Choice /\ stored' \in Choice
  BY <1>1, <1>4 DEF Choice
<1>6. FewAcqs
  BY DEF PreInv
<1>7. Len(acqs) <= preActs'.pick + preActs'.plug + preActs'.refuse
  BY <1>2, <1>3, <1>6 DEF FewAcqs
<1>8. Openable(selection)' = {} => Openable(selection) = {}
  <2> SUFFICES ASSUME NEW t \in Openable(selection) PROVE Openable(selection)' # {}
    OBVIOUS
  <2> DEFINE u == [t EXCEPT ![k] = d]
  <2>1. t \in [Kinds -> Devices \cup {Off}]
    BY DEF Openable
  <2>2. u \in [Kinds -> Devices \cup {Off}] /\ \A x \in Kinds : u[x] = IF x = k THEN d ELSE t[x]
    BY <2>1
  <2>3. \A x \in Kinds : selection'[x] = IF x = k THEN d ELSE selection[x]
    BY <1>1, <1>4
  <2>4. \A x \in Kinds : IF x \notin allowed THEN u[x] = Off
                         ELSE u[x] \in plugged[x] /\ (selection'[x] # Unchosen => u[x] = selection'[x])
    BY <1>1, <2>2, <2>3 DEF Openable
  <2> HIDE DEF u
  <2>5. u \in Openable(selection)'
    BY <1>1, <2>2, <2>4 DEF Openable
  <2> QED
    BY <2>5
<1>9. Openable(selection)' = {} => Len(acqs) + 1 <= preActs'.pick + preActs'.plug + preActs'.refuse
  BY <1>2, <1>3, <1>6, <1>8, SMTT(30) DEF FewAcqs
<1>10. \A j \in 1..Len(acqs) : j # Len(acqs) => acqs[j].cancelled /\ acqs[j].tracks = NoTracks
  BY OnlyLast
<1> QED
  BY <1>1, <1>2, <1>3, <1>4, <1>5, <1>7, <1>9, <1>10, RunsAgain

\* What is on stays as it is or goes off.
LEMMA UnplugKeeps ==
  ASSUME PreInv, NEW k \in Kinds, NEW d \in Devices, Unplug(k, d)
  PROVE  PreInv'
<1> DEFINE f(j) == IF acqs[j].tracks[k] = d THEN [acqs[j] EXCEPT !.tracks[k] = Off] ELSE acqs[j]
<1>1. /\ preActs.plug < MaxUnplugs /\ PreCount("plug")
      /\ plugged' = [plugged EXCEPT ![k] = IF d \in @ THEN @ \ {d} ELSE @ \cup {d}]
      /\ acqs' = [j \in DOMAIN acqs |-> f(j)]
      /\ UNCHANGED <<allowed, stored, selection, stream, permission, echo, screen>>
  BY DEF Unplug
<1>2. /\ acqs \in Seq(Acq) /\ Len(acqs) \in Nat /\ DOMAIN acqs = 1..Len(acqs)
      /\ \A j \in 1..Len(acqs) : acqs[j] \in Acq /\ acqs[j].tracks \in Tracks
      /\ preActs.pick \in Nat /\ preActs.plug \in Nat /\ preActs.refuse \in Nat
  BY Contents, AcqFields
<1>3. \A j \in 1..Len(acqs) :
        /\ f(j) \in Acq /\ f(j).cancelled = acqs[j].cancelled /\ f(j).step = acqs[j].step /\ f(j).asked = acqs[j].asked
        /\ f(j).tracks \in Tracks
        /\ \A x \in Kinds : f(j).tracks[x] \in {acqs[j].tracks[x], Off}
  <2> SUFFICES ASSUME NEW j \in 1..Len(acqs)
               PROVE  /\ f(j) \in Acq /\ f(j).cancelled = acqs[j].cancelled /\ f(j).step = acqs[j].step
                      /\ f(j).asked = acqs[j].asked /\ f(j).tracks \in Tracks
                      /\ \A x \in Kinds : f(j).tracks[x] \in {acqs[j].tracks[x], Off}
    OBVIOUS
  <2>1. CASE acqs[j].tracks[k] = d
    <3> DEFINE t == [acqs[j].tracks EXCEPT ![k] = Off]
    <3>1. t \in Tracks /\ \A x \in Kinds : t[x] \in {acqs[j].tracks[x], Off}
      BY <1>2 DEF Tracks
    <3>2. f(j) = [acqs[j] EXCEPT !.tracks = t]
      BY <1>2, <2>1
    <3> HIDE DEF t, f
    <3>5. acqs[j] \in Acq
      BY <1>2
    <3>3. f(j) \in Acq
      BY <3>1, <3>2, <3>5 DEF Acq, Tracks
    <3>4. /\ f(j).cancelled = acqs[j].cancelled /\ f(j).step = acqs[j].step
          /\ f(j).asked = acqs[j].asked /\ f(j).tracks = t
      BY <1>2, <3>2 DEF Acq
    <3> QED
      BY <3>1, <3>3, <3>4
  <2>2. CASE acqs[j].tracks[k] # d
    BY <1>2, <2>2
  <2> QED
    BY <2>1, <2>2
<1> HIDE DEF f
<1>4. /\ acqs' \in Seq(Acq) /\ Len(acqs') = Len(acqs)
      /\ \A j \in 1..Len(acqs) : acqs'[j] = f(j)
  <2>1. acqs' = [j \in 1..Len(acqs) |-> f(j)]
    BY <1>1, <1>2
  <2>2. acqs' \in [1..Len(acqs) -> Acq]
    BY <1>3, <2>1
  <2> QED
    BY <1>2, <2>1, <2>2, SeqDef, LenProperties
<1>5. /\ preActs' \in [pick : 0..MaxPicks, plug : 0..MaxUnplugs, refuse : 0..MaxRefusals]
      /\ preActs'.pick = preActs.pick /\ preActs'.plug = preActs.plug + 1
      /\ preActs'.refuse = preActs.refuse
  BY <1>1, CountedActs
<1>6. PreTypes'
  <2>1. plugged' \in [Kinds -> SUBSET Devices]
    BY <1>1 DEF PreInv, PreTypes
  <2> QED
    BY <1>1, <1>4, <1>5, <2>1 DEF PreInv, PreTypes
<1>7. AcqsOK'
  <2>1. ASSUME NEW j \in 1..Len(acqs) PROVE AcqOK(f(j), j, Len(acqs), selection, stream, screen)
    <3>1. AcqOK(acqs[j], j, Len(acqs), selection, stream, screen)
      BY Contents
    <3>2. acqs[j].tracks = NoTracks => f(j).tracks = NoTracks
      BY <1>3 DEF NoTracks, Tracks
    <3> QED
      BY <1>3, <3>1, <3>2 DEF AcqOK
  <2>2. \A j \in 1..Len(acqs') : AcqOK(acqs'[j], j, Len(acqs'), selection', stream', screen')
    BY <1>1, <1>4, <2>1
  <2> QED
    BY <2>2, AcqsNext
<1>8. FewAcqs'
  <2>1. Len(acqs) <= 1 + preActs.pick + preActs.plug + preActs.refuse
    BY DEF PreInv, FewAcqs
  <2>2. /\ Len(acqs') = Len(acqs) /\ preActs'.pick = preActs.pick /\ preActs'.plug = preActs.plug + 1
        /\ preActs'.refuse = preActs.refuse
    BY <1>4, <1>5
  <2>3. Len(acqs') <= preActs'.pick + preActs'.plug + preActs'.refuse
    BY <1>2, <2>1, <2>2
  <2>4. Len(acqs') <= 1 + preActs'.pick + preActs'.plug + preActs'.refuse
    BY <1>2, <2>1, <2>2
  <2> QED
    BY <2>3, <2>4 DEF FewAcqs
<1> QED
  BY <1>6, <1>7, <1>8 DEF PreInv

LEMMA LeaveKeeps ==
  ASSUME PreInv, NEW s \in {"joined", "left"}, Leave(s)
  PROVE  PreInv'
<1>1. /\ screen' = s /\ acqs' = Cleaned(acqs)
      /\ UNCHANGED <<allowed, plugged, stored, selection, stream, permission, echo, preActs>>
  BY DEF Leave
<1>2. acqs \in Seq(Acq) /\ Len(acqs) \in Nat
  BY Contents
<1>3. /\ acqs' \in Seq(Acq) /\ Len(acqs') = Len(acqs)
      /\ \A j \in 1..Len(acqs) : j # Len(acqs) => acqs'[j] = acqs[j]
      /\ \A j \in 1..Len(acqs) : j = Len(acqs) =>
              /\ acqs'[j].cancelled = TRUE /\ acqs'[j].tracks = NoTracks
              /\ acqs'[j].asked = acqs[j].asked /\ acqs'[j].step = acqs[j].step
  BY <1>1, <1>2, Cleaning
<1>4. PreTypes'
  BY <1>1, <1>3 DEF PreInv, PreTypes
<1>5. AcqsOK'
  <2>1. ASSUME NEW j \in 1..Len(acqs) PROVE AcqOK(acqs'[j], j, Len(acqs), selection, stream, s)
    <3>1. AcqOK(acqs[j], j, Len(acqs), selection, stream, screen)
      BY Contents
    <3>2. CASE j = Len(acqs)
      BY <1>3, <3>1, <3>2, NoTracksOff DEF AcqOK
    <3>3. CASE j # Len(acqs)
      <4>1. acqs'[j] = acqs[j] /\ acqs[j].cancelled /\ acqs[j].tracks = NoTracks
        BY <1>3, <3>3, OnlyLast
      <4> QED
        BY <3>1, <4>1 DEF AcqOK
    <3> QED
      BY <3>2, <3>3
  <2>2. \A j \in 1..Len(acqs') : AcqOK(acqs'[j], j, Len(acqs'), selection', stream', screen')
    BY <1>1, <1>3, <2>1
  <2> QED
    BY <2>2, AcqsNext
<1>6. FewAcqs'
  <2>1. ~Falling'
    <3> SUFFICES ASSUME acqs' # <<>> PROVE acqs'[Len(acqs')].cancelled
      BY DEF Falling
    <3>1. Len(acqs') # 0
      BY <1>3, NoneLeft
    <3>2. Len(acqs) \in 1..Len(acqs)
      BY <1>2, <1>3, <3>1
    <3> QED
      BY <1>3, <3>2
  <2>2. Openable(selection)' = Openable(selection)
    BY <1>1 DEF Openable
  <2> QED
    BY <1>1, <1>3, <2>1, <2>2 DEF PreInv, FewAcqs
<1> QED
  BY <1>4, <1>5, <1>6 DEF PreInv

LEMMA EchoKeeps ==
  ASSUME PreInv, RunEchoTest \/ EchoRecorded \/ EchoPlayed \/ UNCHANGED preVars
  PROVE  PreInv'
<1>1. /\ UNCHANGED <<allowed, plugged, stored, selection, acqs, stream, permission, screen, preActs>>
      /\ echo' \in {"idle", "recording", "playing", "verdict"}
  BY DEF PreInv, PreTypes, RunEchoTest, EchoRecorded, EchoPlayed, preVars
<1>2. PreTypes'
  BY <1>1 DEF PreInv, PreTypes
<1>3. AcqsOK'
  BY <1>1, AcqsNext DEF PreInv, AcqsOK
<1>4. FewAcqs'
  <2>1. Openable(selection)' = Openable(selection) /\ Falling' = Falling
    BY <1>1 DEF Openable, Falling
  <2> QED
    BY <1>1, <2>1 DEF PreInv, FewAcqs
<1> QED
  BY <1>2, <1>3, <1>4 DEF PreInv

LEMMA PreInvStep == PreInv /\ [PreNext]_preVars => PreInv'
<1> SUFFICES ASSUME PreInv, [PreNext]_preVars PROVE PreInv'
  OBVIOUS
<1>1. ASSUME NEW i \in DOMAIN acqs, ExactOpened(i) PROVE PreInv'
  BY <1>1, ExactOpenedKeeps
<1>2. ASSUME NEW i \in DOMAIN acqs, ExactFailed(i) PROVE PreInv'
  BY <1>2, ExactFailedKeeps
<1>3. ASSUME NEW i \in DOMAIN acqs, FallbackOpened(i) PROVE PreInv'
  BY <1>3, FallbackOpenedKeeps
<1>4. ASSUME NEW i \in DOMAIN acqs, FallbackFailed(i) PROVE PreInv'
  BY <1>4, FallbackFailedKeeps
<1>5. ASSUME NEW k \in Kinds, NEW d \in Devices, Pick(k, d) PROVE PreInv'
  BY <1>5, PickKeeps
<1>6. ASSUME NEW k \in Kinds, NEW d \in Devices, Unplug(k, d) PROVE PreInv'
  BY <1>6, UnplugKeeps
<1>7. ASSUME NEW s \in {"joined", "left"}, Leave(s) PROVE PreInv'
  BY <1>7, LeaveKeeps
<1>8. CASE RunEchoTest \/ EchoRecorded \/ EchoPlayed \/ UNCHANGED preVars
  BY <1>8, EchoKeeps
<1> QED
  BY <1>1, <1>2, <1>3, <1>4, <1>5, <1>6, <1>7, <1>8 DEF PreNext

LEMMA PreInvAlways == PreSpec => []PreInv
BY PreInvInit, PreInvStep, PTL DEF PreSpec

LEMMA PreTypesGive == PreInv => PreTypeOK
<1> SUFFICES ASSUME PreInv PROVE PreTypeOK
  OBVIOUS
<1>1. /\ Len(acqs) \in Nat /\ DOMAIN acqs = 1..Len(acqs) /\ \A i \in 1..Len(acqs) : acqs[i] \in Acq
      /\ preActs.pick \in 0..MaxPicks /\ preActs.plug \in 0..MaxUnplugs /\ preActs.refuse \in 0..MaxRefusals
  BY Contents DEF PreInv, PreTypes
<1>2. Len(acqs) <= 1 + preActs.pick + preActs.plug + preActs.refuse
  BY DEF PreInv, FewAcqs
<1>3. Len(acqs) <= MaxAcqs
  BY <1>1, <1>2 DEF MaxAcqs
<1> QED
  BY <1>1, <1>3 DEF PreInv, PreTypes, PreTypeOK

\* The device check keeps its types: a run of the effect for each choice, refusal or device unplugged at
\* most, however many fallbacks they bring (PreJoin).
THEOREM PreTypeCorrect == PreSpec => []PreTypeOK
<1> QED
  BY PreTypesGive, PreInvAlways, PTL

\* However late the browser opens a device and whatever is picked, unplugged, refused or left meanwhile,
\* only the preview being shown is on, and it is of the devices selected (PreJoinScreen's acquire and its
\* clean-up, PreJoin).
THEOREM PreviewIsOnly == PreSpec => []OnlyThePreview
<1>1. PreInv => NoDeviceLeftOn
  <2> SUFFICES ASSUME PreInv, NEW i \in DOMAIN acqs, acqs[i].tracks # NoTracks
               PROVE  screen = "shown" /\ i = Len(acqs) /\ i = stream
    BY DEF NoDeviceLeftOn
  <2>1. i \in 1..Len(acqs) /\ AcqOK(acqs[i], i, Len(acqs), selection, stream, screen)
    BY Contents
  <2>2. ~acqs[i].cancelled
    BY <2>1 DEF AcqOK
  <2> QED
    BY <2>1, <2>2, OnlyLast DEF AcqOK
<1>2. PreInv => PreviewIsSelection
  <2> SUFFICES ASSUME PreInv, stream # 0, NEW k \in allowed,
                      acqs[stream].tracks[k] # Off, selection[k] # Unchosen
               PROVE  acqs[stream].tracks[k] = selection[k]
    BY DEF PreviewIsSelection
  <2>1. stream \in 1..Len(acqs) /\ k \in Kinds
    BY Contents DEF PreInv, PreTypes
  <2>2. AcqOK(acqs[stream], stream, Len(acqs), selection, stream, screen)
    BY <2>1, Contents
  <2> QED
    BY <2>1, <2>2 DEF AcqOK
<1>3. PreInv => OnlyThePreview
  BY <1>1, <1>2 DEF OnlyThePreview
<1> QED
  BY <1>3, PreInvAlways, PTL

HIDE PreAssumption DEF PreAssumption

-----------------------------------------------------------------------------
(***************************************************************************)
(* THE WHITEBOARD                                                          *)
(*                                                                         *)
(* A panel that stays open keeps what it shows.                            *)
(***************************************************************************)

USE BoardAssumption DEF BoardAssumption

\* A save on its way carries one scene.
Puts == {{}} \cup {{s} : s \in SUBSET Edits}

LEMMA PutsAreOne ==
  \A x \in Puts : x \subseteq SUBSET Edits /\ Cardinality(x) <= 1
<1> SUFFICES ASSUME NEW x \in Puts PROVE x \subseteq SUBSET Edits /\ Cardinality(x) <= 1
  OBVIOUS
<1>1. CASE x = {}
  BY <1>1, FS_EmptySet
<1>2. ASSUME NEW s \in SUBSET Edits, x = {s} PROVE x \subseteq SUBSET Edits /\ Cardinality(x) <= 1
  BY <1>2, FS_Singleton
<1> QED
  BY <1>1, <1>2 DEF Puts

BoardCounts == switches \in 0..MaxSwitches /\ mishaps \in 0..MaxMishaps

BoardSorts ==
  /\ boardOpen \in BOOLEAN
  /\ saved \subseteq Edits
  /\ panel \in [Clients -> BOOLEAN]
  /\ poll \in [Clients -> {{}, {TRUE}, {FALSE}}]
  /\ scene \in [Clients -> SUBSET Edits]
  /\ api \in [Clients -> BOOLEAN]
  /\ load \in [Clients -> {"none", "sent", "read", "former"}]
  /\ answer \in [Clients -> SUBSET Edits]
  /\ inbound \in [Clients -> SUBSET Edits]
  /\ pending \in [Drawers -> SUBSET Edits]
  /\ sent \in [Drawers -> SUBSET Edits]
  /\ saveTimer \in [Drawers -> BOOLEAN]
  /\ put \in [Drawers -> Puts]
  /\ overdue \in [Drawers -> BOOLEAN]
  /\ saveFailed \in [Drawers -> BOOLEAN]
  /\ drawn \subseteq Edits

BoardTypes == BoardCounts /\ BoardSorts

LEMMA BoardTypesGive == BoardTypes => BoardTypeOK
BY PutsAreOne DEF BoardTypes, BoardCounts, BoardSorts, BoardTypeOK

LEMMA BoardTypesInit == BoardInit => BoardTypes
<1> SUFFICES ASSUME BoardInit PROVE BoardTypes
  OBVIOUS
<1>1. BoardCounts
  BY DEF BoardInit, BoardCounts
<1>2. {} \in Puts
  BY DEF Puts
<1>3. BoardSorts
  BY <1>2 DEF BoardInit, BoardSorts
<1> QED
  BY <1>1, <1>3 DEF BoardTypes

LEMMA BoardCountsStep == BoardCounts /\ [BoardNext]_boardVars => BoardCounts'
<1> SUFFICES ASSUME BoardCounts, [BoardNext]_boardVars PROVE BoardCounts'
  OBVIOUS
<1>1. \/ switches' = switches + 1 /\ switches < MaxSwitches
      \/ switches' = switches
  BY DEF BoardNext, boardBounds, boardVars, OpenBoard, CloseBoard, AskState, ShowState, Resync, Reconnected,
         ReadSnapshot, ApplySnapshot, FormerLoaded, Draw, Broadcast, Deliver, MaxWaitPasses, FlushSave,
         SaveFails, SaveDone, Remount
<1>2. \/ mishaps' = mishaps + 1 /\ mishaps < MaxMishaps
      \/ mishaps' = mishaps
  BY DEF BoardNext, boardBounds, boardVars, OpenBoard, CloseBoard, AskState, ShowState, Resync, Reconnected,
         ReadSnapshot, ApplySnapshot, FormerLoaded, Draw, Broadcast, Deliver, MaxWaitPasses, FlushSave,
         SaveFails, SaveDone, Remount, Mishap
<1> QED
  BY <1>1, <1>2 DEF BoardCounts

\* Hiding a panel keeps the types.
LEMMA HideSorts ==
  ASSUME BoardSorts, NEW c \in Clients, Hide(c)
  PROVE  /\ panel' \in [Clients -> BOOLEAN]
         /\ scene' \in [Clients -> SUBSET Edits]
         /\ load' \in [Clients -> {"none", "sent", "read", "former"}]
         /\ answer' \in [Clients -> SUBSET Edits]
BY DEF BoardSorts, Hide

\* So does a change of a scene.
LEMMA ChangedSorts ==
  ASSUME BoardSorts, NEW c \in Clients, NEW new \in SUBSET Edits, Changed(c, new)
  PROVE  /\ scene' \in [Clients -> SUBSET Edits]
         /\ pending' \in [Drawers -> SUBSET Edits]
         /\ saveTimer' \in [Drawers -> BOOLEAN]
<1>1. saveTimer' \in [Drawers -> BOOLEAN]
  BY Zenon DEF Changed
<1> QED
  BY <1>1 DEF BoardSorts, Changed

LEMMA BoardSortsStep == BoardSorts /\ [BoardNext]_boardVars => BoardSorts'
<1> SUFFICES ASSUME BoardSorts, [BoardNext]_boardVars PROVE BoardSorts'
  OBVIOUS
<1> USE DEF boardServer, boardPanel, boardLoad, boardSave, boardBounds
<1>0. /\ \A m \in Drawers : m \in Clients
      /\ {} \in Puts
  BY DEF Clients, Puts
<1>1. CASE OpenBoard
  BY <1>1 DEF BoardSorts, OpenBoard
<1>2. ASSUME NEW m \in Drawers, CloseBoard(m) PROVE BoardSorts'
  <2>1. Hide(m)
    BY <1>2 DEF CloseBoard
  <2>2. /\ boardOpen' = FALSE
        /\ UNCHANGED <<saved, poll, api, inbound, pending, sent, saveTimer, put, overdue, saveFailed, drawn>>
    BY <1>2 DEF CloseBoard
  <2> QED
    BY <1>0, <2>1, <2>2, HideSorts DEF BoardSorts
<1>3. ASSUME NEW c \in Clients, AskState(c) PROVE BoardSorts'
  BY <1>3 DEF BoardSorts, AskState
<1>4. ASSUME NEW c \in Clients, ShowState(c) PROVE BoardSorts'
  <2>1. /\ poll' = [poll EXCEPT ![c] = {}]
        /\ UNCHANGED <<boardOpen, saved, inbound, sent, put, overdue, saveFailed, drawn>>
    BY <1>4 DEF ShowState
  <2>2. poll' \in [Clients -> {{}, {TRUE}, {FALSE}}]
    BY <2>1 DEF BoardSorts
  <2>3. CASE Hide(c) /\ UNCHANGED <<api, pending, saveTimer>>
    BY <2>1, <2>2, <2>3, HideSorts DEF BoardSorts
  <2>4. CASE UNCHANGED <<panel, api, scene, boardLoad, pending, saveTimer>>
    BY <2>1, <2>2, <2>4 DEF BoardSorts
  <2>5. CASE /\ panel' = [panel EXCEPT ![c] = TRUE]
             /\ api' = [api EXCEPT ![c] = TRUE]
             /\ \E l \in {"sent"} \cup {x \in {"former"} : api[c]} : load' = [load EXCEPT ![c] = l]
             /\ pending' = [m \in Drawers |-> IF m = c THEN {} ELSE pending[m]]
             /\ saveTimer' = [m \in Drawers |-> m = c \/ saveTimer[m]]
             /\ UNCHANGED <<scene, answer>>
    <3>1. saveTimer' \in [Drawers -> BOOLEAN]
      BY <2>5, Zenon
    <3>2. panel' \in [Clients -> BOOLEAN] /\ api' \in [Clients -> BOOLEAN]
      BY <2>5 DEF BoardSorts
    <3>3. PICK l \in {"sent", "former"} : load' = [load EXCEPT ![c] = l]
      BY <2>5
    <3>4. load' \in [Clients -> {"none", "sent", "read", "former"}]
      BY <3>3 DEF BoardSorts
    <3>5. pending' \in [Drawers -> SUBSET Edits]
      BY <2>5 DEF BoardSorts
    <3> QED
      BY <2>1, <2>2, <2>5, <3>1, <3>2, <3>4, <3>5 DEF BoardSorts
  <2> QED
    BY <1>4, <2>3, <2>4, <2>5, Zenon DEF ShowState
<1>5. ASSUME NEW c \in Clients, Resync(c) PROVE BoardSorts'
  BY <1>5 DEF BoardSorts, Resync
<1>6. ASSUME NEW c \in Clients, Reconnected(c) PROVE BoardSorts'
  <2>1. /\ load' = [load EXCEPT ![c] = "sent"] /\ inbound' = [inbound EXCEPT ![c] = {}]
        /\ UNCHANGED <<boardServer, boardPanel, scene, answer, pending, sent, boardSave, drawn>>
    BY <1>6 DEF Reconnected
  <2> QED
    BY <2>1 DEF BoardSorts
<1>7. ASSUME NEW c \in Clients, ReadSnapshot(c) PROVE BoardSorts'
  BY <1>7 DEF BoardSorts, ReadSnapshot
<1>8. ASSUME NEW c \in Clients, ApplySnapshot(c) PROVE BoardSorts'
  <2>1. Changed(c, scene[c] \cup answer[c]) /\ scene[c] \cup answer[c] \in SUBSET Edits
    BY <1>8 DEF ApplySnapshot, Merged, Reconciled, BoardSorts
  <2>2. /\ scene' \in [Clients -> SUBSET Edits]
        /\ pending' \in [Drawers -> SUBSET Edits]
        /\ saveTimer' \in [Drawers -> BOOLEAN]
    BY <2>1, ChangedSorts
  <2>3. /\ load' = [load EXCEPT ![c] = "none"] /\ answer' = [answer EXCEPT ![c] = {}]
        /\ sent' = [m \in Drawers |-> IF m = c THEN scene'[c] ELSE sent[m]]
        /\ UNCHANGED <<boardServer, boardPanel, inbound, put, overdue, saveFailed, drawn>>
    BY <1>8 DEF ApplySnapshot
  <2> QED
    BY <2>2, <2>3 DEF BoardSorts
<1>9. ASSUME NEW c \in Clients, FormerLoaded(c) PROVE BoardSorts'
  BY <1>9 DEF BoardSorts, FormerLoaded
<1>10. ASSUME NEW m \in Drawers, NEW e \in Edits, Draw(m, e) PROVE BoardSorts'
  <2>1. Changed(m, scene[m] \cup {e}) /\ scene[m] \cup {e} \in SUBSET Edits
    BY <1>0, <1>10 DEF Draw, BoardSorts
  <2>2. /\ scene' \in [Clients -> SUBSET Edits]
        /\ pending' \in [Drawers -> SUBSET Edits]
        /\ saveTimer' \in [Drawers -> BOOLEAN]
    BY <1>0, <2>1, ChangedSorts
  <2> QED
    BY <1>10, <2>2 DEF Draw, BoardSorts
<1>11. ASSUME NEW m \in Drawers, Broadcast(m) PROVE BoardSorts'
  BY <1>0, <1>11 DEF BoardSorts, Broadcast
<1>12. ASSUME NEW c \in Clients, NEW e \in Edits, Deliver(c, e) PROVE BoardSorts'
  <2>1. /\ inbound' = [inbound EXCEPT ![c] = @ \ {e}]
        /\ UNCHANGED <<boardServer, boardPanel, boardLoad, sent, put, overdue, saveFailed, drawn>>
    BY <1>12 DEF Deliver
  <2>2. /\ scene' \in [Clients -> SUBSET Edits]
        /\ pending' \in [Drawers -> SUBSET Edits]
        /\ saveTimer' \in [Drawers -> BOOLEAN]
    <3>1. CASE panel[c]
      <4>1. Changed(c, scene[c] \cup {e}) /\ scene[c] \cup {e} \in SUBSET Edits
        BY <1>12, <3>1 DEF Deliver, Merged, Reconciled, BoardSorts
      <4> QED
        BY <4>1, ChangedSorts
    <3>2. CASE ~panel[c]
      BY <1>12, <3>2 DEF Deliver, BoardSorts
    <3> QED
      BY <3>1, <3>2
  <2> QED
    BY <2>1, <2>2 DEF BoardSorts
<1>13. ASSUME NEW m \in Drawers, MaxWaitPasses(m) PROVE BoardSorts'
  BY <1>13 DEF BoardSorts, MaxWaitPasses
<1>14. ASSUME NEW m \in Drawers, FlushSave(m) PROVE BoardSorts'
  <2>1. {pending[m]} \in Puts
    BY DEF Puts, BoardSorts
  <2> QED
    BY <1>14, <2>1 DEF BoardSorts, FlushSave
<1>15. ASSUME NEW m \in Drawers, SaveFails(m) PROVE BoardSorts'
  <2>1. /\ put' = [put EXCEPT ![m] = {}] /\ saveFailed' = [saveFailed EXCEPT ![m] = TRUE]
        /\ UNCHANGED <<boardServer, boardPanel, scene, boardLoad, inbound, pending, sent, saveTimer, overdue, drawn>>
    BY <1>15 DEF SaveFails
  <2> QED
    BY <1>0, <2>1 DEF BoardSorts
<1>16. ASSUME NEW m \in Drawers, SaveDone(m) PROVE BoardSorts'
  <2>1. \A x \in put[m] : x \subseteq Edits
    BY PutsAreOne DEF BoardSorts
  <2> QED
    BY <1>0, <1>16, <2>1 DEF BoardSorts, SaveDone
<1>17. ASSUME NEW c \in Clients, Remount(c) PROVE BoardSorts'
  <2>1. /\ Hide(c)
        /\ poll' = [poll EXCEPT ![c] = {}]
        /\ api' = [api EXCEPT ![c] = FALSE]
        /\ inbound' = [inbound EXCEPT ![c] = {}]
        /\ UNCHANGED <<boardServer, put, drawn>>
    BY <1>17 DEF Remount
  <2>2. /\ pending' = [m \in Drawers |-> IF m = c THEN {} ELSE pending[m]]
        /\ sent' = [m \in Drawers |-> IF m = c THEN {} ELSE sent[m]]
    BY <1>17 DEF Remount
  <2>3. saveTimer' \in [Drawers -> BOOLEAN]
    <3>1. saveTimer' = [m \in Drawers |-> m # c /\ saveTimer[m]]
      BY <1>17 DEF Remount
    <3> QED
      BY <3>1, Zenon
  <2>4. overdue' \in [Drawers -> BOOLEAN] /\ saveFailed' \in [Drawers -> BOOLEAN]
    <3>1. /\ overdue' = [m \in Drawers |-> IF m = c THEN FALSE ELSE overdue[m]]
          /\ saveFailed' = [m \in Drawers |-> IF m = c THEN FALSE ELSE saveFailed[m]]
      BY <1>17 DEF Remount
    <3> QED
      BY <3>1 DEF BoardSorts
  <2> QED
    BY <2>1, <2>2, <2>3, <2>4, HideSorts DEF BoardSorts
<1>18. CASE UNCHANGED boardVars
  BY <1>18 DEF BoardSorts, boardVars
<1> QED
  BY <1>1, <1>2, <1>3, <1>4, <1>5, <1>6, <1>7, <1>8, <1>9, <1>10, <1>11, <1>12, <1>13, <1>14,
     <1>15, <1>16, <1>17, <1>18 DEF BoardNext

LEMMA BoardTypesStep == BoardTypes /\ [BoardNext]_boardVars => BoardTypes'
BY BoardCountsStep, BoardSortsStep DEF BoardTypes

\* Every variable of the whiteboard keeps its type: openings, edits, saves and mishaps stay within
\* their bounds, and a save on its way carries one scene (Whiteboard.tsx, whiteboard.service.ts).
THEOREM BoardTypeCorrect == BoardSpec => []BoardTypeOK
<1> QED
  BY BoardTypesInit, BoardTypesStep, BoardTypesGive, PTL DEF BoardSpec

\* What a step does to the scene of a panel that stays open.
LEMMA ScenesGrow ==
  BoardTypes /\ [BoardNext]_boardVars =>
    \A c \in Clients : panel[c] /\ panel'[c] => scene[c] \subseteq scene'[c]
<1> SUFFICES ASSUME BoardTypes, [BoardNext]_boardVars, NEW d \in Clients, panel[d], panel'[d]
             PROVE  scene[d] \subseteq scene'[d]
  OBVIOUS
<1> USE DEF boardServer, boardPanel
<1>0. panel \in [Clients -> BOOLEAN] /\ scene \in [Clients -> SUBSET Edits]
  BY DEF BoardTypes, BoardSorts
<1>1. ASSUME NEW c \in Clients, Hide(c) PROVE d # c /\ scene'[d] = scene[d]
  BY <1>0, <1>1 DEF Hide
<1>2. ASSUME NEW c \in Clients, NEW new, scene[c] \subseteq new, Changed(c, new)
      PROVE  scene[d] \subseteq scene'[d]
  BY <1>0, <1>2 DEF Changed
<1>3. CASE \E m \in Drawers : CloseBoard(m)
  BY <1>1, <1>3 DEF CloseBoard, Clients
<1>4. CASE \E c \in Clients : ShowState(c)
  BY <1>1, <1>4 DEF ShowState
<1>5. CASE \E c \in Clients : Remount(c)
  BY <1>1, <1>5 DEF Remount
<1>6. CASE \E c \in Clients : ApplySnapshot(c)
  BY <1>2, <1>6 DEF ApplySnapshot, Merged, Reconciled
<1>7. CASE \E c \in Clients, e \in Edits : Deliver(c, e)
  BY <1>2, <1>7 DEF Deliver, Merged, Reconciled
<1>8. CASE \E m \in Drawers, e \in Edits : Draw(m, e)
  BY <1>2, <1>8 DEF Draw, Clients
<1>9. CASE \/ OpenBoard
           \/ \E c \in Clients : AskState(c) \/ Resync(c) \/ Reconnected(c) \/ ReadSnapshot(c) \/ FormerLoaded(c)
           \/ \E m \in Drawers : Broadcast(m) \/ MaxWaitPasses(m) \/ FlushSave(m) \/ SaveFails(m) \/ SaveDone(m)
           \/ UNCHANGED boardVars
  <2>1. UNCHANGED scene
    BY <1>9 DEF OpenBoard, AskState, Resync, Reconnected, ReadSnapshot, FormerLoaded, Broadcast,
                MaxWaitPasses, FlushSave, SaveFails, SaveDone, boardVars
  <2> QED
    BY <2>1
<1> QED
  BY <1>3, <1>4, <1>5, <1>6, <1>7, <1>8, <1>9 DEF BoardNext

\* A panel that stays open never loses an edit, whatever snapshots, messages, saves and reloads cross
\* each other, for any number of moderators, watchers and edits: loadSnapshot and handleData reconcile.
THEOREM OpenPanelsKeepAll == BoardSpec => NothingFades
<1>1. BoardTypes /\ [BoardNext]_boardVars =>
        [\A c \in Clients : panel[c] /\ panel'[c] => scene[c] \subseteq scene'[c]]_boardVars
  BY ScenesGrow
<1> QED
  BY <1>1, BoardTypesInit, BoardTypesStep, PTL DEF BoardSpec, NothingFades

HIDE BoardAssumption DEF BoardAssumption

-----------------------------------------------------------------------------
(***************************************************************************)
(* THE LISTS                                                               *)
(*                                                                         *)
(* The results of a search are those of the latest query; a list shows the *)
(* rows of the server once every request of the person is answered.        *)
(***************************************************************************)

USE ListAssumption DEF ListAssumption

SearchTypes ==
  /\ query \in 0..MaxQueries
  /\ searches \in [1..MaxQueries -> {"none", "waits", "sent", "cancelled"}]
  /\ resultsOf \in 0..MaxQueries

\* Only the request for what is typed now may still change the results.
OnlyTheLatest == \A n \in 1..MaxQueries : searches[n] \in {"waits", "sent"} => n = query

SearchInv == SearchTypes /\ OnlyTheLatest

\* What the lists do leaves the searches alone.
ListsOnly ==
  \/ HomeLoad \/ AttendanceLoad \/ BadgeRefresh \/ StatusPoll \/ Imported
  \/ \E n \in DOMAIN loads : ListAnswered(n)
  \/ \E i \in Items, v \in 0..2 : OthersChange(i, v)
  \/ \E i \in Items :
       \/ HandleDeleteRoom(i) \/ HandleDeleteSession(i) \/ HandleEnroll(i) \/ HandleUnenroll(i)
       \/ HandleRoleChange(i) \/ HandleToggleActive(i) \/ HandleDeleteUser(i) \/ HandleCreateUser(i)
       \/ HandleDeleteRecording(i) \/ ServerActs(i) \/ ServerAnswered(i) \/ ToggleRecording(i)
  \/ \E v \in {"enrollments", "users"} : HandleImportFile(v)

LEMMA ListsSpareSearches == ListsOnly => UNCHANGED searchVars
BY DEF ListsOnly, HomeLoad, AttendanceLoad, BadgeRefresh, StatusPoll, Ask, Imported, ListAnswered, OthersChange,
       HandleDeleteRoom, HandleDeleteSession, HandleEnroll, HandleUnenroll, HandleRoleChange, HandleToggleActive,
       HandleDeleteUser, HandleCreateUser, HandleDeleteRecording, ClickOn, ServerActs, ServerAnswered,
       ToggleRecording, HandleImportFile

LEMMA ListNextParts ==
  [ListNext]_pagesVars <=> \/ ListsOnly
                           \/ Query \/ SearchSent \/ QueryEmptied
                           \/ \E n \in 1..MaxQueries : SearchAnswered(n)
                           \/ UNCHANGED pagesVars
BY DEF ListNext, ListsOnly

LEMMA SearchInit == ListInit => SearchInv
BY DEF ListInit, SearchInv, SearchTypes, OnlyTheLatest

LEMMA SearchStep ==
  SearchInv /\ [ListNext]_pagesVars => SearchInv' /\ (resultsOf' # resultsOf => resultsOf' \in {0, query})
<1> SUFFICES ASSUME SearchInv, [ListNext]_pagesVars
             PROVE  SearchInv' /\ (resultsOf' # resultsOf => resultsOf' \in {0, query})
  OBVIOUS
<1> USE DEF SearchInv, SearchTypes, OnlyTheLatest
<1>1. CASE ListsOnly \/ UNCHANGED pagesVars
  <2>1. UNCHANGED <<query, searches, resultsOf>>
    BY <1>1, ListsSpareSearches DEF pagesVars, searchVars
  <2> QED
    BY <2>1
<1>2. CASE Query
  <2>1. /\ query < MaxQueries /\ query' = query + 1 /\ UNCHANGED resultsOf
        /\ searches' = [n \in 1..MaxQueries |->
                          IF n = query + 1 THEN "waits"
                          ELSE IF n = query /\ searches[n] # "none" THEN "cancelled" ELSE searches[n]]
    BY <1>2 DEF Query
  <2>2. searches' \in [1..MaxQueries -> {"none", "waits", "sent", "cancelled"}]
    BY <2>1
  <2>3. \A n \in 1..MaxQueries : searches'[n] \in {"waits", "sent"} => n = query + 1
    BY <2>1
  <2> QED
    BY <2>1, <2>2, <2>3
<1>3. CASE SearchSent
  BY <1>3 DEF SearchSent
<1>4. CASE QueryEmptied
  BY <1>4 DEF QueryEmptied
<1>5. ASSUME NEW n \in 1..MaxQueries, SearchAnswered(n)
      PROVE  SearchInv' /\ (resultsOf' # resultsOf => resultsOf' \in {0, query})
  BY <1>5 DEF SearchAnswered
<1> QED
  BY <1>1, <1>2, <1>3, <1>4, <1>5, ListNextParts

\* Whatever answers come late and in whatever order, results are only ever replaced by those of the
\* query typed now, or by none, for any number of queries: the effects cancel the former request.
THEOREM LatestQueryShown == ListSpec => LatestQueryWins
<1>1. SearchInv /\ [ListNext]_pagesVars => [resultsOf' # resultsOf => resultsOf' \in {0, query}]_pagesVars
  BY SearchStep
<1>2. SearchInv /\ [ListNext]_pagesVars => SearchInv'
  BY SearchStep
<1> QED
  BY <1>1, <1>2, SearchInit, PTL DEF ListSpec, LatestQueryWins

-----------------------------------------------------------------------------
(* The lists                                                                *)

Line(v) == [w \in 1..2 |-> IF v = w THEN 1 ELSE 0]

ListTypes ==
  /\ view \in Views
  /\ listRows \in [Items -> 0..2]
  /\ shown \in [Items -> [1..2 -> Nat]]
  /\ loads \in Seq([Items -> 0..2])
  /\ listOps \in [Items -> Op]
  /\ importing \in {"no", "asked"}
  /\ overlapped \in BOOLEAN

\* The requests for the list in flight, that of an import to come included.
LoadsBounded ==
  /\ listActs \in [page : 0..MaxListActs, outside : 0..MaxOutside]
  /\ Len(loads) <= MaxLoads + 1 + listActs.page
  /\ importing = "asked" => Len(loads) < MaxLoads + 1 + listActs.page

\* What a request of the page does to its row, once done.
OpsOK ==
  \A i \in Items :
    /\ listOps[i].op = "add" => listOps[i].val = 1
    /\ listOps[i].op = "change" => listOps[i].val \in 1..2
    /\ listOps[i].op = "delete" => listOps[i].val = 0

\* Row i as it is displayed: as the server has it, but for what its request did and whose answer
\* is on its way.
RowAgrees(i) ==
  LET x == listOps[i] IN
  /\ x.op = "idle" \/ x.step = "asked" => shown[i] = Line(listRows[i])
  /\ x.op = "add" => shown[i] = Hidden
  /\ x.op = "change" => \E u \in 1..2 : shown[i] = Line(u)
  /\ x.op # "idle" /\ x.step = "done" => listRows[i] = x.val

\* Nothing has come between the requests of the page.
Calm == view \notin Polled \cup {"search"} /\ ~overlapped /\ listActs.outside = 0

FollowsItself ==
  Calm => /\ loads # <<>> => ~Busy /\ Len(loads) = 1 /\ loads[1] = listRows
          /\ importing = "asked" => loads = <<>> /\ \A i \in Items : listOps[i].op = "idle"
          /\ loads = <<>> => \A i \in Items : RowAgrees(i)

ListInv == ListTypes /\ LoadsBounded /\ OpsOK /\ FollowsItself

LEMMA Lines ==
  /\ Hidden = Line(0)
  /\ \A v \in 0..2 : Line(v) \in [1..2 -> Nat]
  /\ \A u, v \in 0..2 : Line(u) = Line(v) => u = v
<1>1. \A v \in 0..2 : Line(v) \in [1..2 -> Nat]
  BY DEF Line
<1>2. Hidden = Line(0)
  BY DEF Hidden, Line
<1>3. \A u, v \in 0..2 : Line(u) = Line(v) => u = v
  <2> SUFFICES ASSUME NEW u \in 0..2, NEW v \in 0..2, Line(u) = Line(v) PROVE u = v
    OBVIOUS
  <2>1. \A w \in 1..2 : (u = w) <=> (v = w)
    <3> SUFFICES ASSUME NEW w \in 1..2 PROVE (u = w) <=> (v = w)
      OBVIOUS
    <3>1. Line(u)[w] = Line(v)[w]
      OBVIOUS
    <3> QED
      BY <3>1 DEF Line
  <2> QED
    BY <2>1
<1> QED
  BY <1>1, <1>2, <1>3

LEMMA ListedLines == \A r : Listed(r) = [i \in Items |-> Line(r[i])]
BY DEF Listed, Line

LEMMA ListInvInit == ListInit => ListInv
<1> SUFFICES ASSUME ListInit PROVE ListInv
  OBVIOUS
<1>1. /\ listRows \in [Items -> 0..2]
      /\ loads = <<>> \/ loads = <<listRows>>
  BY DEF ListInit
<1>2. loads \in Seq([Items -> 0..2]) /\ Len(loads) <= 1 /\ (loads # <<>> => loads[1] = listRows /\ Len(loads) = 1)
  <2>1. CASE loads = <<>>
    BY <2>1
  <2>2. CASE loads = <<listRows>>
    BY <1>1, <2>2
  <2> QED
    BY <1>1, <2>1, <2>2
<1>3. \A i \in Items : listOps[i] = IdleOp /\ IdleOp.op = "idle"
  BY DEF ListInit, IdleOp
<1>4. shown \in [Items -> [1..2 -> Nat]]
  BY Lines DEF ListInit, Blank
<1>5. ListTypes
  <2>1. IdleOp \in Op
    BY DEF IdleOp, Op
  <2>2. listOps \in [Items -> Op]
    BY <2>1 DEF ListInit
  <2> QED
    BY <1>1, <1>2, <1>4, <2>2 DEF ListInit, ListTypes
<1>6. LoadsBounded
  BY <1>2 DEF ListInit, LoadsBounded
<1>7. OpsOK
  BY <1>3 DEF OpsOK
<1>8. Calm => loads # <<>>
  BY <1>1 DEF ListInit, Calm
<1>9. ~Busy /\ importing = "no"
  BY <1>3 DEF ListInit, Busy
<1>10. FollowsItself
  BY <1>2, <1>8, <1>9 DEF FollowsItself
<1> QED
  BY <1>5, <1>6, <1>7, <1>10 DEF ListInv

\* Asking again: only the polled views do.
LEMMA AskKeeps ==
  ASSUME ListInv, NEW v \in Polled, Ask(v)
  PROVE  ListInv'
<1>1. /\ view = v /\ Len(loads) < MaxLoads /\ loads' = Append(loads, listRows)
      /\ overlapped' = (overlapped \/ Busy)
      /\ UNCHANGED <<view, listRows, shown, listOps, importing, listActs>>
  BY DEF Ask
<1>2. loads' \in Seq([Items -> 0..2]) /\ Len(loads') = Len(loads) + 1 /\ Len(loads) \in Nat
  BY <1>1 DEF ListInv, ListTypes
<1>3. overlapped' \in BOOLEAN
  BY <1>1
<1>4. ListTypes'
  BY <1>1, <1>2, <1>3 DEF ListInv, ListTypes
<1>5. listActs.page \in Nat
  BY DEF ListInv, LoadsBounded
<1>6. LoadsBounded'
  BY <1>1, <1>2, <1>5 DEF ListInv, LoadsBounded
<1>7. OpsOK'
  BY <1>1 DEF ListInv, OpsOK
<1>8. ~Calm'
  BY <1>1 DEF Calm
<1> QED
  BY <1>4, <1>6, <1>7, <1>8 DEF ListInv, FollowsItself

LEMMA ListAnsweredKeeps ==
  ASSUME ListInv, NEW n \in DOMAIN loads, ListAnswered(n)
  PROVE  ListInv'
<1>1. /\ shown' = Listed(loads[n]) /\ loads' = RemoveAt(loads, n)
      /\ UNCHANGED <<view, listRows, listOps, importing, overlapped, listActs>>
  BY DEF ListAnswered
<1>2. loads \in Seq([Items -> 0..2]) /\ n \in 1..Len(loads) /\ Len(loads) \in Nat /\ loads # <<>>
  BY DEF ListInv, ListTypes
<1>3. RemoveAt(loads, n) \in Seq([Items -> 0..2]) /\ Len(RemoveAt(loads, n)) = Len(loads) - 1
  BY <1>2, Removal
<1>4. loads[n] \in [Items -> 0..2]
  BY <1>2, ElementOfSeq
<1>5. shown' = [i \in Items |-> Line(loads[n][i])] /\ shown' \in [Items -> [1..2 -> Nat]]
  BY <1>1, <1>4, ListedLines, Lines
<1>6. ListTypes'
  BY <1>1, <1>3, <1>5 DEF ListInv, ListTypes
<1>7. LoadsBounded'
  <2>1. listActs.page \in Nat
    BY DEF ListInv, LoadsBounded
  <2> QED
    BY <1>1, <1>2, <1>3, <2>1 DEF ListInv, LoadsBounded
<1>8. OpsOK'
  BY <1>1 DEF ListInv, OpsOK
<1>9. FollowsItself'
  <2> SUFFICES ASSUME Calm' PROVE /\ loads' = <<>> /\ importing' = "no"
                                  /\ \A i \in Items : RowAgrees(i)'
    BY DEF FollowsItself
  <2>1. ~Busy /\ Len(loads) = 1 /\ loads[1] = listRows
    BY <1>1, <1>2 DEF ListInv, FollowsItself, Calm
  <2>2. n = 1 /\ Len(loads') = 0
    BY <1>1, <1>2, <1>3, <2>1
  <2>3. loads' = <<>>
    BY <1>1, <1>3, <2>2
  <2>4. importing = "no" /\ \A i \in Items : listOps[i].op = "idle"
    BY <2>1 DEF Busy
  <2>5. \A i \in Items : shown'[i] = Line(listRows[i])
    BY <1>5, <2>1, <2>2
  <2>6. \A i \in Items : RowAgrees(i)'
    BY <1>1, <2>4, <2>5 DEF RowAgrees
  <2> QED
    BY <1>1, <2>3, <2>4, <2>6
<1> QED
  BY <1>6, <1>7, <1>8, <1>9 DEF ListInv

LEMMA OthersChangeKeeps ==
  ASSUME ListInv, NEW i \in Items, NEW v \in 0..2, OthersChange(i, v)
  PROVE  ListInv'
<1>1. /\ listRows' = [listRows EXCEPT ![i] = v]
      /\ listActs' = [listActs EXCEPT !["outside"] = @ + 1] /\ listActs.outside < MaxOutside
      /\ UNCHANGED <<view, shown, loads, listOps, importing, overlapped>>
  BY DEF OthersChange, ListCount
<1>2. listActs' \in [page : 0..MaxListActs, outside : 0..MaxOutside]
      /\ listActs'.page = listActs.page /\ listActs'.outside # 0
  BY <1>1 DEF ListInv, LoadsBounded
<1>3. ListTypes'
  BY <1>1 DEF ListInv, ListTypes
<1>4. LoadsBounded'
  BY <1>1, <1>2 DEF ListInv, LoadsBounded
<1>5. OpsOK'
  BY <1>1 DEF ListInv, OpsOK
<1> QED
  BY <1>2, <1>3, <1>4, <1>5 DEF ListInv, FollowsItself, Calm

\* The page counts one more click.
LEMMA PageCounted ==
  ASSUME ListInv, listActs.page < MaxListActs, ListCount("page")
  PROVE  /\ listActs' \in [page : 0..MaxListActs, outside : 0..MaxOutside]
         /\ listActs'.page = listActs.page + 1 /\ listActs'.outside = listActs.outside
         /\ listActs.page \in Nat
BY DEF ListInv, LoadsBounded, ListCount

LEMMA ClickOnKeeps ==
  ASSUME ListInv, NEW v, NEW i \in Items, NEW op \in {"add", "change", "delete"}, NEW val \in 0..2,
         ClickOn(v, i, op, val),
         op = "add" => val = 1, op = "change" => val \in 1..2, op = "delete" => val = 0
  PROVE  ListInv'
<1> DEFINE x == [op |-> op, step |-> "asked", val |-> val]
<1>1. /\ listOps[i].op = "idle" /\ (Displays(i) <=> op # "add")
      /\ listOps' = [listOps EXCEPT ![i] = x]
      /\ overlapped' = (overlapped \/ loads # <<>> \/ importing # "no")
      /\ UNCHANGED <<view, listRows, shown, loads, importing>>
  BY DEF ClickOn
<1>2. /\ listActs' \in [page : 0..MaxListActs, outside : 0..MaxOutside]
      /\ listActs'.page = listActs.page + 1 /\ listActs'.outside = listActs.outside
      /\ listActs.page \in Nat
  BY PageCounted DEF ClickOn
<1>3. x \in Op /\ x.op = op /\ x.step = "asked" /\ x.val = val
  BY DEF Op
<1>4. /\ listOps' \in [Items -> Op] /\ listOps'[i] = x
      /\ \A j \in Items \ {i} : listOps'[j] = listOps[j]
  BY <1>1, <1>3 DEF ListInv, ListTypes
<1> HIDE DEF x
<1>5. ListTypes'
  <2>1. overlapped' \in BOOLEAN
    BY <1>1
  <2> QED
    BY <1>1, <1>4, <2>1 DEF ListInv, ListTypes
<1>6. LoadsBounded'
  <2>1. Len(loads) \in Nat
    BY DEF ListInv, ListTypes
  <2> QED
    BY <1>1, <1>2, <2>1 DEF ListInv, LoadsBounded
<1>7. OpsOK'
  BY <1>3, <1>4 DEF ListInv, OpsOK
<1>8. FollowsItself'
  <2> SUFFICES ASSUME Calm'
               PROVE  loads' = <<>> /\ importing' = "no" /\ \A j \in Items : RowAgrees(j)'
    BY DEF FollowsItself
  <2>1. Calm /\ loads = <<>> /\ importing = "no"
    BY <1>1, <1>2 DEF Calm, ListInv, ListTypes
  <2>2. \A j \in Items : RowAgrees(j)
    BY <2>1 DEF ListInv, FollowsItself
  <2>3. ASSUME NEW j \in Items, j # i PROVE RowAgrees(j)'
    BY <1>1, <1>4, <2>2, <2>3 DEF RowAgrees
  <2>4. RowAgrees(i)'
    <3>1. shown[i] = Line(listRows[i])
      BY <1>1, <2>2 DEF RowAgrees
    <3>2. op = "add" => shown[i] = Hidden
      BY <1>1 DEF Displays
    <3>3. op = "change" => \E u \in 1..2 : shown[i] = Line(u)
      <4>1. listRows[i] \in 0..2
        BY DEF ListInv, ListTypes
      <4> QED
        BY <1>1, <3>1, <4>1, Lines DEF Displays
    <3> QED
      BY <1>1, <1>3, <1>4, <3>1, <3>2, <3>3 DEF RowAgrees
  <2> QED
    BY <1>1, <2>1, <2>3, <2>4
<1> QED
  BY <1>5, <1>6, <1>7, <1>8 DEF ListInv

LEMMA ServerActsKeeps ==
  ASSUME ListInv, NEW i \in Items, ServerActs(i)
  PROVE  ListInv'
<1> DEFINE x == listOps[i]
           y == [x EXCEPT !.step = "done"]
<1>1. /\ x.op # "idle" /\ x.step = "asked"
      /\ UNCHANGED <<view, shown, loads, importing, overlapped, listActs>>
  BY DEF ServerActs
<1>2. x \in Op /\ listOps \in [Items -> Op] /\ listRows \in [Items -> 0..2]
  BY DEF ListInv, ListTypes
<1>3. y \in Op /\ y.op = x.op /\ y.step = "done" /\ y.val = x.val /\ x.val \in 0..2
  BY <1>2 DEF Op
<1>4. IdleOp \in Op /\ IdleOp.op = "idle"
  BY DEF IdleOp, Op
<1>5. \/ /\ Accepts(i, x.op) /\ listRows' = [listRows EXCEPT ![i] = x.val]
         /\ listOps' = [listOps EXCEPT ![i] = y]
      \/ listOps' = [listOps EXCEPT ![i] = IdleOp] /\ UNCHANGED listRows
  BY DEF ServerActs
<1> HIDE DEF x, y
<1>6. /\ listOps' \in [Items -> Op] /\ listRows' \in [Items -> 0..2]
      /\ \A j \in Items \ {i} : listOps'[j] = listOps[j] /\ listRows'[j] = listRows[j]
      /\ \/ listOps'[i] = y /\ listRows'[i] = x.val
         \/ listOps'[i] = IdleOp /\ listRows'[i] = listRows[i]
  BY <1>2, <1>3, <1>4, <1>5
<1>7. ListTypes' /\ LoadsBounded'
  BY <1>1, <1>6 DEF ListInv, ListTypes, LoadsBounded
<1>8. OpsOK'
  BY <1>3, <1>4, <1>6 DEF ListInv, OpsOK, x
<1>9. FollowsItself'
  <2> SUFFICES ASSUME Calm'
               PROVE  loads' = <<>> /\ importing' = "no" /\ \A j \in Items : RowAgrees(j)'
    BY DEF FollowsItself
  <2>1. Calm
    BY <1>1 DEF Calm
  <2>2. loads = <<>> /\ importing = "no"
    BY <1>1, <2>1 DEF ListInv, FollowsItself, ListTypes, Busy, x
  <2>3. \A j \in Items : RowAgrees(j)
    BY <2>1, <2>2 DEF ListInv, FollowsItself
  <2>4. ASSUME NEW j \in Items, j # i PROVE RowAgrees(j)'
    BY <1>1, <1>6, <2>3, <2>4 DEF RowAgrees
  <2>5. CASE listOps'[i] = IdleOp /\ listRows'[i] = listRows[i]
    <3>1. shown[i] = Line(listRows[i])
      BY <1>1, <2>3 DEF RowAgrees, x
    <3>2. RowAgrees(i)'
      BY <1>1, <1>4, <2>5, <3>1 DEF RowAgrees
    <3> QED
      BY <1>1, <2>2, <2>4, <3>2
  <2>6. CASE listOps'[i] = y /\ listRows'[i] = x.val
    <3>1. /\ x.op = "add" => shown[i] = Hidden
          /\ x.op = "change" => \E u \in 1..2 : shown[i] = Line(u)
      BY <2>3 DEF RowAgrees, x
    <3>2. RowAgrees(i)'
      BY <1>1, <1>3, <2>6, <3>1 DEF RowAgrees
    <3> QED
      BY <1>1, <2>2, <2>4, <3>2
  <2> QED
    BY <1>6, <2>5, <2>6
<1> QED
  BY <1>7, <1>8, <1>9 DEF ListInv

LEMMA ServerAnsweredKeeps ==
  ASSUME ListInv, NEW i \in Items, ServerAnswered(i)
  PROVE  ListInv'
<1> DEFINE x == listOps[i]
           one == shown[i]
           moved == [v \in 1..2 |-> IF v = x.val THEN one[1] + one[2] ELSE 0]
           added == [one EXCEPT ![x.val] = @ + 1]
<1>1. /\ x.step = "done" /\ listOps' = [listOps EXCEPT ![i] = IdleOp]
      /\ UNCHANGED <<view, listRows, loads, importing, overlapped, listActs>>
  BY DEF ServerAnswered
<1>2. \/ x.op = "add" /\ shown' = [shown EXCEPT ![i] = added]
      \/ x.op = "change" /\ shown' = [shown EXCEPT ![i] = moved]
      \/ x.op = "delete" /\ shown' = [shown EXCEPT ![i] = Hidden]
  BY DEF ServerAnswered
<1>3. /\ x \in Op /\ listOps \in [Items -> Op] /\ listRows \in [Items -> 0..2]
      /\ shown \in [Items -> [1..2 -> Nat]] /\ one \in [1..2 -> Nat]
  BY DEF ListInv, ListTypes
<1>4. IdleOp \in Op /\ IdleOp.op = "idle"
  BY DEF IdleOp, Op
<1>5. /\ x.op = "add" => x.val = 1
      /\ x.op = "change" => x.val \in 1..2
      /\ x.op = "delete" => x.val = 0
  BY DEF ListInv, OpsOK
<1>6. /\ x.op = "add" => added \in [1..2 -> Nat]
      /\ moved \in [1..2 -> Nat]
      /\ Hidden \in [1..2 -> Nat]
  <2>1. x.op = "add" => added \in [1..2 -> Nat]
    BY <1>3, <1>5
  <2>2. moved \in [1..2 -> Nat]
    BY <1>3
  <2> QED
    BY <2>1, <2>2 DEF Hidden
<1>7. CASE x.op # "idle"
  <2>1. \E new \in [1..2 -> Nat] : shown' = [shown EXCEPT ![i] = new]
    BY <1>2, <1>6
  <2>2. shown' \in [Items -> [1..2 -> Nat]] /\ \A j \in Items \ {i} : shown'[j] = shown[j]
    BY <1>3, <2>1
  <2>3. /\ listOps' \in [Items -> Op] /\ listOps'[i] = IdleOp
        /\ \A j \in Items \ {i} : listOps'[j] = listOps[j]
    BY <1>1, <1>3, <1>4
  <2>4. ListTypes' /\ LoadsBounded'
    BY <1>1, <2>2, <2>3 DEF ListInv, ListTypes, LoadsBounded
  <2>5. OpsOK'
    BY <1>4, <2>3 DEF ListInv, OpsOK
  <2>6. FollowsItself'
    <3> SUFFICES ASSUME Calm'
                 PROVE  loads' = <<>> /\ importing' = "no" /\ \A j \in Items : RowAgrees(j)'
      BY DEF FollowsItself
    <3>1. Calm
      BY <1>1 DEF Calm
    <3>2. loads = <<>> /\ importing = "no"
      BY <1>7, <3>1 DEF ListInv, FollowsItself, ListTypes, Busy
    <3>3. \A j \in Items : RowAgrees(j)
      BY <3>1, <3>2 DEF ListInv, FollowsItself
    <3>4. ASSUME NEW j \in Items, j # i PROVE RowAgrees(j)'
      BY <1>1, <2>2, <2>3, <3>3, <3>4 DEF RowAgrees
    <3>5. listRows[i] = x.val
      BY <1>1, <1>7, <3>3 DEF RowAgrees
    <3>6. shown'[i] = Line(x.val)
      <4>1. CASE x.op = "add"
        <5>1. one = Hidden /\ shown'[i] = added /\ x.val = 1
          BY <1>2, <1>3, <1>5, <3>3, <4>1 DEF RowAgrees
        <5> QED
          BY <5>1 DEF Line, Hidden
      <4>2. CASE x.op = "change"
        <5>1. PICK u \in 1..2 : one = Line(u)
          BY <3>3, <4>2 DEF RowAgrees
        <5>2. shown'[i] = moved /\ x.val \in 1..2
          BY <1>2, <1>3, <1>5, <4>2
        <5>3. one[1] + one[2] = 1
          BY <5>1 DEF Line
        <5> QED
          BY <5>2, <5>3 DEF Line
      <4>3. CASE x.op = "delete"
        BY <1>2, <1>3, <1>5, <4>3, Lines
      <4> QED
        BY <1>2, <4>1, <4>2, <4>3
    <3>7. RowAgrees(i)'
      BY <1>1, <1>4, <2>3, <3>5, <3>6 DEF RowAgrees
    <3> QED
      BY <1>1, <3>2, <3>4, <3>7
  <2> QED
    BY <2>4, <2>5, <2>6 DEF ListInv
<1> QED
  BY <1>2, <1>7

LEMMA ToggleRecordingKeeps ==
  ASSUME ListInv, NEW i \in Items, ToggleRecording(i)
  PROVE  ListInv'
<1>1. /\ view = "badge" /\ Len(loads) < MaxLoads
      /\ listRows' = [listRows EXCEPT ![i] = IF @ = 0 THEN 1 ELSE 0]
      /\ loads' = Append(loads, listRows')
      /\ UNCHANGED <<view, shown, listOps, importing, overlapped>>
  BY DEF ToggleRecording
<1>2. /\ listActs' \in [page : 0..MaxListActs, outside : 0..MaxOutside]
      /\ listActs'.page = listActs.page + 1 /\ listActs.page \in Nat
  BY PageCounted DEF ToggleRecording
<1>3. listRows' \in [Items -> 0..2]
  BY <1>1 DEF ListInv, ListTypes
<1>4. loads' \in Seq([Items -> 0..2]) /\ Len(loads') = Len(loads) + 1 /\ Len(loads) \in Nat
  BY <1>1, <1>3 DEF ListInv, ListTypes
<1>5. ListTypes'
  BY <1>1, <1>3, <1>4 DEF ListInv, ListTypes
<1>6. LoadsBounded'
  BY <1>1, <1>2, <1>4 DEF ListInv, LoadsBounded
<1>7. OpsOK'
  BY <1>1 DEF ListInv, OpsOK
<1>8. ~Calm'
  BY <1>1 DEF Calm, Polled
<1> QED
  BY <1>5, <1>6, <1>7, <1>8 DEF ListInv, FollowsItself

LEMMA HandleImportFileKeeps ==
  ASSUME ListInv, NEW v, HandleImportFile(v)
  PROVE  ListInv'
<1>1. /\ importing = "no" /\ importing' = "asked"
      /\ overlapped' = (overlapped \/ loads # <<>> \/ Busy)
      /\ UNCHANGED <<view, listRows, shown, loads, listOps>>
  BY DEF HandleImportFile
<1>2. /\ listActs' \in [page : 0..MaxListActs, outside : 0..MaxOutside]
      /\ listActs'.page = listActs.page + 1 /\ listActs'.outside = listActs.outside
      /\ listActs.page \in Nat
  BY PageCounted DEF HandleImportFile
<1>3. overlapped' \in BOOLEAN
  BY <1>1
<1>4. ListTypes'
  BY <1>1, <1>3 DEF ListInv, ListTypes
<1>5. LoadsBounded'
  <2>1. Len(loads) \in Nat
    BY DEF ListInv, ListTypes
  <2> QED
    BY <1>1, <1>2, <2>1 DEF ListInv, LoadsBounded
<1>6. OpsOK'
  BY <1>1 DEF ListInv, OpsOK
<1>7. FollowsItself'
  <2> SUFFICES ASSUME Calm'
               PROVE  /\ loads' = <<>> /\ \A i \in Items : listOps'[i].op = "idle"
                      /\ \A i \in Items : RowAgrees(i)'
    BY DEF FollowsItself
  <2>1. Calm /\ loads = <<>> /\ \A i \in Items : listOps[i].op = "idle"
    BY <1>1, <1>2 DEF Calm, Busy
  <2>2. \A i \in Items : RowAgrees(i)
    BY <2>1 DEF ListInv, FollowsItself
  <2>3. \A i \in Items : RowAgrees(i)'
    BY <1>1, <2>2 DEF RowAgrees
  <2> QED
    BY <1>1, <2>1, <2>3
<1> QED
  BY <1>4, <1>5, <1>6, <1>7 DEF ListInv

LEMMA ImportedKeeps ==
  ASSUME ListInv, Imported
  PROVE  ListInv'
<1>1. /\ importing = "asked" /\ importing' = "no"
      /\ UNCHANGED <<view, shown, listOps, overlapped, listActs>>
  BY DEF Imported
<1>2. Calm => loads = <<>> /\ \A i \in Items : listOps[i].op = "idle"
  BY <1>1 DEF ListInv, FollowsItself
<1>3. OpsOK'
  BY <1>1 DEF ListInv, OpsOK
<1>4. /\ loads \in Seq([Items -> 0..2]) /\ Len(loads) \in Nat
      /\ listActs.page \in Nat /\ Len(loads) < MaxLoads + 1 + listActs.page
  BY <1>1 DEF ListInv, ListTypes, LoadsBounded
<1>5. CASE UNCHANGED <<listRows, loads>>
  <2>1. ListTypes' /\ LoadsBounded'
    BY <1>1, <1>5 DEF ListInv, ListTypes, LoadsBounded
  <2>2. FollowsItself'
    <3> SUFFICES ASSUME Calm'
                 PROVE  loads' = <<>> /\ importing' = "no" /\ \A i \in Items : RowAgrees(i)'
      BY DEF FollowsItself
    <3>1. Calm
      BY <1>1 DEF Calm
    <3>2. \A i \in Items : RowAgrees(i)
      BY <1>2, <3>1 DEF ListInv, FollowsItself
    <3>3. \A i \in Items : RowAgrees(i)'
      BY <1>1, <1>5, <3>2 DEF RowAgrees
    <3> QED
      BY <1>1, <1>2, <1>5, <3>1, <3>3
  <2> QED
    BY <1>3, <2>1, <2>2 DEF ListInv
<1>6. ASSUME NEW added \in SUBSET Items,
             listRows' = [i \in Items |-> IF i \in added /\ listRows[i] = 0 THEN 1 ELSE listRows[i]],
             loads' = Append(loads, listRows')
      PROVE  ListInv'
  <2>1. listRows' \in [Items -> 0..2]
    BY <1>6 DEF ListInv, ListTypes
  <2>2. /\ loads' \in Seq([Items -> 0..2]) /\ Len(loads') = Len(loads) + 1
        /\ loads'[Len(loads) + 1] = listRows'
    BY <1>4, <1>6, <2>1
  <2>3. ListTypes'
    BY <1>1, <2>1, <2>2 DEF ListInv, ListTypes
  <2>4. LoadsBounded'
    BY <1>1, <1>4, <2>2 DEF ListInv, LoadsBounded
  <2>5. FollowsItself'
    <3> SUFFICES ASSUME Calm'
                 PROVE  /\ ~Busy' /\ Len(loads') = 1 /\ loads'[1] = listRows'
                        /\ importing' = "no" /\ loads' # <<>>
      BY DEF FollowsItself
    <3>1. loads = <<>> /\ \A i \in Items : listOps[i].op = "idle"
      BY <1>1, <1>2 DEF Calm
    <3>2. Len(loads) = 0
      BY <3>1
    <3> QED
      BY <1>1, <2>2, <3>1, <3>2 DEF Busy
  <2> QED
    BY <1>3, <2>3, <2>4, <2>5 DEF ListInv
<1> QED
  BY <1>5, <1>6 DEF Imported

LEMMA ListInvStep == ListInv /\ [ListNext]_pagesVars => ListInv'
<1> SUFFICES ASSUME ListInv, [ListNext]_pagesVars PROVE ListInv'
  OBVIOUS
<1>1. CASE UNCHANGED <<view, listVars>>
  BY <1>1 DEF listVars, ListInv, ListTypes, LoadsBounded, OpsOK, FollowsItself, RowAgrees, Calm, Busy
<1>2. CASE \/ Query \/ SearchSent \/ QueryEmptied
           \/ \E n \in 1..MaxQueries : SearchAnswered(n)
           \/ UNCHANGED pagesVars
  <2>1. UNCHANGED <<view, listVars>>
    BY <1>2 DEF Query, SearchSent, QueryEmptied, SearchAnswered, pagesVars
  <2> QED
    BY <1>1, <2>1
<1>3. CASE HomeLoad \/ AttendanceLoad \/ BadgeRefresh \/ StatusPoll
  BY <1>3, AskKeeps DEF HomeLoad, AttendanceLoad, BadgeRefresh, StatusPoll, Polled
<1>4. ASSUME NEW i \in Items,
             \/ HandleDeleteRoom(i) \/ HandleDeleteSession(i) \/ HandleEnroll(i) \/ HandleUnenroll(i)
             \/ HandleRoleChange(i) \/ HandleToggleActive(i) \/ HandleDeleteUser(i) \/ HandleCreateUser(i)
             \/ HandleDeleteRecording(i)
      PROVE  ListInv'
  BY <1>4, ClickOnKeeps
     DEF HandleDeleteRoom, HandleDeleteSession, HandleEnroll, HandleUnenroll, HandleRoleChange,
         HandleToggleActive, HandleDeleteUser, HandleCreateUser, HandleDeleteRecording
<1> QED
  BY <1>2, <1>3, <1>4, ListNextParts, OthersChangeKeeps, ListAnsweredKeeps, ServerActsKeeps,
     ServerAnsweredKeeps, ToggleRecordingKeeps, HandleImportFileKeeps, ImportedKeeps DEF ListsOnly

LEMMA ListTypesGive == ListInv /\ SearchInv => ListTypeOK
<1> SUFFICES ASSUME ListInv, SearchInv PROVE ListTypeOK
  OBVIOUS
<1>1. \A n \in DOMAIN loads : loads[n] \in [Items -> 0..2]
  BY ElementOfSeq DEF ListInv, ListTypes
<1>2. Len(loads) <= MaxLoads + MaxListActs + 1
  BY LenProperties DEF ListInv, ListTypes, LoadsBounded
<1> QED
  BY <1>1, <1>2 DEF ListInv, ListTypes, LoadsBounded, SearchInv, SearchTypes, ListTypeOK

\* Every variable of the pages that show lists keeps its type: the requests for a list are never more
\* than those the intervals and the imports make.
THEOREM ListTypeCorrect == ListSpec => []ListTypeOK
<1>1. SearchInv /\ [ListNext]_pagesVars => SearchInv'
  BY SearchStep
<1> QED
  BY ListTypesGive, <1>1, SearchInit, ListInvInit, ListInvStep, PTL DEF ListSpec

\* The enrolments, the users and the recordings are shown as the server has them, each once, when no
\* request is in flight, for any number of rows and clicks at once: what the page adds, replaces and
\* filters out by itself amounts to asking again.
THEOREM RequestsAreShown == ListSpec => []OwnRequestsShown
<1>1. ListInv => OwnRequestsShown
  <2> SUFFICES ASSUME ListInv, view \notin Polled \cup {"search"}, loads = <<>>, ~Busy, ~overlapped, listActs.outside = 0
               PROVE  shown = Listed(listRows)
    BY DEF OwnRequestsShown
  <2>1. \A i \in Items : RowAgrees(i) /\ listOps[i].op = "idle"
    BY DEF ListInv, FollowsItself, Calm, Busy
  <2>2. \A i \in Items : shown[i] = Line(listRows[i])
    BY <2>1 DEF RowAgrees
  <2>3. shown = [i \in Items |-> shown[i]]
    BY DEF ListInv, ListTypes
  <2> QED
    BY <2>2, <2>3, ListedLines
<1> QED
  BY <1>1, ListInvInit, ListInvStep, PTL DEF ListSpec

HIDE ListAssumption DEF ListAssumption

-----------------------------------------------------------------------------
(***************************************************************************)
(* THE ECHO                                                                *)
(*                                                                         *)
(* A warning rests on samples where both spoke, and these go by as the     *)
(* window slides.                                                          *)
(***************************************************************************)

USE RepAssumption DEF RepAssumption

Spoken == [overlap : BOOLEAN, localOnly : BOOLEAN]
Both(w) == {i \in DOMAIN w : w[i].overlap}

\* The samples where both spoke are no younger than the last one, and a warning rests on enough of them.
EchoInv ==
  /\ samples \in Seq(Spoken) /\ Len(samples) <= WindowSamples
  /\ warned \in BOOLEAN /\ quiet \in 0..MaxQuiet
  /\ \A i \in DOMAIN samples : samples[i].overlap => i + quiet <= Len(samples)
  /\ warned => Cardinality(Both(samples)) >= MinOverlap

\* No more than n samples of both among the first n.
LEMMA FewBoth ==
  ASSUME NEW w \in Seq(Spoken), NEW n \in Nat, \A i \in DOMAIN w : w[i].overlap => i <= n
  PROVE  Cardinality(Both(w)) <= n /\ Cardinality(Both(w)) \in Nat
<1>1. DOMAIN w = 1..Len(w)
  BY LenProperties
<1>2. Both(w) \in SUBSET (1..n)
  BY <1>1 DEF Both
<1>3. IsFiniteSet(1..n) /\ Cardinality(1..n) = n
  <2>1. /\ IsFiniteSet(1..n)
        /\ Cardinality(1..n) = IF 1 > n THEN 0 ELSE n - 1 + 1
    <3>1. 1 \in Int /\ n \in Int
      OBVIOUS
    <3> HIDE RepAssumption
    <3> QED
      BY <3>1, FS_Interval, Zenon
  <2>2. (1 > n => n = 0) /\ n - 1 + 1 = n
    OBVIOUS
  <2> QED
    BY <2>1, <2>2
<1> QED
  BY <1>2, <1>3, FS_Subset, FS_CardinalityType

LEMMA EchoInit == RepInit => EchoInv
<1> SUFFICES ASSUME RepInit PROVE EchoInv
  OBVIOUS
<1>1. samples = <<>> /\ warned = FALSE /\ quiet = MaxQuiet
  BY DEF RepInit
<1>2. samples \in Seq(Spoken) /\ Len(samples) = 0 /\ DOMAIN samples = {}
  BY <1>1, EmptySeq
<1>3. warned \in BOOLEAN /\ quiet \in 0..MaxQuiet
  <2>1. warned \in BOOLEAN
    BY <1>1
  <2>2. quiet \in 0..MaxQuiet
    BY <1>1
  <2> QED
    BY <2>1, <2>2
<1> QED
  BY <1>1, <1>2, <1>3 DEF EchoInv

LEMMA SampleKeeps ==
  ASSUME EchoInv, NEW local \in BOOLEAN, NEW remote \in BOOLEAN, Sample(local, remote)
  PROVE  EchoInv'
<1> DEFINE s == [overlap |-> local /\ remote, localOnly |-> local /\ ~remote]
           all == Append(samples, s)
           window == IF Len(all) > WindowSamples THEN Tail(all) ELSE all
<1>1. /\ samples' = window
      /\ warned' \in BOOLEAN
      /\ warned' => Cardinality({i \in DOMAIN window : window[i].overlap}) >= MinOverlap
  BY DEF Sample
<1>2. quiet' = IF local /\ remote THEN 0 ELSE IF quiet = MaxQuiet THEN quiet ELSE quiet + 1
  BY DEF Sample
<1>3. s \in Spoken /\ (s.overlap <=> local /\ remote)
  BY DEF Spoken
<1> HIDE DEF s
<1>4. samples \in Seq(Spoken) /\ Len(samples) \in Nat /\ Len(samples) <= WindowSamples
      /\ DOMAIN samples = 1..Len(samples) /\ quiet \in 0..MaxQuiet
      /\ \A i \in DOMAIN samples : samples[i].overlap => i + quiet <= Len(samples)
  BY LenProperties DEF EchoInv
<1>5. /\ all \in Seq(Spoken) /\ all # <<>> /\ Len(all) = Len(samples) + 1
      /\ DOMAIN all = 1..Len(samples) + 1
      /\ all[Len(samples) + 1] = s
      /\ \A i \in 1..Len(samples) : all[i] = samples[i]
  BY <1>3, <1>4, AppendProperties, LenProperties
<1>6. /\ quiet' \in 0..MaxQuiet
      /\ (local /\ remote) => quiet' = 0
      /\ ~(local /\ remote) => quiet' <= quiet + 1
  BY <1>2, <1>4
<1>7. \A i \in DOMAIN all : all[i].overlap => i + quiet' <= Len(all)
  <2> SUFFICES ASSUME NEW i \in 1..Len(samples) + 1, all[i].overlap PROVE i + quiet' <= Len(samples) + 1
    BY <1>5
  <2>1. CASE i = Len(samples) + 1
    <3>1. quiet' = 0
      BY <1>3, <1>5, <1>6, <2>1
    <3> QED
      BY <1>4, <2>1, <3>1
  <2>2. CASE i # Len(samples) + 1
    <3>1. i \in 1..Len(samples) /\ samples[i].overlap
      BY <1>4, <1>5, <2>2
    <3>2. i + quiet <= Len(samples)
      BY <1>4, <3>1
    <3>3. quiet' <= quiet + 1
      <4>1. CASE local /\ remote
        BY <1>4, <1>6, <4>1
      <4>2. CASE ~(local /\ remote)
        BY <1>6, <4>2, SMTT(30)
      <4> QED
        BY <4>1, <4>2
    <3> QED
      BY <1>4, <1>6, <3>1, <3>2, <3>3
  <2> QED
    BY <2>1, <2>2
<1> HIDE DEF all
<1>8. /\ Tail(all) \in Seq(Spoken) /\ Len(Tail(all)) = Len(samples)
      /\ DOMAIN Tail(all) = 1..Len(samples)
      /\ \A i \in 1..Len(samples) : Tail(all)[i] = all[i + 1]
  <2>1. /\ Tail(all) \in Seq(Spoken) /\ Len(Tail(all)) = Len(all) - 1
        /\ \A i \in 1..Len(Tail(all)) : Tail(all)[i] = all[i + 1]
    BY <1>5, HeadTailProperties
  <2>2. Len(all) - 1 = Len(samples)
    BY <1>4, <1>5
  <2> QED
    BY <2>1, <2>2, LenProperties
<1>9. /\ window \in Seq(Spoken) /\ Len(window) <= WindowSamples
      /\ \A i \in DOMAIN window : window[i].overlap => i + quiet' <= Len(window)
  <2>1. CASE Len(all) > WindowSamples
    <3>1. window = Tail(all)
      BY <2>1
    <3>2. \A i \in 1..Len(samples) : Tail(all)[i].overlap => i + quiet' <= Len(samples)
      <4> SUFFICES ASSUME NEW i \in 1..Len(samples), Tail(all)[i].overlap PROVE i + quiet' <= Len(samples)
        OBVIOUS
      <4>1. i + 1 \in DOMAIN all /\ all[i + 1].overlap
        BY <1>4, <1>5, <1>8
      <4>2. i + 1 + quiet' <= Len(samples) + 1
        BY <1>5, <1>7, <4>1
      <4> QED
        BY <1>4, <1>6, <4>2
    <3> QED
      BY <1>4, <1>8, <3>1, <3>2
  <2>2. CASE ~(Len(all) > WindowSamples)
    <3>1. window = all
      BY <2>2
    <3> QED
      BY <1>4, <1>5, <1>7, <2>2, <3>1
  <2> QED
    BY <2>1, <2>2
<1> QED
  BY <1>1, <1>6, <1>9 DEF EchoInv, Both

LEMMA EchoInvStep == EchoInv /\ [RepNext]_repVars => EchoInv'
<1> SUFFICES ASSUME EchoInv, [RepNext]_repVars PROVE EchoInv'
  OBVIOUS
<1>1. CASE UNCHANGED <<samples, warned, quiet>>
  BY <1>1 DEF EchoInv, Both
<1>2. ASSUME AnswerActivity \/ AnswerAttendance \/ AnswerPages \/ AnswerCsv \/ AnswerStatus \/ UNCHANGED repVars
      PROVE  UNCHANGED <<samples, warned, quiet>>
  BY <1>2 DEF AnswerActivity, AnswerAttendance, AnswerPages, AnswerCsv, AnswerStatus, Replies, repVars
<1>3. CASE Disable
  <2>1. samples' = <<>> /\ warned' = FALSE /\ quiet' = quiet
    BY <1>3 DEF Disable
  <2>2. samples' \in Seq(Spoken) /\ Len(samples') = 0 /\ DOMAIN samples' = {}
    BY <2>1, EmptySeq
  <2>3. warned' \in BOOLEAN /\ ~warned'
    BY <2>1
  <2> QED
    BY <2>1, <2>2, <2>3 DEF EchoInv
<1>4. ASSUME NEW local \in BOOLEAN, NEW remote \in BOOLEAN, Sample(local, remote)
      PROVE  EchoInv'
  BY <1>4, SampleKeeps
<1> QED
  BY <1>1, <1>2, <1>3, <1>4 DEF RepNext

\* The warning of an echo rests on samples of the window: whatever its length, the threshold and the ratio,
\* nobody is warned once the last sample where both spoke is too old for that (useEchoDetection, Reports).
THEOREM WarningsFade == RepSpec => []EchoWarningFades
<1>1. EchoInv => EchoWarningFades
  <2> SUFFICES ASSUME EchoInv, warned PROVE quiet <= WindowSamples - MinOverlap
    BY DEF EchoWarningFades
  <2>1. /\ samples \in Seq(Spoken) /\ Len(samples) \in Nat /\ Len(samples) <= WindowSamples
        /\ DOMAIN samples = 1..Len(samples) /\ quiet \in Nat
        /\ \A i \in DOMAIN samples : samples[i].overlap => i + quiet <= Len(samples)
        /\ Cardinality(Both(samples)) >= MinOverlap
    BY LenProperties DEF EchoInv
  <2>2. CASE quiet <= Len(samples)
    <3> DEFINE n == Len(samples) - quiet
    <3>1. n \in Nat /\ \A i \in DOMAIN samples : samples[i].overlap => i <= n
      BY <2>1, <2>2
    <3> HIDE DEF n
    <3>2. Cardinality(Both(samples)) <= n /\ Cardinality(Both(samples)) \in Nat
      BY <2>1, <3>1, FewBoth
    <3>3. MinOverlap <= n
      BY <2>1, <3>1, <3>2
    <3> QED
      BY <2>1, <3>3 DEF n
  <2>3. CASE ~(quiet <= Len(samples))
    <3>1. 0 \in Nat /\ \A i \in DOMAIN samples : samples[i].overlap => i <= 0
      BY <2>1, <2>3
    <3>2. Cardinality(Both(samples)) <= 0 /\ Cardinality(Both(samples)) \in Nat
      BY <2>1, <3>1, FewBoth
    <3> QED
      BY <2>1, <3>2
  <2> QED
    BY <2>2, <2>3
<1> QED
  BY <1>1, EchoInit, EchoInvStep, PTL DEF RepSpec

RepKinds ==
  /\ request.kind \in {"none", "activity", "attendance", "page", "csv", "status"}
  /\ report.kind \in {"none", request.kind}

LEMMA RepKindsInit == RepInit => RepKinds
<1> SUFFICES ASSUME RepInit PROVE RepKinds
  OBVIOUS
<1>1. request \in Requests /\ report.kind = "none"
  BY DEF RepInit, Unanswered
<1>2. request.kind \in {"none", "activity", "attendance", "page", "csv", "status"}
  <2> DEFINE F == {f \in SUBSET Probes : Cardinality(f) <= 2}
             P == -1..(PerPageMax + 1)
             N == 0..(2 * PerPageMax + 1)
  <2>1. request \in {[kind |-> "none"]} \cup
          [kind : {"activity"}, today : Todays, range : {"week", "month", "year"}] \cup
          [kind : {"attendance"}, all : RecordLists] \cup
          [kind : {"page"}, total : N, perPage : P] \cup
          [kind : {"status"}, failing : F, active : 0..2, inProgress : 0..2, max : 1..2, sizes : Sizes, quota : {0, 20}] \cup
          [kind : {"csv"}, headed : {TRUE}, lines : Headed] \cup
          [kind : {"csv"}, headed : {FALSE}, lines : Bare]
    BY <1>1 DEF Requests
  <2> HIDE DEF F, P, N
  <2> DEFINE A == [kind : {"activity"}, today : Todays, range : {"week", "month", "year"}]
             B == [kind : {"attendance"}, all : RecordLists]
             C == [kind : {"page"}, total : N, perPage : P]
             D == [kind : {"status"}, failing : F, active : 0..2, inProgress : 0..2, max : 1..2,
                   sizes : Sizes, quota : {0, 20}]
             E == [kind : {"csv"}, headed : {TRUE}, lines : Headed]
             G == [kind : {"csv"}, headed : {FALSE}, lines : Bare]
  <2>2. \A x \in A : x.kind = "activity"
    OBVIOUS
  <2>3. \A x \in B : x.kind = "attendance"
    OBVIOUS
  <2>4. \A x \in C : x.kind = "page"
    OBVIOUS
  <2>5. \A x \in D : x.kind = "status"
    OBVIOUS
  <2>6. \A x \in E : x.kind = "csv"
    OBVIOUS
  <2>7. \A x \in G : x.kind = "csv"
    OBVIOUS
  <2>8. request \in {[kind |-> "none"]} \cup A \cup B \cup C \cup D \cup E \cup G
    BY <2>1
  <2> HIDE DEF A, B, C, D, E, G
  <2> QED
    BY <2>2, <2>3, <2>4, <2>5, <2>6, <2>7, <2>8
<1> QED
  BY <1>1, <1>2 DEF RepKinds

LEMMA RepKindsStep == RepKinds /\ [RepNext]_repVars => RepKinds'
<1> SUFFICES ASSUME RepKinds, [RepNext]_repVars PROVE RepKinds'
  OBVIOUS
<1>1. ASSUME NEW x, \/ Replies("activity", x) \/ Replies("attendance", x) \/ Replies("page", x)
                    \/ Replies("csv", x) \/ Replies("status", x)
      PROVE  RepKinds'
  BY <1>1 DEF Replies, RepKinds
<1>2. CASE UNCHANGED <<request, report>>
  BY <1>2 DEF RepKinds
<1>3. CASE Disable \/ (\E local, remote \in BOOLEAN : Sample(local, remote)) \/ UNCHANGED repVars
  BY <1>2, <1>3, ZenonT(40) DEF Disable, Sample, repVars
<1>4. CASE AnswerActivity \/ AnswerAttendance \/ AnswerPages \/ AnswerCsv \/ AnswerStatus
  BY <1>1, <1>4 DEF AnswerActivity, AnswerAttendance, AnswerPages, AnswerCsv, AnswerStatus
<1> QED
  BY <1>3, <1>4 DEF RepNext

LEMMA RepTypesGive == EchoInv /\ RepKinds => RepTypeOK
<1> SUFFICES ASSUME EchoInv, RepKinds PROVE RepTypeOK
  OBVIOUS
<1>1. \A i \in DOMAIN samples : samples[i] \in [overlap : BOOLEAN, localOnly : BOOLEAN]
  BY ElementOfSeq, LenProperties DEF EchoInv, Spoken
<1> QED
  BY <1>1 DEF EchoInv, RepKinds, RepTypeOK, Range

\* A report is of the kind asked for, and the window never longer than WINDOW_SAMPLES (Reports).
THEOREM RepTypeCorrect == RepSpec => []RepTypeOK
<1> QED
  BY RepTypesGive, EchoInit, EchoInvStep, RepKindsInit, RepKindsStep, PTL DEF RepSpec

HIDE RepAssumption DEF RepAssumption

-----------------------------------------------------------------------------
(***************************************************************************)
(* TOGETHER                                                                *)
(*                                                                         *)
(* A step is one of a single component and leaves the variables of the     *)
(* others alone, so what each keeps is kept.                               *)
(***************************************************************************)

ClientsInv ==
  BoardTypes /\ EngInv /\ PageInv /\ PreInv /\ ListInv /\ SearchInv /\ RightsInv /\ EchoInv /\ RepKinds

LEMMA ClientsInit == MCInit => ClientsInv
BY BoardTypesInit, EngInvInit, PageInvInit, PreInvInit, ListInvInit, SearchInit, RightsInit, EchoInit, RepKindsInit
   DEF MCInit, ClientsInv

LEMMA ClientsSteps ==
  ASSUME [MCNext]_mcVars
  PROVE  /\ [BoardNext]_boardVars /\ [EngNext]_engVars /\ [PageNext]_pageVars /\ [PreNext]_preVars
         /\ [ListNext]_pagesVars /\ [AccNext]_accVars /\ [RepNext]_repVars
<1>1. CASE UNCHANGED mcVars
  BY <1>1 DEF mcVars
<1>2. CASE MCNext
  BY <1>2 DEF MCNext
<1> QED
  BY <1>1, <1>2

LEMMA ClientsStep == ClientsInv /\ [MCNext]_mcVars => ClientsInv'
BY ClientsSteps, BoardTypesStep, EngInvStep, PageInvStep, PreInvStep, ListInvStep, SearchStep, RightsNext, EchoInvStep,
   RepKindsStep DEF ClientsInv

\* Every component of the pages and accounts keeps its variables in their types, whichever runs (MCClients).
THEOREM ClientsTypeCorrect == MCSpec => []ClientsTypeOK
<1>1. ClientsInv => ClientsTypeOK
  BY BoardTypesGive, EngTypesGive, PageTypesGive, PreTypesGive, ListTypesGive, RepTypesGive
     DEF ClientsInv, ClientsTypeOK, RightsInv
<1> QED
  BY <1>1, ClientsInit, ClientsStep, PTL DEF MCSpec
=============================================================================
