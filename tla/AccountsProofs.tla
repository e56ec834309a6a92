--------------------------- MODULE AccountsProofs ---------------------------
(***************************************************************************)
(* Sessions follow the accounts, an administrator remains and an import    *)
(* enrols everybody in its file, for any number of people, requests,       *)
(* logins and rows.                                                        *)
(***************************************************************************)
EXTENDS Accounts, TLAPS

USE AccAssumption DEF AccAssumption

\* The requests in flight, by kind.
IdleRequests  == [op : {"idle"}]
AdminRequests == [op : {"role", "active", "remove"}, step : {"write", "scan", "del", "row"},
                  by : People \X Ids, who : People, id : Ids, value : Roles \cup {"on", "off"},
                  found : SUBSET Session]
EmailRequests == [op : {"teacher", "student", "manual"}, step : {"read", "write", "enrol"}, who : People,
                  seen : UserRow, value : Roles]
FileRequests  == [op : {"usersCsv", "courseCsv"}, step : {"find", "create", "again", "enrol"},
                  file : SUBSET People, known : SUBSET (People \X Ids)]

Administers(x) == x.op \in {"role", "active", "remove"}
ByEmail(x)     == x.op \in {"teacher", "student", "manual"}
Imports(x)     == x.op \in {"usersCsv", "courseCsv"}

\* Row i of p's email is or was that of somebody who has logged in.
Used(p, i) == i \in 1..lastId[p] /\ (user[p].id = i => user[p].real)

RowsOK == \A p \in People : user[p].id <= lastId[p] /\ (~Exists(p) => user[p] = NoRow)

SessionsUsed == \A s \in sessions : Used(s.who, s.id)

LoginsUsed ==
  \A p \in People : LET l == login[p] IN
    /\ l.step \in {"update", "adopt"} => l.row.id # 0
    /\ l.step = "store" => Used(p, l.row.id)

\* A request of an administrator is about another account that there was.
AboutAnother(x) ==
  /\ x.id # 0 /\ x.by # <<x.who, x.id>>
  /\ Used(x.by[1], x.by[2])
  /\ x.op = "role" => x.value \in Roles
AboutOthers == \A d \in Desks : Administers(desk[d]) => AboutAnother(desk[d])

\* What is to be rewritten is a viewer, or a row nobody has logged in with.
TouchesOnly ==
  \A d \in Desks : LET x == desk[d] IN
    ByEmail(x) /\ x.step = "write" /\ x.seen.id # 0 => Touches(x, x.seen)

\* A session gives what its account gives, or is about to be deleted.
Agrees(s)  == user[s.who].id = s.id /\ user[s.who].active /\ s.role \in {"VIEWER", user[s.who].role}
Condemned(s) ==
  \E d \in Desks : /\ Administers(desk[d]) /\ desk[d].who = s.who
                   /\ \/ desk[d].step = "scan" /\ desk[d].id = s.id
                      \/ desk[d].step = "del" /\ s \in desk[d].found
SessionsFollow == ~crossed => \A s \in sessions : s.raced \/ Agrees(s) \/ Condemned(s)

RightsInv == AccTypeOK /\ RowsOK /\ SessionsUsed /\ LoginsUsed /\ AboutOthers /\ TouchesOnly
               /\ SessionsFollow /\ AdminRemains

\* What an import knows of the people of its file.
Knows(x, p)  == \E e \in x.known : e[1] = p
KnowsEnough(x) ==
  /\ \A e \in x.known : e[2] # 0
  /\ x.op = "courseCsv" /\ x.step = "again" => \A p \in x.file \ letGo : Exists(p) \/ Knows(x, p)
  /\ x.op = "courseCsv" /\ x.step = "enrol" => \A p \in x.file \ letGo : Knows(x, p)
ImportsKnow == \A d \in Desks : Imports(desk[d]) => KnowsEnough(desk[d])

ImportedStay == \A p \in imported \ letGo : Exists(p) /\ <<p, user[p].id>> \in enrolled

ImportInv == RightsInv /\ ImportsKnow /\ ImportedStay

-----------------------------------------------------------------------------
(* Types                                                                    *)

LEMMA RequestKinds ==
  ASSUME NEW x \in DeskRequest
  PROVE  /\ Administers(x) => x \in AdminRequests
         /\ ByEmail(x) => x \in EmailRequests
         /\ Imports(x) => x \in FileRequests
BY DEF DeskRequest, AdminRequests, EmailRequests, FileRequests, Administers, ByEmail, Imports

LEMMA KindsAreRequests ==
  /\ [op |-> "idle"] \in DeskRequest
  /\ AdminRequests \subseteq DeskRequest
  /\ EmailRequests \subseteq DeskRequest
  /\ FileRequests \subseteq DeskRequest
BY DEF DeskRequest, AdminRequests, EmailRequests, FileRequests

LEMMA RequestOpened ==
  ASSUME AccTypeOK, NEW d \in Desks, NEW x \in DeskRequest, DeskGoes(d, x)
  PROVE  /\ desk' \in [Desks -> DeskRequest] /\ desk'[d] = x
         /\ \A e \in Desks : e # d => desk'[e] = desk[e]
BY DEF AccTypeOK, DeskGoes

LEMMA Ended ==
  ASSUME AccTypeOK, NEW d \in Desks, DeskEnds(d)
  PROVE  /\ desk' \in [Desks -> DeskRequest] /\ desk'[d] = [op |-> "idle"]
         /\ \A e \in Desks : e # d => desk'[e] = desk[e]
BY RequestOpened, KindsAreRequests DEF DeskEnds

LEMMA RowTypes ==
  /\ NoRow \in UserRow
  /\ \A i \in Ids, r \in Roles, b \in BOOLEAN : Row(i, r, b) \in UserRow
BY DEF NoRow, UserRow, Ids, Roles, Row

LEMMA InsertTypes ==
  ASSUME AccTypeOK, NEW Q \in SUBSET People, NEW r \in Roles, Insert(Q, r)
  PROVE  user' \in [People -> UserRow] /\ lastId' \in [People -> Ids]
<1>1. \A p \in People : p \in Q => lastId[p] + 1 \in Ids
  BY DEF AccTypeOK, Insert, Ids
<1>2. \A p \in People : p \in Q => Row(lastId[p] + 1, r, FALSE) \in UserRow
  BY <1>1, RowTypes
<1> QED
  BY <1>1, <1>2 DEF AccTypeOK, Insert

LEMMA AccInitTypes == AccInit => AccTypeOK
<1> SUFFICES ASSUME AccInit PROVE AccTypeOK
  OBVIOUS
<1>1. 1 \in Ids /\ 0 \in Ids
  BY DEF Ids
<1>2. user \in [People -> UserRow]
  <2>1. PICK also \in SUBSET Others :
          user = [p \in People |-> IF p \in also \cup {Admin} THEN Row(1, "ADMIN", TRUE) ELSE NoRow]
    BY DEF AccInit
  <2>2. Row(1, "ADMIN", TRUE) \in UserRow
    BY <1>1, RowTypes DEF Roles
  <2> QED
    BY <2>1, <2>2, RowTypes
<1>3. lastId \in [People -> Ids]
  <2>1. \A p \in People : user[p].id \in Ids
    BY <1>2 DEF UserRow
  <2>2. lastId = [p \in People |-> user[p].id]
    BY DEF AccInit
  <2> QED
    BY <2>1, <2>2
<1>4. sessions \subseteq Session
  <2>1. sessions = {[who |-> p, id |-> 1, role |-> "ADMIN", raced |-> FALSE] : p \in {q \in People : Exists(q)}}
    BY DEF AccInit
  <2>2. \A p \in People : [who |-> p, id |-> 1, role |-> "ADMIN", raced |-> FALSE] \in Session
    BY <1>1 DEF Session, Roles
  <2> QED
    BY <2>1, <2>2
<1>5. login \in [People -> [step : {"none", "keycloak", "email", "adopt", "create", "update", "store"}, row : UserRow]]
  BY RowTypes DEF AccInit, NoLogin
<1>6. desk \in [Desks -> DeskRequest]
  BY KindsAreRequests DEF AccInit
<1>7. deskActs \in 0..MaxDeskActs /\ logins \in 0..MaxLogins
  BY DEF AccInit
<1> QED
  BY <1>2, <1>3, <1>4, <1>5, <1>6, <1>7 DEF AccInit, AccTypeOK

\* A request that goes on, and one that is opened.
LEMMA AdminGoes ==
  ASSUME NEW x \in DeskRequest, Administers(x)
  PROVE  /\ \A t \in {"scan", "row"} : [x EXCEPT !.step = t] \in DeskRequest
         /\ \A S \in SUBSET Session : [x EXCEPT !.step = "del", !.found = S] \in DeskRequest
         /\ x.who \in People /\ x.id \in Ids /\ x.found \subseteq Session /\ x.by \in People \X Ids
<1>1. x \in AdminRequests
  BY RequestKinds
<1> QED
  BY <1>1, KindsAreRequests DEF AdminRequests

LEMMA EmailGoes ==
  ASSUME NEW x \in DeskRequest, ByEmail(x)
  PROVE  /\ \A t \in {"write", "enrol"}, r \in UserRow : [x EXCEPT !.step = t, !.seen = r] \in DeskRequest
         /\ x.who \in People /\ x.seen \in UserRow /\ x.value \in Roles
<1>1. x \in EmailRequests
  BY RequestKinds
<1> QED
  BY <1>1, KindsAreRequests DEF EmailRequests

LEMMA ImportGoes ==
  ASSUME NEW x \in DeskRequest, Imports(x)
  PROVE  /\ \A t \in {"create", "enrol"}, K \in SUBSET (People \X Ids) : [x EXCEPT !.step = t, !.known = K] \in DeskRequest
         /\ [x EXCEPT !.step = "again"] \in DeskRequest
         /\ x.file \subseteq People /\ x.known \subseteq People \X Ids
<1>1. x \in FileRequests
  BY RequestKinds
<1> QED
  BY <1>1, KindsAreRequests DEF FileRequests

\* Opening a request, and what it leaves alone.
LEMMA OpensTypes ==
  ASSUME AccTypeOK, NEW d \in Desks, NEW x \in DeskRequest, DeskOpens(d, x)
  PROVE  AccTypeOK'
<1>1. desk' \in [Desks -> DeskRequest]
  BY RequestOpened DEF DeskOpens
<1>2. deskActs' \in 0..MaxDeskActs
  BY DEF DeskOpens, AccTypeOK
<1> QED
  BY <1>1, <1>2 DEF DeskOpens, AccTypeOK, rows, course

LEMMA RequestTypes ==
  ASSUME AccTypeOK, NEW d \in Desks, NEW s \in sessions, NEW p \in People
  PROVE  /\ \A op \in {"role", "active", "remove"}, v \in Roles \cup {"on", "off"} : AdminRequest(d, s, p, op, v) => AccTypeOK'
         /\ \A r \in Roles : CreateManual(d, s, p, r) => AccTypeOK'
<1>1. ASSUME NEW op \in {"role", "active", "remove"}, NEW v \in Roles \cup {"on", "off"}, AdminRequest(d, s, p, op, v)
      PROVE  AccTypeOK'
  <2> DEFINE x == [op |-> op, step |-> IF op = "remove" THEN "scan" ELSE "write", by |-> <<s.who, s.id>>,
                   who |-> p, id |-> user[p].id, value |-> v, found |-> {}]
  <2>1. user[p].id \in Ids /\ s.who \in People /\ s.id \in Ids
    BY DEF AccTypeOK, UserRow, Session
  <2>2. x \in DeskRequest
    BY <2>1, KindsAreRequests DEF AdminRequests
  <2> QED
    BY <1>1, <2>2, OpensTypes DEF AdminRequest
<1>2. ASSUME NEW r \in Roles, CreateManual(d, s, p, r) PROVE AccTypeOK'
  <2> DEFINE x == [op |-> "manual", step |-> "read", who |-> p, seen |-> NoRow, value |-> r]
  <2>1. x \in DeskRequest
    BY RowTypes, KindsAreRequests DEF EmailRequests
  <2> QED
    BY <1>2, <2>1, OpensTypes DEF CreateManual
<1> QED
  BY <1>1, <1>2

LEMMA MoodleTypes ==
  ASSUME AccTypeOK, NEW d \in Desks, NEW p \in People, NEW op \in {"teacher", "student"}, MoodleSync(d, p, op)
  PROVE  AccTypeOK'
<1> DEFINE x == [op |-> op, step |-> "read", who |-> p, seen |-> NoRow,
                 value |-> IF op = "teacher" THEN "MODERATOR" ELSE "VIEWER"]
<1>1. x \in DeskRequest
  BY RowTypes, KindsAreRequests DEF EmailRequests, Roles
<1> QED
  BY <1>1, OpensTypes DEF MoodleSync

LEMMA ImportCsvTypes ==
  ASSUME AccTypeOK, NEW d \in Desks, NEW op \in {"usersCsv", "courseCsv"}, NEW file \in SUBSET People,
         ImportCsv(d, op, file)
  PROVE  AccTypeOK'
<1> DEFINE x == [op |-> op, step |-> "find", file |-> file, known |-> {}]
<1>1. x \in DeskRequest
  BY KindsAreRequests DEF FileRequests
<1> QED
  BY <1>1, OpensTypes DEF ImportCsv

LEMMA LoginTypes ==
  ASSUME AccTypeOK, NEW p \in People,
         Login(p) \/ FindByKeycloakId(p) \/ FindByEmail(p) \/ SyncRow(p) \/ StoreSession(p)
  PROVE  AccTypeOK'
<1>1. user[p] \in UserRow /\ login[p].row \in UserRow /\ NoLogin.row \in UserRow /\ NoLogin.step = "none"
  BY RowTypes DEF AccTypeOK, NoLogin
<1>2. CASE Login(p)
  BY <1>2 DEF Login, AccTypeOK, rows, course
<1>3. CASE FindByKeycloakId(p)
  BY <1>1, <1>3 DEF FindByKeycloakId, AccTypeOK, rows, course, counters
<1>4. CASE FindByEmail(p)
  BY <1>1, <1>4 DEF FindByEmail, AccTypeOK, rows, course, counters
<1>5. CASE SyncRow(p)
  <2>1. user' \in [People -> UserRow] /\ lastId' \in [People -> Ids]
    <3>1. CASE login[p].step = "create" /\ Exists(p)
      BY <1>5, <3>1 DEF SyncRow, rows, AccTypeOK
    <3>2. CASE login[p].step = "create" /\ ~Exists(p)
      <4>1. lastId[p] + 1 \in Ids
        BY <1>5, <3>2 DEF SyncRow, AccTypeOK, Ids
      <4>2. Row(lastId[p] + 1, "VIEWER", TRUE) \in UserRow
        BY <4>1, RowTypes DEF Roles
      <4> QED
        BY <1>5, <3>2, <4>1, <4>2 DEF SyncRow, AccTypeOK
    <3>3. CASE login[p].step # "create"
      <4>1. [user[p] EXCEPT !.real = TRUE] \in UserRow
        BY <1>1 DEF UserRow
      <4>2. lastId' = lastId /\ (user' = user \/ user' = [user EXCEPT ![p].real = TRUE])
        BY <1>5, <3>3 DEF SyncRow
      <4> QED
        BY <4>1, <4>2 DEF AccTypeOK
    <3> QED
      BY <3>1, <3>2, <3>3
  <2>2. user'[p] \in UserRow
    BY <2>1
  <2>3. \E l \in {[step |-> "store", row |-> user'[p]], NoLogin} : login' = [login EXCEPT ![p] = l]
    BY <1>5 DEF SyncRow
  <2>4. login' \in [People -> [step : {"none", "keycloak", "email", "adopt", "create", "update", "store"}, row : UserRow]]
    BY <1>1, <2>2, <2>3 DEF AccTypeOK, NoLogin
  <2> QED
    BY <1>5, <2>1, <2>4 DEF SyncRow, AccTypeOK, course, counters
<1>6. CASE StoreSession(p)
  <2> DEFINE row == login[p].row
  <2>1. [who |-> p, id |-> row.id, role |-> row.role, raced |-> row # user[p]] \in Session
    BY <1>1 DEF Session, UserRow
  <2>2. sessions' \subseteq Session
    BY <1>6, <2>1 DEF StoreSession, AccTypeOK
  <2>3. login' \in [People -> [step : {"none", "keycloak", "email", "adopt", "create", "update", "store"}, row : UserRow]]
    BY <1>1, <1>6 DEF StoreSession, AccTypeOK, NoLogin
  <2> QED
    BY <1>6, <2>2, <2>3 DEF StoreSession, AccTypeOK, rows, course, counters
<1> QED
  BY <1>2, <1>3, <1>4, <1>5, <1>6

LEMMA AdminTypes ==
  ASSUME AccTypeOK, NEW d \in Desks, AdminWrite(d) \/ ScanSessions(d) \/ DeleteSessions(d) \/ RemoveRow(d),
         desk[d].op = "role" /\ desk[d].step = "write" => desk[d].value \in Roles
  PROVE  AccTypeOK'
<1> DEFINE x == desk[d]
<1> USE DEF rows, course, counters
<1>1. x \in DeskRequest /\ Administers(x)
  BY DEF AccTypeOK, AdminWrite, ScanSessions, DeleteSessions, RemoveRow, Administers
<1>2. x.who \in People /\ x.found \subseteq Session /\ user[x.who] \in UserRow
  BY <1>1, AdminGoes DEF AccTypeOK
<1>3. CASE AdminWrite(d)
  <2>1. DeskGoes(d, [x EXCEPT !.step = "scan"]) \/ DeskEnds(d) => desk' \in [Desks -> DeskRequest]
    BY <1>1, AdminGoes, RequestOpened, Ended
  <2>2. x.op = "role" => x.value \in Roles
    BY <1>3 DEF AdminWrite
  <2>3. user' \in [People -> UserRow]
    <3>1. /\ x.op = "role" => [user[x.who] EXCEPT !.role = x.value] \in UserRow
          /\ [user[x.who] EXCEPT !.active = (x.value = "on")] \in UserRow
      BY <1>2, <2>2 DEF UserRow
    <3>2. \/ user' = user \/ user' = [user EXCEPT ![x.who].active = (x.value = "on")]
          \/ x.op = "role" /\ user' = [user EXCEPT ![x.who].role = x.value]
      BY <1>3 DEF AdminWrite
    <3> QED
      BY <1>2, <3>1, <3>2 DEF AccTypeOK
  <2>4. crossed' \in BOOLEAN
    BY <1>3 DEF AdminWrite, UnlessEntitled, AccTypeOK
  <2> QED
    BY <1>3, <2>1, <2>3, <2>4 DEF AdminWrite, AccTypeOK
<1>4. CASE ScanSessions(d)
  <2>1. {s \in sessions : s.who = x.who /\ s.id = x.id} \subseteq Session
    BY DEF AccTypeOK
  <2>2. desk' \in [Desks -> DeskRequest]
    BY <1>1, <1>4, <2>1, AdminGoes, RequestOpened DEF ScanSessions
  <2> QED
    BY <1>4, <2>2 DEF ScanSessions, AccTypeOK
<1>5. CASE DeleteSessions(d)
  <2>1. desk' \in [Desks -> DeskRequest]
    BY <1>1, <1>5, AdminGoes, RequestOpened, Ended DEF DeleteSessions
  <2> QED
    BY <1>5, <2>1 DEF DeleteSessions, AccTypeOK
<1>6. CASE RemoveRow(d)
  <2>1. desk' \in [Desks -> DeskRequest]
    BY <1>6, Ended DEF RemoveRow
  <2>2. user' \in [People -> UserRow] /\ enrolled' \subseteq People \X Ids /\ letGo' \subseteq People /\ crossed' \in BOOLEAN
    <3>1. \/ user' = [user EXCEPT ![x.who] = NoRow] /\ enrolled' = {e \in enrolled : e[1] # x.who}
             /\ letGo' = letGo \cup ({x.who} \cap InFiles) /\ crossed' = UnlessEntitled(x.by)
          \/ UNCHANGED <<user, enrolled, letGo, crossed>>
      BY <1>6 DEF RemoveRow
    <3>2. UnlessEntitled(x.by) \in BOOLEAN
      BY DEF UnlessEntitled, AccTypeOK
    <3> QED
      BY <1>2, <3>1, <3>2, RowTypes DEF AccTypeOK
  <2>3. sessions' \subseteq Session
    <3>1. \A s \in sessions : s \in Session /\ [s EXCEPT !.raced = TRUE] \in Session
      BY DEF AccTypeOK, Session
    <3>2. sessions' = sessions \/ sessions' = {IF s.who = x.who THEN [s EXCEPT !.raced = TRUE] ELSE s : s \in sessions}
      BY <1>6 DEF RemoveRow
    <3>3. \A s \in sessions : (IF s.who = x.who THEN [s EXCEPT !.raced = TRUE] ELSE s) \in Session
      BY <3>1
    <3>4. CASE sessions' = sessions
      BY <3>4 DEF AccTypeOK
    <3>5. CASE sessions' = {IF s.who = x.who THEN [s EXCEPT !.raced = TRUE] ELSE s : s \in sessions}
      BY <3>3, <3>5
    <3> QED
      BY <3>2, <3>4, <3>5
  <2> QED
    BY <1>6, <2>1, <2>2, <2>3 DEF RemoveRow, AccTypeOK
<1> QED
  BY <1>3, <1>4, <1>5, <1>6

LEMMA EmailTypes ==
  ASSUME AccTypeOK, NEW d \in Desks, ByEmailRead(d) \/ ByEmailWrite(d) \/ MoodleEnrols(d)
  PROVE  AccTypeOK'
<1> DEFINE x == desk[d]
<1> USE DEF rows, course, counters
<1>1. x \in DeskRequest /\ ByEmail(x)
  BY DEF AccTypeOK, ByEmailRead, ByEmailWrite, MoodleEnrols, ByEmail
<1>2. x.who \in People /\ x.value \in Roles /\ x.seen \in UserRow /\ user[x.who] \in UserRow
  BY <1>1, EmailGoes DEF AccTypeOK
<1>3. CASE ByEmailRead(d)
  <2>1. \E t \in {"write", "enrol"} : DeskEnds(d) \/ DeskGoes(d, [x EXCEPT !.step = t, !.seen = user[x.who]])
    BY <1>3 DEF ByEmailRead
  <2>2. desk' \in [Desks -> DeskRequest]
    BY <1>1, <1>2, <2>1, EmailGoes, RequestOpened, Ended
  <2> QED
    BY <1>3, <2>2 DEF ByEmailRead, AccTypeOK
<1>4. CASE ByEmailWrite(d)
  <2>1. user' \in [People -> UserRow] /\ lastId' \in [People -> Ids] /\ crossed' \in BOOLEAN
    <3>1. CASE Insert({x.who}, x.value) /\ UNCHANGED crossed
      BY <1>2, <3>1, InsertTypes DEF AccTypeOK
    <3>2. CASE user' = [user EXCEPT ![x.who].role = x.value] /\ UNCHANGED lastId
               /\ crossed' = (crossed \/ user[x.who].role # x.seen.role \/ user[x.who].real # x.seen.real)
      <4>1. [user[x.who] EXCEPT !.role = x.value] \in UserRow
        BY <1>2 DEF UserRow
      <4> QED
        BY <1>2, <3>2, <4>1 DEF AccTypeOK
    <3>3. CASE UNCHANGED <<rows, crossed>>
      BY <3>3 DEF AccTypeOK
    <3> QED
      BY <1>4, <3>1, <3>2, <3>3 DEF ByEmailWrite
  <2>2. DeskEnds(d) \/ DeskGoes(d, [x EXCEPT !.step = "enrol", !.seen = user'[x.who]])
    BY <1>4 DEF ByEmailWrite
  <2>3. user'[x.who] \in UserRow
    BY <1>2, <2>1
  <2>4. desk' \in [Desks -> DeskRequest]
    BY <1>1, <2>2, <2>3, EmailGoes, RequestOpened, Ended
  <2> QED
    BY <1>4, <2>1, <2>4 DEF ByEmailWrite, AccTypeOK
<1>5. CASE MoodleEnrols(d)
  <2>1. x.seen.id \in Ids
    BY <1>2 DEF UserRow
  <2>2. desk' \in [Desks -> DeskRequest]
    BY <1>5, Ended DEF MoodleEnrols
  <2> QED
    BY <1>2, <1>5, <2>1, <2>2 DEF MoodleEnrols, AccTypeOK
<1> QED
  BY <1>3, <1>4, <1>5

LEMMA FoundTypes ==
  ASSUME AccTypeOK, NEW Q \in SUBSET People
  PROVE  Found(Q) \subseteq People \X Ids
BY DEF AccTypeOK, Found, UserRow

LEMMA ImportTypes ==
  ASSUME AccTypeOK, NEW d \in Desks, ImportFind(d) \/ ImportCreate(d) \/ ImportEnrol(d)
  PROVE  AccTypeOK'
<1> DEFINE x == desk[d]
<1> USE DEF rows, course, counters
<1>1. x \in DeskRequest /\ Imports(x)
  BY DEF AccTypeOK, ImportFind, ImportCreate, ImportEnrol, Imports
<1>2. x.file \subseteq People /\ x.known \subseteq People \X Ids /\ MissingOf(x) \subseteq People
  BY <1>1, ImportGoes DEF MissingOf
<1>3. CASE ImportFind(d)
  <2>1. \/ DeskGoes(d, [x EXCEPT !.step = "create", !.known = Found(x.file)])
        \/ DeskGoes(d, [x EXCEPT !.step = "enrol", !.known = x.known \cup Found(MissingOf(x))])
    BY <1>3 DEF ImportFind
  <2>2. Found(x.file) \subseteq People \X Ids /\ Found(MissingOf(x)) \subseteq People \X Ids
    BY <1>2, FoundTypes
  <2>3. desk' \in [Desks -> DeskRequest]
    BY <1>1, <1>2, <2>1, <2>2, ImportGoes, RequestOpened
  <2> QED
    BY <1>3, <2>3 DEF ImportFind, AccTypeOK
<1>4. CASE ImportCreate(d)
  <2>1. PICK role \in Roles : Insert({p \in MissingOf(x) : ~Exists(p)}, role)
    BY <1>4 DEF ImportCreate, Roles
  <2>2. user' \in [People -> UserRow] /\ lastId' \in [People -> Ids]
    BY <1>2, <2>1, InsertTypes
  <2>3. desk' \in [Desks -> DeskRequest]
    BY <1>1, <1>4, ImportGoes, RequestOpened, Ended DEF ImportCreate
  <2> QED
    BY <1>4, <2>2, <2>3 DEF ImportCreate, AccTypeOK
<1>5. CASE ImportEnrol(d)
  <2>1. desk' \in [Desks -> DeskRequest]
    BY <1>5, Ended DEF ImportEnrol
  <2> QED
    BY <1>2, <1>5, <2>1 DEF ImportEnrol, AccTypeOK
<1> QED
  BY <1>3, <1>4, <1>5

LEMMA CourseTypes ==
  ASSUME AccTypeOK, NEW p \in People, Enroll(p) \/ Unenroll(p)
  PROVE  AccTypeOK'
<1>1. user[p].id \in Ids
  BY DEF AccTypeOK, UserRow
<1> QED
  BY <1>1 DEF Enroll, Unenroll, AccTypeOK, rows

-----------------------------------------------------------------------------
(* What a step may do to the rows                                           *)

\* A row stays that of who has logged in, or it is removed, or a new one takes its place.
RowMoves(p) ==
  /\ lastId'[p] >= lastId[p]
  /\ \/ user'[p].id = user[p].id /\ (user[p].real => user'[p].real)
     \/ user'[p].id = 0
     \/ user'[p].id > lastId[p]

\* A row that there is keeps its rights.
KeepsRights(p) ==
  Exists(p) => /\ user'[p].id = user[p].id /\ user'[p].role = user[p].role
               /\ user'[p].active = user[p].active /\ (user[p].real => user'[p].real)

LEMMA UsedKept ==
  ASSUME AccTypeOK, AccTypeOK', NEW p \in People, RowMoves(p), NEW i, Used(p, i)
  PROVE  Used(p, i)'
<1>1. lastId[p] \in Nat /\ lastId'[p] \in Nat /\ user[p].id \in Nat /\ user'[p].id \in Nat /\ i \in 1..lastId[p]
  BY DEF AccTypeOK, UserRow, Ids, Used
<1> QED
  BY <1>1 DEF Used, RowMoves

LEMMA RowsStay ==
  ASSUME AccTypeOK, RowsOK, UNCHANGED rows
  PROVE  RowsOK' /\ \A p \in People : RowMoves(p) /\ KeepsRights(p)
BY DEF AccTypeOK, RowsOK, RowMoves, KeepsRights, Exists, rows, UserRow, Ids

LEMMA InsertMoves ==
  ASSUME AccTypeOK, RowsOK, NEW Q \in SUBSET People, \A p \in Q : ~Exists(p), NEW r \in Roles, Insert(Q, r)
  PROVE  RowsOK' /\ \A p \in People : RowMoves(p) /\ KeepsRights(p)
<1>1. ASSUME NEW p \in People
      PROVE  /\ p \in Q => lastId'[p] = lastId[p] + 1 /\ user'[p].id = lastId[p] + 1
             /\ p \notin Q => lastId'[p] = lastId[p] /\ user'[p] = user[p]
             /\ lastId[p] \in Nat
  BY DEF Insert, Row, AccTypeOK, Ids
<1>2. RowsOK'
  BY <1>1 DEF RowsOK, Exists, AccTypeOK
<1>3. ASSUME NEW p \in People PROVE RowMoves(p) /\ KeepsRights(p)
  BY <1>1 DEF RowMoves, KeepsRights
<1> QED
  BY <1>2, <1>3

-----------------------------------------------------------------------------
(* Steps that leave the rights of everybody alone                           *)

\* A request that administers goes on.
SameRequest(d) ==
  Administers(desk'[d]) => /\ Administers(desk[d])
                           /\ desk'[d].op = desk[d].op /\ desk'[d].by = desk[d].by
                           /\ desk'[d].who = desk[d].who /\ desk'[d].id = desk[d].id
                           /\ desk'[d].value = desk[d].value

LEMMA UsesKept ==
  ASSUME RightsInv, AccTypeOK', \A p \in People : RowMoves(p), \A d \in Desks : SameRequest(d),
         \A s \in sessions' : \E t \in sessions : s.who = t.who /\ s.id = t.id
  PROVE  SessionsUsed' /\ AboutOthers'
<1> USE DEF RightsInv
<1>1. SessionsUsed'
  <2> SUFFICES ASSUME NEW s \in sessions' PROVE Used(s.who, s.id)'
    BY DEF SessionsUsed
  <2>1. PICK t \in sessions : s.who = t.who /\ s.id = t.id
    OBVIOUS
  <2>2. t.who \in People /\ Used(t.who, t.id)
    BY DEF AccTypeOK, Session, SessionsUsed
  <2>3. Used(t.who, t.id)'
    BY <2>2, UsedKept
  <2> QED
    BY <2>1, <2>3 DEF Used
<1>2. AboutOthers'
  <2> SUFFICES ASSUME NEW d \in Desks, Administers(desk'[d]) PROVE AboutAnother(desk[d])'
    BY DEF AboutOthers, Administers
  <2>1. Administers(desk[d]) /\ SameRequest(d) /\ AboutAnother(desk[d])
    BY DEF SameRequest, AboutOthers
  <2>2. Used(desk[d].by[1], desk[d].by[2])'
    <3>1. PICK b \in People, i \in Ids : desk[d].by[1] = b /\ desk[d].by[2] = i
      BY <2>1, AdminGoes DEF AccTypeOK
    <3>2. Used(b, i)'
      BY <2>1, <3>1, UsedKept DEF AboutAnother
    <3>3. desk'[d].by = desk[d].by
      BY <2>1 DEF SameRequest
    <3> QED
      BY <3>1, <3>2, <3>3 DEF Used
  <2> QED
    BY <2>1, <2>2 DEF AboutAnother, SameRequest
<1> QED
  BY <1>1, <1>2

LEMMA RightsKept ==
  ASSUME RightsInv, AccTypeOK', RowsOK', \A p \in People : RowMoves(p) /\ KeepsRights(p),
         LoginsUsed', TouchesOnly', crossed' = crossed, sessions' \subseteq sessions,
         \A d \in Desks : \/ desk'[d] = desk[d]
                          \/ ~Administers(desk[d]) /\ ~Administers(desk'[d])
  PROVE  RightsInv'
<1> USE DEF RightsInv
<1>1. \A s \in sessions : s.who \in People /\ s.id # 0
  BY DEF AccTypeOK, Session, SessionsUsed, Used
<1>2. SessionsUsed' /\ AboutOthers'
  <2>1. \A d \in Desks : SameRequest(d)
    BY DEF SameRequest
  <2> QED
    BY <2>1, UsesKept
<1>4. SessionsFollow'
  <2> SUFFICES ASSUME ~crossed, NEW s \in sessions' PROVE s.raced \/ Agrees(s)' \/ Condemned(s)'
    BY DEF SessionsFollow
  <2>1. Agrees(s) => Agrees(s)'
    BY <1>1 DEF Agrees, KeepsRights, Exists
  <2>2. Condemned(s) => Condemned(s)'
    BY DEF Condemned
  <2> QED
    BY <2>1, <2>2 DEF SessionsFollow
<1>5. AdminRemains'
  <2> SUFFICES ASSUME ~crossed PROVE \E p \in People : (user[p].role = "ADMIN" /\ user[p].active /\ user[p].real)'
    BY DEF AdminRemains
  <2>1. PICK p \in People : user[p].role = "ADMIN" /\ user[p].active /\ user[p].real
    BY DEF AdminRemains
  <2>2. Exists(p)
    BY <2>1 DEF RowsOK, NoRow
  <2> QED
    BY <2>1, <2>2 DEF KeepsRights
<1> QED
  BY <1>2, <1>4, <1>5

\* When desk d alone changes, and not into something to be rewritten by email.
LEMMA TouchesKept ==
  ASSUME TouchesOnly, NEW d \in Desks, \A e \in Desks : e # d => desk'[e] = desk[e],
         ByEmail(desk'[d]) => desk'[d].step # "write"
  PROVE  TouchesOnly'
BY DEF TouchesOnly, ByEmail, Touches

LEMMA LoginsKept ==
  ASSUME RightsInv, AccTypeOK', \A p \in People : RowMoves(p), UNCHANGED login
  PROVE  LoginsUsed'
BY UsedKept DEF RightsInv, LoginsUsed

\* A request that does not administer is opened.
LEMMA OpensKeeps ==
  ASSUME RightsInv, AccTypeOK', NEW d \in Desks, NEW x \in DeskRequest, DeskOpens(d, x), ~Administers(x),
         ByEmail(x) => x.step # "write"
  PROVE  RightsInv'
<1> USE DEF RightsInv
<1>1. UNCHANGED rows /\ UNCHANGED <<login, sessions, crossed>> /\ desk[d].op = "idle"
  BY DEF DeskOpens
<1>2. desk'[d] = x /\ \A e \in Desks : e # d => desk'[e] = desk[e]
  BY RequestOpened DEF DeskOpens
<1>3. RowsOK' /\ \A p \in People : RowMoves(p) /\ KeepsRights(p)
  BY <1>1, RowsStay
<1>4. TouchesOnly'
  BY <1>2, TouchesKept
<1>5. LoginsUsed'
  BY <1>1, <1>3, LoginsKept
<1>6. ~Administers(desk[d]) /\ ~Administers(desk'[d])
  BY <1>1, <1>2 DEF Administers
<1> QED
  BY <1>1, <1>2, <1>3, <1>4, <1>5, <1>6, RightsKept

LEMMA RightsInit == AccInit => RightsInv
<1> SUFFICES ASSUME AccInit PROVE RightsInv
  OBVIOUS
<1>1. AccTypeOK
  BY AccInitTypes
<1>2. PICK also \in SUBSET Others :
        user = [p \in People |-> IF p \in also \cup {Admin} THEN Row(1, "ADMIN", TRUE) ELSE NoRow]
  BY DEF AccInit
<1>3. \A p \in People : /\ lastId[p] = user[p].id /\ login[p].step = "none"
                        /\ user[p] = Row(1, "ADMIN", TRUE) \/ user[p] = NoRow
  BY <1>2 DEF AccInit, NoLogin
<1>4. RowsOK
  BY <1>1, <1>3 DEF RowsOK, Exists, Row, NoRow, AccTypeOK, Ids
<1>5. \A s \in sessions : s.who \in People /\ user[s.who].id # 0 /\ s.id = 1 /\ s.role = "ADMIN"
  <2>1. sessions = {[who |-> p, id |-> 1, role |-> "ADMIN", raced |-> FALSE] : p \in {q \in People : Exists(q)}}
    BY DEF AccInit
  <2> QED
    BY <2>1 DEF Exists
<1>6. \A s \in sessions : user[s.who] = Row(1, "ADMIN", TRUE)
  <2> SUFFICES ASSUME NEW s \in sessions PROVE user[s.who] = Row(1, "ADMIN", TRUE)
    OBVIOUS
  <2>1. s.who \in People /\ user[s.who].id # 0
    BY <1>5
  <2>2. NoRow.id = 0
    BY DEF NoRow
  <2> QED
    BY <1>3, <2>1, <2>2
<1>7. SessionsUsed
  <2> SUFFICES ASSUME NEW s \in sessions PROVE Used(s.who, s.id)
    BY DEF SessionsUsed
  <2>1. Row(1, "ADMIN", TRUE).id = 1 /\ Row(1, "ADMIN", TRUE).real
    BY DEF Row
  <2>2. s.who \in People /\ s.id = 1 /\ user[s.who] = Row(1, "ADMIN", TRUE)
    BY <1>5, <1>6
  <2>3. lastId[s.who] = user[s.who].id
    BY <1>3, <2>2
  <2>4. user[s.who].id = 1 /\ user[s.who].real
    BY <2>1, <2>2
  <2> QED
    BY <2>3, <2>4, <2>2 DEF Used
<1>8. SessionsFollow
  BY <1>5, <1>6 DEF SessionsFollow, Agrees, Row
<1>9. AdminRemains
  BY <1>2 DEF AdminRemains, Row, People
<1>10. \A d \in Desks : desk[d].op = "idle"
  BY DEF AccInit
<1>11. AboutOthers
  BY <1>10 DEF AboutOthers, Administers
<1>13. LoginsUsed
  <2>1. \A p \in People : login[p].step = "none"
    BY <1>3
  <2> QED
    BY <2>1 DEF LoginsUsed
<1>12. TouchesOnly
  BY <1>10, Zenon DEF TouchesOnly, ByEmail
<1> QED
  BY <1>1, <1>4, <1>7, <1>8, <1>9, <1>11, <1>12, <1>13 DEF RightsInv

LEMMA CourseKeeps ==
  ASSUME RightsInv, NEW p \in People, Enroll(p) \/ Unenroll(p)
  PROVE  RightsInv'
<1> USE DEF RightsInv
<1>1. UNCHANGED rows /\ UNCHANGED <<login, sessions, crossed, desk>>
  BY DEF Enroll, Unenroll
<1>2. AccTypeOK'
  BY CourseTypes
<1>3. RowsOK' /\ \A q \in People : RowMoves(q) /\ KeepsRights(q)
  BY <1>1, RowsStay
<1>4. LoginsUsed'
  BY <1>1, <1>2, <1>3, LoginsKept
<1>5. TouchesOnly'
  BY <1>1 DEF TouchesOnly, Touches
<1> QED
  BY <1>1, <1>2, <1>3, <1>4, <1>5, RightsKept

LEMMA LogoutKeeps ==
  ASSUME RightsInv, NEW s \in sessions, Logout(s)
  PROVE  RightsInv'
<1> USE DEF RightsInv
<1>1. UNCHANGED rows /\ UNCHANGED <<login, crossed, desk>> /\ sessions' \subseteq sessions
  BY DEF Logout
<1>2. AccTypeOK'
  BY DEF Logout, AccTypeOK, rows, course, counters
<1>3. RowsOK' /\ \A q \in People : RowMoves(q) /\ KeepsRights(q)
  BY <1>1, RowsStay
<1>4. LoginsUsed'
  BY <1>1, <1>2, <1>3, LoginsKept
<1>5. TouchesOnly'
  BY <1>1 DEF TouchesOnly, Touches
<1> QED
  BY <1>1, <1>2, <1>3, <1>4, <1>5, RightsKept

\* Logins: what is found, and what is synchronised.
LEMMA FindKeeps ==
  ASSUME RightsInv, NEW p \in People, Login(p) \/ FindByKeycloakId(p) \/ FindByEmail(p)
  PROVE  RightsInv'
<1> USE DEF RightsInv
<1>1. UNCHANGED rows /\ UNCHANGED <<sessions, crossed, desk>>
  BY DEF Login, FindByKeycloakId, FindByEmail
<1>2. AccTypeOK'
  BY LoginTypes
<1>3. RowsOK' /\ \A q \in People : RowMoves(q) /\ KeepsRights(q)
  BY <1>1, RowsStay
<1>4. LoginsUsed'
  <2>1. \A q \in People : q # p => login'[q] = login[q]
    BY DEF Login, FindByKeycloakId, FindByEmail, AccTypeOK
  <2>2. /\ login'[p].step # "store"
        /\ login'[p].step \in {"update", "adopt"} => login'[p].row.id # 0
    BY DEF Login, FindByKeycloakId, FindByEmail, AccTypeOK, Exists, RowsOK, NoRow
  <2>3. \A q \in People : \A i : Used(q, i) => Used(q, i)'
    BY <1>1 DEF Used, rows
  <2> QED
    BY <2>1, <2>2, <2>3 DEF LoginsUsed
<1>5. TouchesOnly'
  BY <1>1 DEF TouchesOnly, Touches
<1> QED
  BY <1>1, <1>2, <1>3, <1>4, <1>5, RightsKept

LEMMA SyncKeeps ==
  ASSUME RightsInv, NEW p \in People, SyncRow(p)
  PROVE  RightsInv'
<1> USE DEF RightsInv
<1>1. UNCHANGED <<sessions, crossed, desk>>
  BY DEF SyncRow
<1>2. AccTypeOK'
  BY LoginTypes
<1>3. lastId[p] \in Nat /\ user[p].id \in Nat
  BY DEF AccTypeOK, UserRow, Ids
<1>4. \/ UNCHANGED rows
      \/ ~Exists(p) /\ lastId' = [lastId EXCEPT ![p] = @ + 1] /\ user' = [user EXCEPT ![p] = Row(lastId[p] + 1, "VIEWER", TRUE)]
      \/ Exists(p) /\ user' = [user EXCEPT ![p].real = TRUE] /\ UNCHANGED lastId
  <2>1. CASE login[p].step = "create"
    BY <2>1 DEF SyncRow, rows
  <2>2. CASE login[p].step # "create"
    <3>1. login[p].row.id # 0
      BY <2>2 DEF SyncRow, LoginsUsed
    <3> QED
      BY <2>2, <3>1 DEF SyncRow, rows, Exists
  <2> QED
    BY <2>1, <2>2
<1>5. RowsOK' /\ \A q \in People : RowMoves(q) /\ KeepsRights(q)
  <2>1. CASE UNCHANGED rows
    BY <2>1, RowsStay
  <2>2. CASE ~Exists(p) /\ lastId' = [lastId EXCEPT ![p] = @ + 1] /\ user' = [user EXCEPT ![p] = Row(lastId[p] + 1, "VIEWER", TRUE)]
    <3>1. /\ lastId'[p] = lastId[p] + 1 /\ user'[p].id = lastId[p] + 1
          /\ \A q \in People : q # p => lastId'[q] = lastId[q] /\ user'[q] = user[q] /\ lastId[q] \in Nat
      BY <2>2 DEF AccTypeOK, Row, Ids
    <3>2. RowsOK'
      BY <1>3, <3>1 DEF RowsOK, Exists
    <3>3. ASSUME NEW q \in People PROVE RowMoves(q) /\ KeepsRights(q)
      <4>1. CASE q = p
        <5>1. lastId'[p] >= lastId[p] /\ user'[p].id > lastId[p]
          BY <1>3, <3>1
        <5> QED
          BY <2>2, <4>1, <5>1 DEF RowMoves, KeepsRights
      <4>2. CASE q # p
        BY <3>1, <4>2 DEF RowMoves, KeepsRights
      <4> QED
        BY <4>1, <4>2
    <3> QED
      BY <3>2, <3>3
  <2>3. CASE Exists(p) /\ user' = [user EXCEPT ![p].real = TRUE] /\ UNCHANGED lastId
    <3>1. /\ user'[p].id = user[p].id /\ user'[p].role = user[p].role /\ user'[p].active = user[p].active
          /\ user'[p].real /\ lastId'[p] = lastId[p]
          /\ \A q \in People : q # p => lastId'[q] = lastId[q] /\ user'[q] = user[q] /\ lastId[q] \in Nat
      BY <2>3 DEF AccTypeOK, UserRow, Ids
    <3>2. RowsOK'
      BY <2>3, <3>1 DEF RowsOK, Exists
    <3>3. ASSUME NEW q \in People PROVE RowMoves(q) /\ KeepsRights(q)
      BY <1>3, <3>1 DEF RowMoves, KeepsRights
    <3> QED
      BY <3>2, <3>3
  <2> QED
    BY <1>4, <2>1, <2>2, <2>3
<1>6. LoginsUsed'
  <2>1. \A q \in People : q # p => login'[q] = login[q]
    BY DEF SyncRow, AccTypeOK
  <2>2. \A q \in People : \A i : Used(q, i) => Used(q, i)'
    BY <1>2, <1>5, UsedKept
  <2>3. \/ login'[p].step = "none"
        \/ login'[p].step = "store" /\ login'[p].row = user'[p] /\ user'[p].real
    BY DEF SyncRow, NoLogin, AccTypeOK
  <2>4. (user[p].real => Used(p, user[p].id))'
    <3>1. user'[p].real => user'[p].id # 0
      BY <1>5 DEF RowsOK, Exists, NoRow
    <3>2. user'[p].id \in Nat /\ lastId'[p] \in Nat /\ user'[p].id <= lastId'[p]
      BY <1>2, <1>5 DEF RowsOK, AccTypeOK, UserRow, Ids
    <3> QED
      BY <3>1, <3>2 DEF Used
  <2>5. (login[p].step = "store" => Used(p, login[p].row.id))'
    BY <2>3, <2>4
  <2>6. login'[p].step \notin {"update", "adopt"}
    BY <2>3
  <2>7. ASSUME NEW q \in People, q # p, (login[q].step = "store")'
        PROVE  Used(q, login[q].row.id)'
    <3>1. Used(q, login[q].row.id)
      BY <2>1, <2>7 DEF LoginsUsed
    <3>2. Used(q, login[q].row.id) => Used(q, login'[q].row.id)
      BY <2>1, <2>7
    <3> QED
      BY <2>1, <2>7, <3>1, UsedKept, <1>2, <1>5 DEF Used
  <2>8. \A q \in People : q # p /\ login'[q].step \in {"update", "adopt"} => login'[q].row.id # 0
    BY <2>1 DEF LoginsUsed
  <2> QED
    BY <2>5, <2>6, <2>7, <2>8 DEF LoginsUsed
<1>7. TouchesOnly'
  BY <1>1 DEF TouchesOnly, Touches
<1> QED
  BY <1>1, <1>2, <1>5, <1>6, <1>7, RightsKept

\* A request that does not administer goes on, or ends.
LEMMA GoesKeeps ==
  ASSUME RightsInv, AccTypeOK', RowsOK', \A p \in People : RowMoves(p) /\ KeepsRights(p),
         UNCHANGED <<login, sessions, crossed>>, TouchesOnly',
         NEW d \in Desks, \A e \in Desks : e # d => desk'[e] = desk[e],
         ~Administers(desk[d]), ~Administers(desk'[d])
  PROVE  RightsInv'
<1>1. LoginsUsed'
  BY LoginsKept
<1>2. \A e \in Desks : desk'[e] = desk[e] \/ (~Administers(desk[e]) /\ ~Administers(desk'[e]))
  OBVIOUS
<1> QED
  BY <1>1, <1>2, RightsKept

LEMMA OtherRequestsKeep ==
  ASSUME RightsInv, NEW d \in Desks
  PROVE  /\ \A p \in People, op \in {"teacher", "student"} : MoodleSync(d, p, op) => RightsInv'
         /\ \A op \in {"usersCsv", "courseCsv"}, file \in SUBSET People : ImportCsv(d, op, file) => RightsInv'
         /\ \A s \in sessions, p \in People, r \in Roles : CreateManual(d, s, p, r) => RightsInv'
<1>0. AccTypeOK
  BY DEF RightsInv
<1>1. ASSUME NEW p \in People, NEW op \in {"teacher", "student"}, MoodleSync(d, p, op) PROVE RightsInv'
  <2> DEFINE x == [op |-> op, step |-> "read", who |-> p, seen |-> NoRow,
                   value |-> IF op = "teacher" THEN "MODERATOR" ELSE "VIEWER"]
  <2>1. x \in DeskRequest
    BY RowTypes, KindsAreRequests DEF EmailRequests, Roles
  <2>2. ~Administers(x) /\ x.step # "write"
    BY DEF Administers
  <2> QED
    BY <1>0, <1>1, <2>1, <2>2, MoodleTypes, OpensKeeps DEF MoodleSync
<1>2. ASSUME NEW op \in {"usersCsv", "courseCsv"}, NEW file \in SUBSET People, ImportCsv(d, op, file) PROVE RightsInv'
  <2> DEFINE x == [op |-> op, step |-> "find", file |-> file, known |-> {}]
  <2>1. x \in DeskRequest
    BY KindsAreRequests DEF FileRequests
  <2>2. ~Administers(x) /\ x.step # "write"
    BY DEF Administers
  <2> QED
    BY <1>0, <1>2, <2>1, <2>2, ImportCsvTypes, OpensKeeps DEF ImportCsv
<1>3. ASSUME NEW s \in sessions, NEW p \in People, NEW r \in Roles, CreateManual(d, s, p, r) PROVE RightsInv'
  <2> DEFINE x == [op |-> "manual", step |-> "read", who |-> p, seen |-> NoRow, value |-> r]
  <2>1. x \in DeskRequest
    BY RowTypes, KindsAreRequests DEF EmailRequests
  <2>2. ~Administers(x) /\ x.step # "write"
    BY DEF Administers
  <2> QED
    BY <1>0, <1>3, <2>1, <2>2, RequestTypes, OpensKeeps DEF CreateManual
<1> QED
  BY <1>1, <1>2, <1>3

LEMMA ImportsKeep ==
  ASSUME RightsInv, NEW d \in Desks, ImportFind(d) \/ ImportCreate(d) \/ ImportEnrol(d)
  PROVE  RightsInv'
<1> DEFINE x == desk[d]
<1> USE DEF RightsInv
<1>1. AccTypeOK'
  BY ImportTypes
<1>2. x \in DeskRequest /\ Imports(x) /\ ~Administers(x)
  BY DEF AccTypeOK, ImportFind, ImportCreate, ImportEnrol, Imports, Administers
<1>3. UNCHANGED <<login, sessions, crossed>>
  BY DEF ImportFind, ImportCreate, ImportEnrol
<1>4. RowsOK' /\ \A q \in People : RowMoves(q) /\ KeepsRights(q)
  <2>1. CASE UNCHANGED rows
    BY <2>1, RowsStay
  <2>2. CASE ImportCreate(d)
    <3>1. PICK role \in Roles : Insert({p \in MissingOf(x) : ~Exists(p)}, role)
      BY <2>2 DEF ImportCreate, Roles
    <3>2. MissingOf(x) \subseteq People
      BY <1>2, ImportGoes DEF MissingOf
    <3> QED
      BY <3>1, <3>2, InsertMoves
  <2> QED
    BY <2>1, <2>2 DEF ImportFind, ImportEnrol
<1>5. /\ \A e \in Desks : e # d => desk'[e] = desk[e]
      /\ ~Administers(desk'[d]) /\ ~ByEmail(desk'[d])
  <2>1. PICK y : /\ desk' = [desk EXCEPT ![d] = y]
                 /\ \/ y = [op |-> "idle"]
                    \/ \E t \in {"create", "enrol"} : \E K : y = [x EXCEPT !.step = t, !.known = K]
                    \/ y = [x EXCEPT !.step = "again"]
    BY DEF ImportFind, ImportCreate, ImportEnrol, DeskGoes, DeskEnds
  <2>2. x \in FileRequests /\ desk \in [Desks -> DeskRequest]
    BY <1>2, RequestKinds DEF AccTypeOK
  <2>3. y.op \in {"idle", x.op}
    <3>1. CASE y = [op |-> "idle"]
      BY <3>1
    <3>2. ASSUME NEW t, NEW K, y = [x EXCEPT !.step = t, !.known = K] PROVE y.op = x.op
      BY <2>2, <3>2 DEF FileRequests
    <3>3. CASE y = [x EXCEPT !.step = "again"]
      BY <2>2, <3>3 DEF FileRequests
    <3> QED
      BY <2>1, <3>1, <3>2, <3>3, Zenon
  <2>4. desk'[d] = y /\ \A e \in Desks : e # d => desk'[e] = desk[e]
    BY <2>1, <2>2
  <2> QED
    BY <1>2, <2>3, <2>4 DEF Imports, Administers, ByEmail
<1>6. TouchesOnly'
  BY <1>5, TouchesKept
<1> QED
  BY <1>1, <1>2, <1>3, <1>4, <1>5, <1>6, GoesKeeps

LEMMA ReadKeeps ==
  ASSUME RightsInv, NEW d \in Desks, ByEmailRead(d) \/ MoodleEnrols(d)
  PROVE  RightsInv'
<1> DEFINE x == desk[d]
<1> USE DEF RightsInv
<1>1. AccTypeOK'
  BY EmailTypes
<1>2. x \in EmailRequests /\ ByEmail(x) /\ ~Administers(x) /\ desk \in [Desks -> DeskRequest]
  BY RequestKinds DEF AccTypeOK, ByEmailRead, MoodleEnrols, ByEmail, Administers
<1>3. UNCHANGED rows /\ UNCHANGED <<login, sessions, crossed>>
  BY DEF ByEmailRead, MoodleEnrols
<1>4. RowsOK' /\ \A q \in People : RowMoves(q) /\ KeepsRights(q)
  BY <1>3, RowsStay
<1>5. PICK y : /\ desk' = [desk EXCEPT ![d] = y]
               /\ \/ y = [op |-> "idle"]
                  \/ y = [x EXCEPT !.step = "enrol", !.seen = user[x.who]]
                  \/ /\ user[x.who].id = 0 \/ Touches(x, user[x.who])
                     /\ y = [x EXCEPT !.step = "write", !.seen = user[x.who]]
  BY DEF ByEmailRead, MoodleEnrols, DeskGoes, DeskEnds
<1>6. \/ y.op = "idle"
      \/ y.op = x.op /\ y.step = "enrol"
      \/ y.op = x.op /\ y.seen = user[x.who] /\ (user[x.who].id = 0 \/ Touches(x, user[x.who]))
  <2>1. CASE y = [op |-> "idle"]
    BY <2>1
  <2>2. ASSUME NEW t, y = [x EXCEPT !.step = t, !.seen = user[x.who]]
        PROVE  y.op = x.op /\ y.step = t /\ y.seen = user[x.who]
    BY <1>2, <2>2 DEF EmailRequests
  <2> QED
    BY <1>5, <2>1, <2>2, Zenon
<1>7. desk'[d] = y /\ \A e \in Desks : e # d => desk'[e] = desk[e]
  BY <1>2, <1>5
<1>8. \/ desk'[d].op = "idle"
      \/ desk'[d].op = x.op /\ desk'[d].step = "enrol"
      \/ desk'[d].op = x.op /\ desk'[d].seen = user[x.who] /\ (user[x.who].id = 0 \/ Touches(x, user[x.who]))
  BY <1>6, <1>7
<1>9. ~Administers(desk'[d])
  BY <1>2, <1>8 DEF Administers
<1>10. TouchesOnly'
  <2>1. ASSUME ByEmail(desk'[d]), desk'[d].step = "write", desk'[d].seen.id # 0
        PROVE  Touches(desk'[d], desk'[d].seen)
    <3>1. desk'[d].op = x.op /\ Touches(x, desk'[d].seen)
      BY <1>8, <2>1 DEF ByEmail
    <3> QED
      BY <3>1, Zenon DEF Touches
  <2> QED
    BY <1>7, <2>1, Zenon DEF TouchesOnly, ByEmail, Touches
<1> QED
  BY <1>1, <1>2, <1>3, <1>4, <1>7, <1>9, <1>10, GoesKeeps

\* Every request it crosses aside, a role written by email is nobody's but a viewer's
\* or that of an account nobody has logged in with.
LEMMA ByEmailWriteKeeps ==
  ASSUME RightsInv, NEW d \in Desks, ByEmailWrite(d)
  PROVE  RightsInv'
<1> DEFINE x == desk[d]
           p == x.who
<1> USE DEF RightsInv
<1>1. AccTypeOK'
  BY EmailTypes
<1>2. x \in EmailRequests /\ ByEmail(x) /\ ~Administers(x) /\ desk \in [Desks -> DeskRequest] /\ p \in People
  BY RequestKinds DEF AccTypeOK, ByEmailWrite, ByEmail, Administers, EmailRequests
<1>3. UNCHANGED <<login, sessions>>
  BY DEF ByEmailWrite
<1>4. PICK y : /\ desk' = [desk EXCEPT ![d] = y]
               /\ y = [op |-> "idle"] \/ y = [x EXCEPT !.step = "enrol", !.seen = user'[p]]
  BY DEF ByEmailWrite, DeskGoes, DeskEnds
<1>5. /\ \A e \in Desks : e # d => desk'[e] = desk[e]
      /\ ~Administers(desk'[d]) /\ (ByEmail(desk'[d]) => desk'[d].step # "write")
  <2>1. y.op = "idle" \/ (y.op = x.op /\ y.step = "enrol")
    <3>1. CASE y = [op |-> "idle"]
      BY <3>1
    <3>2. CASE y = [x EXCEPT !.step = "enrol", !.seen = user'[p]]
      BY <1>2, <3>2 DEF EmailRequests
    <3> QED
      BY <1>4, <3>1, <3>2, Zenon
  <2>2. desk'[d] = y /\ \A e \in Desks : e # d => desk'[e] = desk[e]
    BY <1>2, <1>4
  <2> QED
    BY <1>2, <2>1, <2>2 DEF Administers, ByEmail
<1>6. TouchesOnly'
  BY <1>5, TouchesKept
<1>7. CASE ~Exists(p) /\ Insert({p}, x.value) /\ UNCHANGED crossed
  <2>1. x.value \in Roles
    BY <1>2 DEF EmailRequests
  <2>2. RowsOK' /\ \A q \in People : RowMoves(q) /\ KeepsRights(q)
    BY <1>2, <1>7, <2>1, InsertMoves
  <2> QED
    BY <1>1, <1>2, <1>3, <1>5, <1>6, <1>7, <2>2, GoesKeeps
<1>8. CASE UNCHANGED <<rows, crossed>>
  <2>1. RowsOK' /\ \A q \in People : RowMoves(q) /\ KeepsRights(q)
    BY <1>8, RowsStay
  <2> QED
    BY <1>1, <1>2, <1>3, <1>5, <1>6, <1>8, <2>1, GoesKeeps
<1>9. CASE /\ x.seen.id # 0 /\ user[p].id = x.seen.id
           /\ user' = [user EXCEPT ![p].role = x.value] /\ UNCHANGED lastId
           /\ crossed' = (crossed \/ user[p].role # x.seen.role \/ user[p].real # x.seen.real)
  <2>1. \A q \in People : /\ user'[q].id = user[q].id /\ user'[q].active = user[q].active
                          /\ user'[q].real = user[q].real /\ (q # p => user'[q] = user[q])
                          /\ lastId'[q] = lastId[q] /\ lastId[q] \in Nat
    BY <1>2, <1>9 DEF AccTypeOK, UserRow, Ids
  <2>2. \A q \in People : RowMoves(q)
    BY <2>1 DEF RowMoves
  <2>3. RowsOK'
    BY <1>9, <2>1 DEF RowsOK, Exists
  <2>4. SessionsUsed' /\ AboutOthers'
    <3>1. \A e \in Desks : SameRequest(e)
      BY <1>5 DEF SameRequest
    <3> QED
      BY <1>1, <1>3, <2>2, <3>1, UsesKept
  <2>5. LoginsUsed'
    BY <1>1, <1>3, <2>2, LoginsKept
  <2>6. ~crossed' => ~crossed /\ (user[p].role = "VIEWER" \/ ~user[p].real)
    <3>1. ~crossed' => ~crossed /\ user[p].role = x.seen.role /\ user[p].real = x.seen.real
      BY <1>9
    <3>2. Touches(x, x.seen)
      BY <1>2, <1>9 DEF TouchesOnly, ByEmailWrite
    <3>3. x.seen.role = "VIEWER" \/ ~x.seen.real
      BY <1>2, <3>2, Zenon DEF Touches, ByEmail
    <3> QED
      BY <3>1, <3>3
  <2>7. SessionsFollow'
    <3> SUFFICES ASSUME ~crossed', NEW s \in sessions PROVE s.raced \/ Agrees(s)' \/ Condemned(s)'
      BY <1>3 DEF SessionsFollow
    <3>1. s.who \in People /\ Used(s.who, s.id)
      BY DEF AccTypeOK, Session, SessionsUsed
    <3>2. Condemned(s) => Condemned(s)'
      BY <1>2, <1>5 DEF Condemned
    <3>3. ASSUME Agrees(s) PROVE Agrees(s)'
      <4>1. CASE s.who # p
        BY <2>1, <3>1, <3>3, <4>1 DEF Agrees
      <4>2. CASE s.who = p
        <5>1. user[p].real
          BY <3>1, <3>3, <4>2 DEF Agrees, Used
        <5>2. s.role = "VIEWER"
          BY <2>6, <3>3, <4>2, <5>1 DEF Agrees
        <5> QED
          BY <2>1, <3>1, <3>3, <5>2 DEF Agrees
      <4> QED
        BY <4>1, <4>2
    <3> QED
      BY <2>6, <3>2, <3>3 DEF SessionsFollow
  <2>8. AdminRemains'
    <3> SUFFICES ASSUME ~crossed' PROVE \E q \in People : (user[q].role = "ADMIN" /\ user[q].active /\ user[q].real)'
      BY DEF AdminRemains
    <3>1. PICK q \in People : user[q].role = "ADMIN" /\ user[q].active /\ user[q].real
      BY <2>6 DEF AdminRemains
    <3>2. q # p
      BY <2>6, <3>1
    <3> QED
      BY <2>1, <3>1, <3>2
  <2> QED
    BY <1>1, <1>6, <2>3, <2>4, <2>5, <2>7, <2>8
<1> QED
  BY <1>7, <1>8, <1>9 DEF ByEmailWrite

-----------------------------------------------------------------------------
(* Steps that give rights, or take them away                                *)

LEMMA StoreKeeps ==
  ASSUME RightsInv, NEW p \in People, StoreSession(p)
  PROVE  RightsInv'
<1> DEFINE row == login[p].row
           s0 == [who |-> p, id |-> row.id, role |-> row.role, raced |-> row # user[p]]
<1> USE DEF RightsInv
<1>1. AccTypeOK'
  BY LoginTypes
<1>2. UNCHANGED rows /\ UNCHANGED <<desk, crossed>>
  BY DEF StoreSession
<1>3. RowsOK' /\ \A q \in People : RowMoves(q) /\ KeepsRights(q)
  BY <1>2, RowsStay
<1>4. sessions' = sessions \/ (row.active /\ sessions' = sessions \cup {s0})
  BY DEF StoreSession
<1>5. s0.who = p /\ s0.id = row.id /\ s0.role = row.role /\ s0.raced = (row # user[p])
  OBVIOUS
<1>6. SessionsUsed'
  <2>1. Used(p, row.id)
    BY DEF StoreSession, LoginsUsed
  <2>2. \A s \in sessions' : s \in sessions \/ s = s0
    BY <1>4
  <2>3. \A s \in sessions' : Used(s.who, s.id)
    BY <1>5, <2>1, <2>2 DEF SessionsUsed
  <2> QED
    BY <1>2, <2>3 DEF SessionsUsed, Used, rows
<1>7. AboutOthers' /\ TouchesOnly'
  <2>1. AboutOthers'
    BY <1>2 DEF AboutOthers, AboutAnother, Used, rows, Administers
  <2>2. TouchesOnly'
    BY <1>2 DEF TouchesOnly, Touches
  <2> QED
    BY <2>1, <2>2
<1>8. LoginsUsed'
  <2>1. login'[p].step = "none" /\ \A q \in People : q # p => login'[q] = login[q]
    BY DEF StoreSession, AccTypeOK, NoLogin
  <2> QED
    BY <1>2, <2>1 DEF LoginsUsed, Used, rows
<1>9. SessionsFollow'
  <2> SUFFICES ASSUME ~crossed, NEW s \in sessions' PROVE s.raced \/ Agrees(s)' \/ Condemned(s)'
    BY <1>2 DEF SessionsFollow
  <2>1. CASE s \in sessions
    BY <1>2, <2>1 DEF SessionsFollow, Agrees, Condemned, rows
  <2>2. CASE s = s0 /\ row.active
    BY <1>2, <1>5, <2>2 DEF Agrees, rows
  <2> QED
    BY <1>4, <2>1, <2>2
<1>10. AdminRemains'
  BY <1>2 DEF AdminRemains, rows
<1> QED
  BY <1>1, <1>3, <1>6, <1>7, <1>8, <1>9, <1>10

LEMMA AdminRequestKeeps ==
  ASSUME RightsInv, NEW d \in Desks, NEW s \in sessions, NEW p \in People,
         NEW op \in {"role", "active", "remove"}, NEW v \in Roles \cup {"on", "off"}, op = "role" => v \in Roles,
         AdminRequest(d, s, p, op, v)
  PROVE  RightsInv'
<1> DEFINE x == [op |-> op, step |-> IF op = "remove" THEN "scan" ELSE "write", by |-> <<s.who, s.id>>,
                 who |-> p, id |-> user[p].id, value |-> v, found |-> {}]
<1> USE DEF RightsInv
<1>1. AccTypeOK'
  BY RequestTypes
<1>2. DeskOpens(d, x) /\ Exists(p) /\ <<p, user[p].id>> # <<s.who, s.id>>
  BY DEF AdminRequest
<1>3. UNCHANGED rows /\ UNCHANGED <<login, sessions, crossed>> /\ desk[d].op = "idle"
  BY <1>2 DEF DeskOpens
<1>4. x \in DeskRequest
  <2>1. user[p].id \in Ids /\ s.who \in People /\ s.id \in Ids
    BY DEF AccTypeOK, UserRow, Session
  <2> QED
    BY <2>1, KindsAreRequests DEF AdminRequests
<1>5. desk'[d] = x /\ \A e \in Desks : e # d => desk'[e] = desk[e]
  BY <1>2, <1>4, RequestOpened DEF DeskOpens
<1>6. RowsOK' /\ \A q \in People : RowMoves(q) /\ KeepsRights(q)
  BY <1>3, RowsStay
<1>7. SessionsUsed' /\ LoginsUsed' /\ AdminRemains'
  BY <1>3 DEF SessionsUsed, LoginsUsed, AdminRemains, Used, rows
<1>8. AboutOthers'
  <2>1. AboutAnother(x)
    <3>1. x.id # 0 /\ x.by # <<x.who, x.id>>
      BY <1>2 DEF Exists
    <3>2. Used(x.by[1], x.by[2])
      BY DEF SessionsUsed
    <3> QED
      BY <3>1, <3>2 DEF AboutAnother
  <2>2. \A e \in Desks : Administers(desk'[e]) => AboutAnother(desk'[e])
    BY <1>5, <2>1 DEF AboutOthers
  <2> QED
    BY <1>3, <2>2 DEF AboutOthers, AboutAnother, Used, rows, Administers
<1>9. TouchesOnly'
  <2>1. ~ByEmail(desk'[d])
    BY <1>5 DEF ByEmail
  <2> QED
    BY <1>5, <2>1, TouchesKept
<1>10. SessionsFollow'
  <2> SUFFICES ASSUME ~crossed, NEW t \in sessions PROVE t.raced \/ Agrees(t)' \/ Condemned(t)'
    BY <1>3 DEF SessionsFollow
  <2>1. Agrees(t) => Agrees(t)'
    BY <1>3 DEF Agrees, rows
  <2>2. Condemned(t) => Condemned(t)'
    BY <1>3, <1>5 DEF Condemned, Administers
  <2> QED
    BY <2>1, <2>2 DEF SessionsFollow
<1> QED
  BY <1>1, <1>6, <1>7, <1>8, <1>9, <1>10

\* The administrator a request is made by, unless it was crossed, remains one.
LEMMA Entitlement ==
  ASSUME RightsInv, NEW d \in Desks, Administers(desk[d]), user[desk[d].who].id = desk[d].id,
         ~UnlessEntitled(desk[d].by)
  PROVE  /\ ~crossed
         /\ \E q \in People : q # desk[d].who /\ user[q].role = "ADMIN" /\ user[q].active /\ user[q].real
<1> DEFINE x == desk[d]
           b == x.by[1]
<1> USE DEF RightsInv
<1>1. x \in AdminRequests /\ AboutAnother(x)
  BY RequestKinds DEF AccTypeOK, AboutOthers
<1>2. b \in People /\ x.by = <<b, x.by[2]>>
  BY <1>1 DEF AdminRequests
<1>3. ~crossed /\ user[b].id = x.by[2] /\ user[b].role = "ADMIN" /\ user[b].active
  BY DEF UnlessEntitled
<1>4. user[b].real
  BY <1>1, <1>3 DEF AboutAnother, Used
<1>5. b # x.who
  BY <1>1, <1>2, <1>3 DEF AboutAnother
<1> QED
  BY <1>2, <1>3, <1>4, <1>5

LEMMA AdminWriteKeeps ==
  ASSUME RightsInv, NEW d \in Desks, AdminWrite(d)
  PROVE  RightsInv'
<1> DEFINE x == desk[d]
           p == x.who
<1> USE DEF RightsInv
<1>1. x \in AdminRequests /\ Administers(x) /\ AboutAnother(x) /\ x.step = "write" /\ x.op \in {"role", "active"}
      /\ p \in People
  BY RequestKinds DEF AccTypeOK, AdminWrite, Administers, AboutOthers, AdminRequests
<1>2. AccTypeOK'
  BY <1>1, AdminTypes DEF AboutAnother
<1>3. UNCHANGED <<lastId, sessions, login>> /\ desk \in [Desks -> DeskRequest]
  BY DEF AdminWrite, AccTypeOK
<1>4. PICK y : /\ desk' = [desk EXCEPT ![d] = y]
               /\ \/ y = [op |-> "idle"]
                  \/ y = [x EXCEPT !.step = "scan"]
               /\ user[p].id = x.id /\ x.value # "on" => y = [x EXCEPT !.step = "scan"]
  BY DEF AdminWrite, DeskGoes, DeskEnds
<1>5. desk'[d] = y /\ \A e \in Desks : e # d => desk'[e] = desk[e]
  BY <1>3, <1>4
<1>6. y = [x EXCEPT !.step = "scan"] => /\ y.op = x.op /\ y.step = "scan" /\ y.by = x.by /\ y.who = x.who
                                        /\ y.id = x.id /\ y.value = x.value
  BY <1>1 DEF AdminRequests
<1>7. y = [op |-> "idle"] => y.op = "idle"
  OBVIOUS
<1>8. \A e \in Desks : SameRequest(e)
  BY <1>1, <1>4, <1>5, <1>6, <1>7 DEF SameRequest, Administers
<1>9. TouchesOnly'
  <2>1. ~ByEmail(desk'[d])
    BY <1>1, <1>4, <1>5, <1>6, <1>7 DEF ByEmail
  <2> QED
    BY <1>5, <2>1, TouchesKept
<1>10. \A s \in sessions : Condemned(s) => Condemned(s)'
  BY <1>1, <1>5 DEF Condemned
<1>11. CASE user[p].id # x.id
  <2>1. UNCHANGED rows /\ UNCHANGED crossed
    BY <1>11 DEF AdminWrite, rows
  <2>2. RowsOK' /\ \A q \in People : RowMoves(q) /\ KeepsRights(q)
    BY <2>1, RowsStay
  <2>3. SessionsUsed' /\ AboutOthers' /\ LoginsUsed'
    BY <1>2, <1>3, <1>8, <2>2, UsesKept, LoginsKept
  <2>4. SessionsFollow' /\ AdminRemains'
    BY <1>3, <1>10, <2>1 DEF SessionsFollow, Agrees, AdminRemains, rows
  <2> QED
    BY <1>2, <1>9, <2>2, <2>3, <2>4
<1>12. CASE user[p].id = x.id
  <2>1. /\ user' = IF x.op = "role" THEN [user EXCEPT ![p].role = x.value] ELSE [user EXCEPT ![p].active = (x.value = "on")]
        /\ crossed' = UnlessEntitled(x.by)
    BY <1>12 DEF AdminWrite
  <2>2. /\ \A q \in People : /\ user'[q].id = user[q].id /\ user'[q].real = user[q].real
                             /\ q # p => user'[q] = user[q]
                             /\ lastId'[q] = lastId[q] /\ lastId[q] \in Nat
        /\ x.op = "active" => user'[p].active = (x.value = "on") /\ user'[p].role = user[p].role
    BY <1>1, <1>3, <2>1 DEF AccTypeOK, UserRow, Ids
  <2>3. \A q \in People : RowMoves(q)
    BY <2>2 DEF RowMoves
  <2>4. RowsOK'
    BY <1>1, <1>12, <2>2 DEF RowsOK, Exists, AboutAnother
  <2>5. SessionsUsed' /\ AboutOthers' /\ LoginsUsed'
    BY <1>2, <1>3, <1>8, <2>3, UsesKept, LoginsKept
  <2>6. SessionsFollow'
    <3> SUFFICES ASSUME ~crossed', NEW s \in sessions PROVE s.raced \/ Agrees(s)' \/ Condemned(s)'
      BY <1>3 DEF SessionsFollow
    <3>1. ~crossed /\ s.who \in People
      BY <2>1 DEF UnlessEntitled, AccTypeOK, Session
    <3>2. ASSUME Agrees(s), s.who # p PROVE Agrees(s)'
      BY <2>2, <3>1, <3>2 DEF Agrees
    <3>3. ASSUME Agrees(s), s.who = p, x.value # "on" PROVE Condemned(s)'
      <4>1. s.id = x.id
        BY <1>12, <3>3 DEF Agrees
      <4>2. y = [x EXCEPT !.step = "scan"]
        BY <1>4, <1>12, <3>3
      <4> QED
        BY <1>1, <1>5, <1>6, <3>3, <4>1, <4>2 DEF Condemned, Administers
    <3>4. ASSUME Agrees(s), s.who = p, x.value = "on" PROVE Agrees(s)'
      <4>1. x.op = "active"
        BY <1>1, <3>4 DEF AboutAnother, Roles
      <4> QED
        BY <1>1, <2>2, <3>4, <4>1 DEF Agrees
    <3> QED
      BY <1>10, <3>1, <3>2, <3>3, <3>4 DEF SessionsFollow
  <2>7. AdminRemains'
    <3> SUFFICES ASSUME ~crossed' PROVE \E q \in People : (user[q].role = "ADMIN" /\ user[q].active /\ user[q].real)'
      BY DEF AdminRemains
    <3>1. PICK q \in People : q # p /\ user[q].role = "ADMIN" /\ user[q].active /\ user[q].real
      BY <1>1, <1>12, <2>1, Entitlement
    <3> QED
      BY <2>2, <3>1
  <2> QED
    BY <1>2, <1>9, <2>4, <2>5, <2>6, <2>7
<1> QED
  BY <1>11, <1>12

LEMMA ScanKeeps ==
  ASSUME RightsInv, NEW d \in Desks, ScanSessions(d)
  PROVE  RightsInv'
<1> DEFINE x == desk[d]
           F == {s \in sessions : s.who = x.who /\ s.id = x.id}
<1> USE DEF RightsInv
<1>1. x \in AdminRequests /\ Administers(x) /\ AboutAnother(x) /\ x.step = "scan"
  BY RequestKinds DEF AccTypeOK, ScanSessions, Administers, AboutOthers
<1>2. AccTypeOK'
  BY <1>1, AdminTypes
<1>3. UNCHANGED rows /\ UNCHANGED <<sessions, login, crossed>> /\ desk \in [Desks -> DeskRequest]
  BY DEF ScanSessions, AccTypeOK
<1>4. PICK y : desk' = [desk EXCEPT ![d] = y] /\ y = [x EXCEPT !.step = "del", !.found = F]
  BY DEF ScanSessions, DeskGoes
<1>5. desk'[d] = y /\ \A e \in Desks : e # d => desk'[e] = desk[e]
  BY <1>3, <1>4
<1>6. /\ y.op = x.op /\ y.step = "del" /\ y.by = x.by /\ y.who = x.who /\ y.id = x.id /\ y.value = x.value
      /\ y.found = F
  BY <1>1, <1>4 DEF AdminRequests
<1>7. \A e \in Desks : SameRequest(e)
  BY <1>1, <1>5, <1>6 DEF SameRequest, Administers
<1>8. TouchesOnly'
  <2>1. ~ByEmail(desk'[d])
    BY <1>1, <1>5, <1>6 DEF ByEmail, Administers
  <2> QED
    BY <1>5, <2>1, TouchesKept
<1>9. RowsOK' /\ \A q \in People : RowMoves(q) /\ KeepsRights(q)
  BY <1>3, RowsStay
<1>10. SessionsUsed' /\ AboutOthers' /\ LoginsUsed'
  BY <1>2, <1>3, <1>7, <1>9, UsesKept, LoginsKept
<1>11. AdminRemains'
  BY <1>3 DEF AdminRemains, rows
<1>12. SessionsFollow'
  <2> SUFFICES ASSUME ~crossed, NEW s \in sessions PROVE s.raced \/ Agrees(s)' \/ Condemned(s)'
    BY <1>3 DEF SessionsFollow
  <2>1. Agrees(s) => Agrees(s)'
    BY <1>3 DEF Agrees, rows
  <2>2. ASSUME Condemned(s) PROVE Condemned(s)'
    <3>1. PICK e \in Desks : /\ Administers(desk[e]) /\ desk[e].who = s.who
                            /\ \/ desk[e].step = "scan" /\ desk[e].id = s.id
                               \/ desk[e].step = "del" /\ s \in desk[e].found
      BY <2>2 DEF Condemned
    <3>2. CASE e # d
      BY <1>5, <3>1, <3>2 DEF Condemned, Administers
    <3>3. CASE e = d
      <4>1. s \in y.found /\ y.who = s.who /\ Administers(y)
        BY <1>1, <1>6, <3>1, <3>3 DEF Administers
      <4> QED
        BY <1>5, <1>6, <4>1 DEF Condemned, Administers
    <3> QED
      BY <3>2, <3>3
  <2> QED
    BY <2>1, <2>2 DEF SessionsFollow
<1> QED
  BY <1>2, <1>8, <1>9, <1>10, <1>11, <1>12

LEMMA DeleteKeeps ==
  ASSUME RightsInv, NEW d \in Desks, DeleteSessions(d)
  PROVE  RightsInv'
<1> DEFINE x == desk[d]
<1> USE DEF RightsInv
<1>1. x \in AdminRequests /\ Administers(x) /\ x.step = "del"
  BY RequestKinds DEF AccTypeOK, DeleteSessions, Administers
<1>2. AccTypeOK'
  BY <1>1, AdminTypes
<1>3. UNCHANGED rows /\ UNCHANGED <<login, crossed>> /\ sessions' = sessions \ x.found /\ desk \in [Desks -> DeskRequest]
  BY DEF DeleteSessions, AccTypeOK
<1>4. PICK y : desk' = [desk EXCEPT ![d] = y] /\ (y = [op |-> "idle"] \/ y = [x EXCEPT !.step = "row"])
  BY DEF DeleteSessions, DeskGoes, DeskEnds
<1>5. desk'[d] = y /\ \A e \in Desks : e # d => desk'[e] = desk[e]
  BY <1>3, <1>4
<1>6. y = [x EXCEPT !.step = "row"] => /\ y.op = x.op /\ y.by = x.by /\ y.who = x.who
                                       /\ y.id = x.id /\ y.value = x.value
  BY <1>1 DEF AdminRequests
<1>7. y = [op |-> "idle"] => y.op = "idle"
  OBVIOUS
<1>8. \A e \in Desks : SameRequest(e)
  BY <1>1, <1>4, <1>5, <1>6, <1>7 DEF SameRequest, Administers
<1>9. TouchesOnly'
  <2>1. ~ByEmail(desk'[d])
    BY <1>1, <1>4, <1>5, <1>6, <1>7 DEF ByEmail, Administers
  <2> QED
    BY <1>5, <2>1, TouchesKept
<1>10. RowsOK' /\ \A q \in People : RowMoves(q) /\ KeepsRights(q)
  BY <1>3, RowsStay
<1>11. SessionsUsed' /\ AboutOthers' /\ LoginsUsed'
  <2>1. \A s \in sessions' : \E t \in sessions : s.who = t.who /\ s.id = t.id
    BY <1>3
  <2> QED
    BY <1>2, <1>3, <1>8, <1>10, <2>1, UsesKept, LoginsKept
<1>12. AdminRemains'
  BY <1>3 DEF AdminRemains, rows
<1>13. SessionsFollow'
  <2> SUFFICES ASSUME ~crossed, NEW s \in sessions, s \notin x.found PROVE s.raced \/ Agrees(s)' \/ Condemned(s)'
    BY <1>3 DEF SessionsFollow
  <2>1. Agrees(s) => Agrees(s)'
    BY <1>3 DEF Agrees, rows
  <2>2. Condemned(s) => Condemned(s)'
    BY <1>1, <1>5 DEF Condemned, Administers
  <2> QED
    BY <2>1, <2>2 DEF SessionsFollow
<1> QED
  BY <1>2, <1>9, <1>10, <1>11, <1>12, <1>13

LEMMA RemoveKeeps ==
  ASSUME RightsInv, NEW d \in Desks, RemoveRow(d)
  PROVE  RightsInv'
<1> DEFINE x == desk[d]
           p == x.who
<1> USE DEF RightsInv
<1>1. x \in AdminRequests /\ Administers(x) /\ AboutAnother(x) /\ x.step = "row" /\ p \in People
  BY RequestKinds DEF AccTypeOK, RemoveRow, Administers, AboutOthers, AdminRequests
<1>2. AccTypeOK'
  BY <1>1, AdminTypes
<1>3. UNCHANGED <<lastId, login>> /\ desk \in [Desks -> DeskRequest]
  BY DEF RemoveRow, AccTypeOK
<1>4. desk'[d].op = "idle" /\ \A e \in Desks : e # d => desk'[e] = desk[e]
  BY <1>3 DEF RemoveRow, DeskEnds, DeskGoes
<1>5. \A e \in Desks : SameRequest(e)
  BY <1>4 DEF SameRequest, Administers
<1>6. TouchesOnly'
  <2>1. ~ByEmail(desk'[d])
    BY <1>4 DEF ByEmail
  <2> QED
    BY <1>4, <2>1, TouchesKept
<1>7. \A s \in sessions : Condemned(s) => Condemned(s)'
  BY <1>1, <1>4 DEF Condemned, Administers
<1>8. CASE user[p].id # x.id
  <2>1. UNCHANGED rows /\ UNCHANGED <<sessions, crossed>>
    BY <1>3, <1>8 DEF RemoveRow, rows
  <2>2. RowsOK' /\ \A q \in People : RowMoves(q) /\ KeepsRights(q)
    BY <2>1, RowsStay
  <2>3. SessionsUsed' /\ AboutOthers' /\ LoginsUsed'
    BY <1>2, <1>3, <1>5, <2>1, <2>2, UsesKept, LoginsKept
  <2>4. SessionsFollow' /\ AdminRemains'
    BY <1>7, <2>1 DEF SessionsFollow, Agrees, AdminRemains, rows
  <2> QED
    BY <1>2, <1>6, <2>2, <2>3, <2>4
<1>9. CASE user[p].id = x.id
  <2>1. /\ user' = [user EXCEPT ![p] = NoRow]
        /\ crossed' = UnlessEntitled(x.by)
        /\ sessions' = {IF s.who = p THEN [s EXCEPT !.raced = TRUE] ELSE s : s \in sessions}
    BY <1>9 DEF RemoveRow
  <2>2. /\ user'[p] = NoRow /\ NoRow.id = 0
        /\ \A q \in People : q # p => user'[q] = user[q]
        /\ \A q \in People : lastId'[q] = lastId[q] /\ lastId[q] \in Nat
    BY <1>1, <1>3, <2>1 DEF AccTypeOK, NoRow, Ids
  <2>3. \A q \in People : RowMoves(q)
    BY <2>2 DEF RowMoves
  <2>4. RowsOK'
    BY <2>2 DEF RowsOK, Exists
  <2>5. ASSUME NEW s \in sessions'
        PROVE  \E t \in sessions : s.who = t.who /\ s.id = t.id /\ ((t.who = p /\ s.raced) \/ s = t)
    <3>1. PICK t \in sessions : s = IF t.who = p THEN [t EXCEPT !.raced = TRUE] ELSE t
      BY <2>1
    <3>2. t \in Session
      BY DEF AccTypeOK
    <3> QED
      BY <3>1, <3>2 DEF Session
  <2>6. SessionsUsed' /\ AboutOthers' /\ LoginsUsed'
    BY <1>2, <1>3, <1>5, <2>3, <2>5, UsesKept, LoginsKept
  <2>7. SessionsFollow'
    <3> SUFFICES ASSUME ~crossed', NEW s \in sessions' PROVE s.raced \/ Agrees(s)' \/ Condemned(s)'
      BY DEF SessionsFollow
    <3>1. ~crossed
      BY <2>1 DEF UnlessEntitled
    <3>2. CASE s.who # p
      <4>1. s \in sessions /\ s.who \in People
        BY <2>5, <3>2 DEF AccTypeOK, Session
      <4>2. Agrees(s) => Agrees(s)'
        BY <2>2, <3>2, <4>1 DEF Agrees
      <4> QED
        BY <1>7, <3>1, <4>1, <4>2 DEF SessionsFollow
    <3>3. CASE s.who = p
      <4>1. CASE s \in sessions /\ ~s.raced
        <5>1. \A t \in sessions : t.who = p => [t EXCEPT !.raced = TRUE].raced
          BY DEF AccTypeOK, Session
        <5> QED
          BY <2>1, <3>3, <4>1, <5>1
      <4> QED
        BY <2>5, <3>3, <4>1
    <3> QED
      BY <3>2, <3>3
  <2>8. AdminRemains'
    <3> SUFFICES ASSUME ~crossed' PROVE \E q \in People : (user[q].role = "ADMIN" /\ user[q].active /\ user[q].real)'
      BY DEF AdminRemains
    <3>1. PICK q \in People : q # p /\ user[q].role = "ADMIN" /\ user[q].active /\ user[q].real
      BY <1>1, <1>9, <2>1, Entitlement
    <3> QED
      BY <2>2, <3>1
  <2> QED
    BY <1>2, <1>6, <2>4, <2>6, <2>7, <2>8
<1> QED
  BY <1>8, <1>9

\* The invariant gives what the guards rely on.
LEMMA RightsEntitle ==
  ASSUME RightsInv
  PROVE  RightsFollowAccounts
<1> USE DEF RightsInv
<1>1. ManagersAreEntitled
  <2> SUFFICES ASSUME ~crossed, NEW s \in sessions, CanManage(s), ~s.raced, ~Revoking(s)
               PROVE  Entitled(s.who)
    BY DEF ManagersAreEntitled
  <2>1. ~Condemned(s)
    BY DEF Condemned, Revoking, Administers
  <2>2. Agrees(s)
    BY <2>1 DEF SessionsFollow
  <2> QED
    BY <2>2 DEF Agrees, CanManage, Entitled
<1> QED
  BY <1>1 DEF RightsFollowAccounts

LEMMA RightsNext == RightsInv /\ [AccNext]_accVars => RightsInv'
<1> SUFFICES ASSUME RightsInv, [AccNext]_accVars PROVE RightsInv'
  OBVIOUS
<1>1. ASSUME NEW p \in Others, Login(p) \/ FindByKeycloakId(p) \/ FindByEmail(p) \/ SyncRow(p) \/ StoreSession(p)
      PROVE  RightsInv'
  <2>1. p \in People
    BY DEF People
  <2> QED
    BY <1>1, <2>1, FindKeeps, SyncKeeps, StoreKeeps
<1>2. ASSUME NEW s \in sessions, Logout(s) PROVE RightsInv'
  BY <1>2, LogoutKeeps
<1>3. ASSUME NEW p \in Others, Enroll(p) \/ Unenroll(p) PROVE RightsInv'
  BY <1>3, CourseKeeps DEF People
<1>4. ASSUME NEW d \in Desks, NEW s \in sessions, NEW p \in People, NEW r \in Roles,
             AdminRequest(d, s, p, "role", r) \/ CreateManual(d, s, p, r)
      PROVE  RightsInv'
  BY <1>4, AdminRequestKeeps, OtherRequestsKeep
<1>5. ASSUME NEW d \in Desks, NEW s \in sessions, NEW p \in People, NEW to \in {"on", "off"},
             AdminRequest(d, s, p, "active", to) \/ AdminRequest(d, s, p, "remove", "off")
      PROVE  RightsInv'
  BY <1>5, AdminRequestKeeps
<1>6. ASSUME NEW d \in Desks, NEW p \in Others, NEW op \in {"teacher", "student"}, MoodleSync(d, p, op)
      PROVE  RightsInv'
  BY <1>6, OtherRequestsKeep DEF People
<1>7. ASSUME NEW d \in Desks, NEW file \in SUBSET Others \ {{}}, NEW op \in {"usersCsv", "courseCsv"}, ImportCsv(d, op, file)
      PROVE  RightsInv'
  <2>1. file \in SUBSET People
    BY DEF People
  <2> QED
    BY <1>7, <2>1, OtherRequestsKeep
<1>8. ASSUME NEW d \in Desks,
             \/ AdminWrite(d) \/ ScanSessions(d) \/ DeleteSessions(d) \/ RemoveRow(d)
             \/ ByEmailRead(d) \/ ByEmailWrite(d) \/ MoodleEnrols(d)
             \/ ImportFind(d) \/ ImportCreate(d) \/ ImportEnrol(d)
      PROVE  RightsInv'
  BY <1>8, AdminWriteKeeps, ScanKeeps, DeleteKeeps, RemoveKeeps, ReadKeeps, ByEmailWriteKeeps, ImportsKeep
<1>9. CASE UNCHANGED accVars
  <2>1. UNCHANGED rows /\ UNCHANGED <<enrolled, sessions, login, desk, deskActs, logins, crossed, imported, letGo>>
    BY <1>9 DEF accVars, rows
  <2>2. AccTypeOK' /\ RowsOK' /\ (\A q \in People : RowMoves(q) /\ KeepsRights(q))
    BY <2>1, RowsStay DEF RightsInv, AccTypeOK, rows
  <2>3. LoginsUsed'
    BY <2>1, <2>2, LoginsKept
  <2>4. TouchesOnly'
    BY <2>1 DEF RightsInv, TouchesOnly, Touches
  <2> QED
    BY <2>1, <2>2, <2>3, <2>4, RightsKept
<1> QED
  BY <1>1, <1>2, <1>3, <1>4, <1>5, <1>6, <1>7, <1>8, <1>9 DEF AccNext

-----------------------------------------------------------------------------
(* Imports                                                                  *)

\* An import under way keeps what it knows, unless somebody was let go.
LEMMA KnowledgeKept ==
  ASSUME NEW x \in FileRequests, KnowsEnough(x), letGo \subseteq letGo',
         \A p \in x.file \ letGo' : x.op = "courseCsv" /\ Exists(p) => user'[p].id = user[p].id
  PROVE  KnowsEnough(x)'
BY DEF KnowsEnough, Exists, Knows

\* Whoever is neither let go nor removed in this step stays enrolled.
LEMMA ImportKept ==
  ASSUME ImportInv, RightsInv', imported' = imported, letGo \subseteq letGo',
         \A p \in InFiles \ letGo' : Exists(p) =>
            /\ user'[p].id = user[p].id
            /\ <<p, user[p].id>> \in enrolled => <<p, user[p].id>> \in enrolled',
         \A d \in Desks : Imports(desk'[d]) => desk'[d] = desk[d] \/ (desk'[d].known = {} /\ desk'[d].step = "find")
  PROVE  ImportInv'
<1> USE DEF ImportInv
<1>1. ImportsKnow'
  <2> SUFFICES ASSUME NEW d \in Desks, Imports(desk'[d]) PROVE KnowsEnough(desk[d])'
    BY DEF ImportsKnow, Imports
  <2>1. CASE desk'[d] = desk[d]
    <3>1. desk[d] \in FileRequests /\ KnowsEnough(desk[d])
      BY <2>1, RequestKinds DEF RightsInv, AccTypeOK, ImportsKnow
    <3>2. PICK x \in FileRequests : x = desk[d]
      BY <3>1
    <3>3. x.op = "courseCsv" => x.file \subseteq InFiles
      BY <3>2 DEF InFiles
    <3>4. KnowsEnough(x)'
      BY <3>1, <3>2, <3>3, KnowledgeKept
    <3> QED
      BY <2>1, <3>2, <3>4 DEF KnowsEnough, Knows
  <2>2. CASE desk'[d].known = {} /\ desk'[d].step = "find"
    BY <2>2 DEF KnowsEnough
  <2> QED
    BY <2>1, <2>2
<1>2. ImportedStay'
  BY DEF ImportedStay, InFiles, Exists
<1> QED
  BY <1>1, <1>2

\* No import goes on in a step of another request,
LEMMA NoImportGoesOn ==
  ASSUME RightsInv, NEW d \in Desks,
         \/ AdminWrite(d) \/ ScanSessions(d) \/ DeleteSessions(d) \/ RemoveRow(d)
         \/ ByEmailRead(d) \/ ByEmailWrite(d) \/ MoodleEnrols(d)
  PROVE  \A e \in Desks : Imports(desk'[e]) => desk'[e] = desk[e]
<1> DEFINE x == desk[d]
<1>1. x \in DeskRequest /\ desk \in [Desks -> DeskRequest]
  BY DEF RightsInv, AccTypeOK
<1>2. CASE AdminWrite(d) \/ ScanSessions(d) \/ DeleteSessions(d) \/ RemoveRow(d)
  <2>1. x \in AdminRequests /\ ~Imports(x)
    BY <1>1, <1>2, RequestKinds DEF AdminWrite, ScanSessions, DeleteSessions, RemoveRow, Administers, Imports
  <2>2. PICK y : /\ desk' = [desk EXCEPT ![d] = y]
                 /\ \/ y = [op |-> "idle"]
                    \/ y = [x EXCEPT !.step = "scan"]
                    \/ \E F : y = [x EXCEPT !.step = "del", !.found = F]
                    \/ y = [x EXCEPT !.step = "row"]
    BY <1>2 DEF AdminWrite, ScanSessions, DeleteSessions, RemoveRow, DeskGoes, DeskEnds
  <2>3. y.op \in {"idle", x.op}
    <3>1. CASE y = [op |-> "idle"]
      BY <3>1
    <3>2. CASE y = [x EXCEPT !.step = "scan"]
      BY <2>1, <3>2 DEF AdminRequests
    <3>3. ASSUME NEW F, y = [x EXCEPT !.step = "del", !.found = F] PROVE y.op = x.op
      BY <2>1, <3>3 DEF AdminRequests
    <3>4. CASE y = [x EXCEPT !.step = "row"]
      BY <2>1, <3>4 DEF AdminRequests
    <3> QED
      BY <2>2, <3>1, <3>2, <3>3, <3>4, Zenon
  <2> QED
    BY <1>1, <2>1, <2>2, <2>3 DEF Imports
<1>3. CASE ByEmailRead(d) \/ ByEmailWrite(d) \/ MoodleEnrols(d)
  <2>1. x \in EmailRequests /\ ~Imports(x)
    BY <1>1, <1>3, RequestKinds DEF ByEmailRead, ByEmailWrite, MoodleEnrols, ByEmail, Imports
  <2>2. PICK y : /\ desk' = [desk EXCEPT ![d] = y]
                 /\ \/ y = [op |-> "idle"]
                    \/ y = [x EXCEPT !.step = "enrol", !.seen = user[x.who]]
                    \/ y = [x EXCEPT !.step = "write", !.seen = user[x.who]]
                    \/ y = [x EXCEPT !.step = "enrol", !.seen = user'[x.who]]
    <3>1. CASE ByEmailRead(d)
      BY <3>1 DEF ByEmailRead, DeskGoes, DeskEnds
    <3>2. CASE ByEmailWrite(d)
      BY <3>2 DEF ByEmailWrite, DeskGoes, DeskEnds
    <3>3. CASE MoodleEnrols(d)
      BY <3>3 DEF MoodleEnrols, DeskGoes, DeskEnds
    <3> QED
      BY <1>3, <3>1, <3>2, <3>3
  <2>3. y.op \in {"idle", x.op}
    <3>1. CASE y = [op |-> "idle"]
      BY <3>1
    <3>2. ASSUME NEW t, NEW w, y = [x EXCEPT !.step = t, !.seen = w] PROVE y.op = x.op
      BY <2>1, <3>2 DEF EmailRequests
    <3> QED
      BY <2>2, <3>1, <3>2, Zenon
  <2> QED
    BY <1>1, <2>1, <2>2, <2>3 DEF Imports
<1> QED
  BY <1>2, <1>3

\* nor in one that opens a request.
LEMMA OpensImports ==
  ASSUME ImportInv, RightsInv', NEW d \in Desks, NEW x, DeskOpens(d, x),
         Imports(x) => x.known = {} /\ x.step = "find"
  PROVE  ImportInv'
<1>1. UNCHANGED rows /\ UNCHANGED <<enrolled, imported, letGo>>
  BY DEF DeskOpens, course
<1>2. desk'[d] = x /\ \A e \in Desks : e # d => desk'[e] = desk[e]
  BY DEF DeskOpens, DeskGoes, ImportInv, RightsInv, AccTypeOK
<1> QED
  BY <1>1, <1>2, ImportKept DEF rows

LEMMA RequestsOpenImports ==
  ASSUME ImportInv, RightsInv', NEW d \in Desks
  PROVE  /\ \A op \in {"role", "active", "remove"} : \A s, p, v : AdminRequest(d, s, p, op, v) => ImportInv'
         /\ \A s, p, r : CreateManual(d, s, p, r) => ImportInv'
         /\ \A op \in {"teacher", "student"} : \A p : MoodleSync(d, p, op) => ImportInv'
         /\ \A op, file : ImportCsv(d, op, file) => ImportInv'
<1>1. ASSUME NEW s, NEW p, NEW op \in {"role", "active", "remove"}, NEW v, AdminRequest(d, s, p, op, v) PROVE ImportInv'
  <2> DEFINE x == [op |-> op, step |-> IF op = "remove" THEN "scan" ELSE "write", by |-> <<s.who, s.id>>,
                   who |-> p, id |-> user[p].id, value |-> v, found |-> {}]
  <2>1. DeskOpens(d, x) /\ ~Imports(x)
    BY <1>1 DEF AdminRequest, Imports
  <2> QED
    BY <2>1, OpensImports
<1>2. ASSUME NEW s, NEW p, NEW r, CreateManual(d, s, p, r) PROVE ImportInv'
  <2> DEFINE x == [op |-> "manual", step |-> "read", who |-> p, seen |-> NoRow, value |-> r]
  <2>1. DeskOpens(d, x) /\ ~Imports(x)
    BY <1>2 DEF CreateManual, Imports
  <2> QED
    BY <2>1, OpensImports
<1>3. ASSUME NEW p, NEW op \in {"teacher", "student"}, MoodleSync(d, p, op) PROVE ImportInv'
  <2> DEFINE x == [op |-> op, step |-> "read", who |-> p, seen |-> NoRow,
                   value |-> IF op = "teacher" THEN "MODERATOR" ELSE "VIEWER"]
  <2>1. DeskOpens(d, x) /\ ~Imports(x)
    BY <1>3 DEF MoodleSync, Imports
  <2> QED
    BY <2>1, OpensImports
<1>4. ASSUME NEW op, NEW file, ImportCsv(d, op, file) PROVE ImportInv'
  <2> DEFINE x == [op |-> op, step |-> "find", file |-> file, known |-> {}]
  <2>1. DeskOpens(d, x) /\ x.known = {} /\ x.step = "find"
    BY <1>4 DEF ImportCsv
  <2> QED
    BY <2>1, OpensImports
<1> QED
  BY <1>1, <1>2, <1>3, <1>4

\* Steps that keep the ids of everybody's rows and the enrolments.
LEMMA IdsKept ==
  ASSUME ImportInv, RightsInv', UNCHANGED <<imported, letGo>>, enrolled \subseteq enrolled',
         \A p \in People : Exists(p) => user'[p].id = user[p].id,
         \A d \in Desks : Imports(desk'[d]) => desk'[d] = desk[d]
  PROVE  ImportInv'
<1>1. InFiles \subseteq People
  <2>1. \A d \in Desks : desk[d].op = "courseCsv" => desk[d].file \subseteq People
    <3> SUFFICES ASSUME NEW d \in Desks, desk[d].op = "courseCsv" PROVE desk[d].file \subseteq People
      OBVIOUS
    <3>1. desk[d] \in DeskRequest /\ Imports(desk[d])
      BY DEF ImportInv, RightsInv, AccTypeOK, Imports
    <3> QED
      BY <3>1, ImportGoes
  <2> QED
    BY <2>1 DEF InFiles, ImportInv, RightsInv, AccTypeOK
<1> QED
  BY <1>1, ImportKept

LEMMA LoginImports ==
  ASSUME ImportInv, RightsInv', NEW p \in People,
         Login(p) \/ FindByKeycloakId(p) \/ FindByEmail(p) \/ SyncRow(p) \/ StoreSession(p) \/ Enroll(p)
  PROVE  ImportInv'
<1>1. UNCHANGED <<imported, letGo, desk>> /\ enrolled \subseteq enrolled'
  BY DEF Login, FindByKeycloakId, FindByEmail, SyncRow, StoreSession, Enroll, course
<1>2. \A q \in People : Exists(q) => user'[q].id = user[q].id
  <2>1. CASE UNCHANGED rows
    BY <2>1 DEF rows
  <2>2. CASE SyncRow(p)
    <3>1. CASE Exists(p) /\ login[p].step = "create"
      BY <2>2, <3>1 DEF SyncRow, rows
    <3>2. CASE ~Exists(p) /\ login[p].step = "create"
      <4>1. \A q \in People : q # p => user'[q] = user[q]
        BY <2>2, <3>2 DEF SyncRow, ImportInv, RightsInv, AccTypeOK
      <4> QED
        BY <3>2, <4>1
    <3>3. CASE login[p].step # "create"
      <4>1. user' = user \/ user' = [user EXCEPT ![p].real = TRUE]
        BY <2>2, <3>3 DEF SyncRow
      <4> QED
        BY <4>1 DEF ImportInv, RightsInv, AccTypeOK, UserRow
    <3> QED
      BY <3>1, <3>2, <3>3
  <2> QED
    BY <2>1, <2>2 DEF Login, FindByKeycloakId, FindByEmail, StoreSession, Enroll
<1> QED
  BY <1>1, <1>2, IdsKept

LEMMA WriteImports ==
  ASSUME ImportInv, RightsInv', NEW d \in Desks,
         \/ AdminWrite(d) \/ ScanSessions(d) \/ DeleteSessions(d)
         \/ ByEmailRead(d) \/ ByEmailWrite(d) \/ MoodleEnrols(d)
  PROVE  ImportInv'
<1> DEFINE x == desk[d]
           p == x.who
<1> USE DEF ImportInv
<1>1. UNCHANGED <<imported, letGo>> /\ enrolled \subseteq enrolled'
  BY DEF AdminWrite, ScanSessions, DeleteSessions, ByEmailRead, ByEmailWrite, MoodleEnrols, course
<1>2. \A e \in Desks : Imports(desk'[e]) => desk'[e] = desk[e]
  BY NoImportGoesOn
<1>3. \A q \in People : Exists(q) => user'[q].id = user[q].id
  <2>1. CASE UNCHANGED rows
    BY <2>1 DEF rows
  <2>2. CASE AdminWrite(d)
    <3>1. CASE user' = [user EXCEPT ![p].role = x.value]
      BY <3>1 DEF RightsInv, AccTypeOK, UserRow
    <3>2. CASE user' = [user EXCEPT ![p].active = (x.value = "on")]
      BY <3>2 DEF RightsInv, AccTypeOK, UserRow
    <3> QED
      BY <2>2, <3>1, <3>2 DEF AdminWrite
  <2>3. CASE ByEmailWrite(d)
    <3>1. CASE ~Exists(p) /\ Insert({p}, x.value)
      BY <3>1 DEF Insert
    <3>2. CASE user' = user \/ user' = [user EXCEPT ![p].role = x.value]
      BY <3>2 DEF RightsInv, AccTypeOK, UserRow
    <3> QED
      BY <2>3, <3>1, <3>2 DEF ByEmailWrite, rows
  <2> QED
    BY <2>1, <2>2, <2>3 DEF ScanSessions, DeleteSessions, ByEmailRead, MoodleEnrols
<1> QED
  BY <1>1, <1>2, <1>3, IdsKept

\* Who is removed or unenrolled is let go.
LEMMA LetGoImports ==
  ASSUME ImportInv, RightsInv'
  PROVE  /\ \A p \in People : Unenroll(p) => ImportInv'
         /\ \A d \in Desks : RemoveRow(d) => ImportInv'
<1> USE DEF ImportInv
<1>1. ASSUME NEW p \in People, Unenroll(p) PROVE ImportInv'
  <2>1. UNCHANGED rows /\ UNCHANGED <<imported, desk>> /\ letGo' = letGo \cup ({p} \cap InFiles)
        /\ enrolled' = {e \in enrolled : e[1] # p}
    BY <1>1 DEF Unenroll
  <2> QED
    BY <2>1, ImportKept DEF rows
<1>2. ASSUME NEW d \in Desks, RemoveRow(d) PROVE ImportInv'
  <2> DEFINE p == desk[d].who
  <2>1. \A e \in Desks : Imports(desk'[e]) => desk'[e] = desk[e]
    BY <1>2, NoImportGoesOn
  <2>2. \/ UNCHANGED <<user, enrolled, letGo>>
        \/ /\ user' = [user EXCEPT ![p] = NoRow]
           /\ enrolled' = {e \in enrolled : e[1] # p}
           /\ letGo' = letGo \cup ({p} \cap InFiles)
    BY <1>2 DEF RemoveRow
  <2>3. imported' = imported /\ InFiles \subseteq People
    <3>1. \A e \in Desks : desk[e].op = "courseCsv" => desk[e].file \subseteq People
      <4> SUFFICES ASSUME NEW e \in Desks, desk[e].op = "courseCsv" PROVE desk[e].file \subseteq People
        OBVIOUS
      <4>1. desk[e] \in DeskRequest /\ Imports(desk[e])
        BY DEF RightsInv, AccTypeOK, Imports
      <4> QED
        BY <4>1, ImportGoes
    <3> QED
      BY <1>2, <3>1 DEF RemoveRow, InFiles, RightsInv, AccTypeOK
  <2>4. CASE UNCHANGED <<user, enrolled, letGo>>
    BY <2>1, <2>3, <2>4, ImportKept
  <2>5. CASE /\ user' = [user EXCEPT ![p] = NoRow]
             /\ enrolled' = {e \in enrolled : e[1] # p}
             /\ letGo' = letGo \cup ({p} \cap InFiles)
    <3>1. \A q \in InFiles \ letGo' :
            /\ user'[q].id = user[q].id
            /\ <<q, user[q].id>> \in enrolled => <<q, user[q].id>> \in enrolled'
      BY <2>3, <2>5 DEF RightsInv, AccTypeOK
    <3>2. letGo \subseteq letGo'
      BY <2>5
    <3> QED
      BY <2>1, <2>3, <3>1, <3>2, ImportKept
  <2> QED
    BY <2>2, <2>4, <2>5
<1> QED
  BY <1>1, <1>2

\* Nobody of the file is missed: who was found, was there or has been created.
LEMMA ImportsGoOn ==
  ASSUME ImportInv, RightsInv', NEW d \in Desks, ImportFind(d) \/ ImportCreate(d) \/ ImportEnrol(d)
  PROVE  ImportInv'
<1> DEFINE x == desk[d]
<1> USE DEF ImportInv
<1>1. x \in FileRequests /\ Imports(x) /\ KnowsEnough(x) /\ letGo' = letGo /\ desk \in [Desks -> DeskRequest]
  BY RequestKinds DEF ImportFind, ImportCreate, ImportEnrol, course, Imports, ImportsKnow, RightsInv, AccTypeOK
<1>2. x.file \subseteq People /\ x.known \subseteq People \X Ids /\ MissingOf(x) \subseteq x.file
  BY <1>1 DEF FileRequests, MissingOf
<1>3. \A p \in People : Exists(p) => user'[p].id = user[p].id
  <2>1. CASE UNCHANGED rows
    BY <2>1 DEF rows
  <2>2. CASE ImportCreate(d)
    BY <2>2 DEF ImportCreate, Insert
  <2> QED
    BY <2>1, <2>2 DEF ImportFind, ImportEnrol
<1>4. \A e \in Desks : e # d => desk'[e] = desk[e]
  BY <1>1 DEF ImportFind, ImportCreate, ImportEnrol, DeskGoes, DeskEnds
<1>5. ASSUME NEW e \in Desks, e # d, Imports(desk'[e]) PROVE KnowsEnough(desk[e])'
  <2>1. desk'[e] = desk[e] /\ desk[e] \in FileRequests /\ KnowsEnough(desk[e])
    BY <1>1, <1>4, <1>5, RequestKinds DEF ImportsKnow
  <2>2. PICK z \in FileRequests : z = desk[e]
    BY <2>1
  <2>3. \A p \in z.file : Exists(p) => user'[p].id = user[p].id
    BY <1>3 DEF FileRequests
  <2>4. KnowsEnough(z)'
    BY <1>1, <2>1, <2>2, <2>3, KnowledgeKept
  <2> QED
    BY <2>1, <2>2, <2>4 DEF KnowsEnough, Knows
<1>6. CASE ImportFind(d)
  <2>1. UNCHANGED rows /\ UNCHANGED <<enrolled, imported>>
    BY <1>6 DEF ImportFind, course
  <2>2. \A Q : \A e \in Found(Q) : e[2] # 0
    BY DEF Found, Exists
  <2>3. CASE x.step = "find"
    <3>1. PICK y : desk' = [desk EXCEPT ![d] = y] /\ y = [x EXCEPT !.step = "create", !.known = Found(x.file)]
      BY <1>6, <2>3 DEF ImportFind, DeskGoes
    <3>2. y.step = "create" /\ y.known = Found(x.file)
      BY <1>1, <3>1 DEF FileRequests
    <3>3. desk'[d] = y
      BY <1>1, <3>1
    <3>4. KnowsEnough(desk[d])'
      BY <2>2, <3>2, <3>3 DEF KnowsEnough
    <3> QED
      BY <1>1, <1>5, <2>1, <3>4 DEF ImportsKnow, ImportedStay, Imports, Exists, rows
  <2>4. CASE x.step # "find"
    <3>1. PICK y : desk' = [desk EXCEPT ![d] = y] /\ y = [x EXCEPT !.step = "enrol", !.known = x.known \cup Found(MissingOf(x))]
      BY <1>6, <2>4 DEF ImportFind, DeskGoes
    <3>2. y.step = "enrol" /\ y.known = x.known \cup Found(MissingOf(x)) /\ y.file = x.file /\ y.op = x.op
      BY <1>1, <3>1 DEF FileRequests
    <3>3. desk'[d] = y
      BY <1>1, <3>1
    <3>4. \A e \in y.known : e[2] # 0
      BY <1>1, <2>2, <3>2 DEF KnowsEnough
    <3>5. ASSUME x.op = "courseCsv", NEW p \in x.file \ letGo PROVE Knows(y, p)
      <4>1. CASE Knows(x, p)
        BY <3>2, <4>1 DEF Knows
      <4>2. CASE ~Knows(x, p)
        <5>1. Exists(p)
          BY <1>1, <1>6, <2>4, <3>5, <4>2 DEF KnowsEnough, ImportFind
        <5>2. p \in MissingOf(x)
          BY <4>2 DEF MissingOf, Knows
        <5>3. <<p, user[p].id>> \in Found(MissingOf(x))
          BY <5>1, <5>2 DEF Found
        <5> QED
          BY <3>2, <5>3 DEF Knows
      <4> QED
        BY <4>1, <4>2
    <3>6. KnowsEnough(desk[d])'
      BY <1>1, <3>2, <3>3, <3>4, <3>5 DEF KnowsEnough, Knows
    <3> QED
      BY <1>1, <1>5, <2>1, <3>6 DEF ImportsKnow, ImportedStay, Imports, Exists, rows
  <2> QED
    BY <2>3, <2>4
<1>7. CASE ImportCreate(d)
  <2>1. UNCHANGED <<enrolled, imported>>
    BY <1>7 DEF ImportCreate, course
  <2>2. ImportedStay'
    BY <1>1, <1>3, <2>1 DEF ImportedStay, Exists, RightsInv, AccTypeOK
  <2>3. CASE x.op = "usersCsv"
    <3>1. ~Imports(desk'[d])
      BY <1>1, <1>7, <2>3 DEF ImportCreate, DeskEnds, DeskGoes, Imports
    <3> QED
      BY <1>5, <2>2, <3>1 DEF ImportsKnow, Imports
  <2>4. CASE x.op # "usersCsv"
    <3>1. PICK y : desk' = [desk EXCEPT ![d] = y] /\ y = [x EXCEPT !.step = "again"]
      BY <1>7, <2>4 DEF ImportCreate, DeskGoes
    <3>2. y.step = "again" /\ y.known = x.known /\ y.file = x.file /\ y.op = x.op
      BY <1>1, <3>1 DEF FileRequests
    <3>3. desk'[d] = y
      BY <1>1, <3>1
    <3>4. ASSUME NEW p \in x.file PROVE Exists(p)' \/ Knows(y, p)
      <4>1. CASE Knows(x, p)
        BY <3>2, <4>1 DEF Knows
      <4>2. CASE ~Knows(x, p) /\ Exists(p)
        BY <1>2, <1>3, <4>2 DEF Exists
      <4>3. CASE ~Knows(x, p) /\ ~Exists(p)
        <5>1. p \in MissingOf(x) /\ p \in People
          BY <1>2, <4>3 DEF MissingOf, Knows
        <5>2. user'[p].id = lastId[p] + 1 /\ lastId[p] \in Nat
          BY <1>7, <4>3, <5>1 DEF ImportCreate, Insert, Row, RightsInv, AccTypeOK, Ids
        <5> QED
          BY <5>2 DEF Exists
      <4> QED
        BY <4>1, <4>2, <4>3
    <3>5. KnowsEnough(desk[d])'
      BY <1>1, <3>2, <3>3, <3>4 DEF KnowsEnough, Knows
    <3> QED
      BY <1>5, <2>2, <3>5 DEF ImportsKnow, Imports
  <2> QED
    BY <2>3, <2>4
<1>8. CASE ImportEnrol(d)
  <2>1. UNCHANGED rows /\ ~Imports(desk'[d])
    BY <1>1, <1>8 DEF ImportEnrol, DeskEnds, DeskGoes, Imports
  <2>2. ImportsKnow'
    BY <1>5, <2>1 DEF ImportsKnow, Imports
  <2>3. ImportedStay'
    <3>1. CASE UNCHANGED <<enrolled, imported>>
      BY <1>1, <2>1, <3>1 DEF ImportedStay, Exists, rows
    <3>2. CASE /\ \A e \in x.known : user[e[1]].id = e[2]
               /\ enrolled' = enrolled \cup x.known /\ imported' = imported \cup x.file
      <4>1. ASSUME NEW p \in x.file \ letGo PROVE Exists(p) /\ <<p, user[p].id>> \in x.known
        <5>1. PICK e \in x.known : e[1] = p
          BY <1>1, <1>8 DEF ImportEnrol, KnowsEnough, Knows
        <5>2. e = <<p, user[p].id>> /\ e[2] # 0
          BY <1>1, <1>2, <3>2, <5>1 DEF KnowsEnough
        <5> QED
          BY <5>2 DEF Exists
      <4> QED
        BY <1>1, <2>1, <3>2, <4>1 DEF ImportedStay, Exists, rows
    <3> QED
      BY <1>8, <3>1, <3>2 DEF ImportEnrol
  <2> QED
    BY <2>2, <2>3
<1> QED
  BY <1>6, <1>7, <1>8

LEMMA ImportNext == ImportInv /\ [AccNext]_accVars => ImportInv'
<1> SUFFICES ASSUME ImportInv, [AccNext]_accVars PROVE ImportInv'
  OBVIOUS
<1>0. RightsInv'
  BY RightsNext DEF ImportInv
<1>1. ASSUME NEW p \in Others,
             Login(p) \/ FindByKeycloakId(p) \/ FindByEmail(p) \/ SyncRow(p) \/ StoreSession(p) \/ Enroll(p)
      PROVE  ImportInv'
  <2>1. p \in People
    BY DEF People
  <2> QED
    BY <1>0, <1>1, <2>1, LoginImports
<1>2. ASSUME NEW s \in sessions, Logout(s) PROVE ImportInv'
  <2>1. UNCHANGED <<user, enrolled, imported, letGo, desk>>
    BY <1>2 DEF Logout, rows, course
  <2> QED
    BY <1>0, <2>1, IdsKept
<1>3. ASSUME NEW p \in Others, Unenroll(p) PROVE ImportInv'
  BY <1>0, <1>3, LetGoImports DEF People
<1>4. ASSUME NEW d \in Desks,
             \/ \E s \in sessions, p \in People :
                  \/ \E r \in Roles : AdminRequest(d, s, p, "role", r) \/ CreateManual(d, s, p, r)
                  \/ \E to \in {"on", "off"} : AdminRequest(d, s, p, "active", to)
                  \/ AdminRequest(d, s, p, "remove", "off")
             \/ \E p \in Others, op \in {"teacher", "student"} : MoodleSync(d, p, op)
             \/ \E file \in SUBSET Others \ {{}}, op \in {"usersCsv", "courseCsv"} : ImportCsv(d, op, file)
      PROVE  ImportInv'
  <2>1. ASSUME NEW s \in sessions, NEW p \in People,
               \/ \E r \in Roles : AdminRequest(d, s, p, "role", r) \/ CreateManual(d, s, p, r)
               \/ \E to \in {"on", "off"} : AdminRequest(d, s, p, "active", to)
               \/ AdminRequest(d, s, p, "remove", "off")
        PROVE  ImportInv'
    BY <1>0, <2>1, RequestsOpenImports
  <2>2. ASSUME NEW p \in Others, NEW op \in {"teacher", "student"}, MoodleSync(d, p, op) PROVE ImportInv'
    BY <1>0, <2>2, RequestsOpenImports
  <2>3. ASSUME NEW file \in SUBSET Others \ {{}}, NEW op \in {"usersCsv", "courseCsv"}, ImportCsv(d, op, file)
        PROVE  ImportInv'
    BY <1>0, <2>3, RequestsOpenImports
  <2> QED
    BY <1>4, <2>1, <2>2, <2>3
<1>5. ASSUME NEW d \in Desks,
             \/ AdminWrite(d) \/ ScanSessions(d) \/ DeleteSessions(d) \/ RemoveRow(d)
             \/ ByEmailRead(d) \/ ByEmailWrite(d) \/ MoodleEnrols(d)
             \/ ImportFind(d) \/ ImportCreate(d) \/ ImportEnrol(d)
      PROVE  ImportInv'
  BY <1>0, <1>5, WriteImports, LetGoImports, ImportsGoOn
<1>6. CASE UNCHANGED accVars
  BY <1>0, <1>6, IdsKept DEF accVars
<1> QED
  BY <1>1, <1>2, <1>3, <1>4, <1>5, <1>6 DEF AccNext

-----------------------------------------------------------------------------
(* What holds                                                               *)

\* In every state of the accounts, the sessions, the logins and the requests in
\* flight have the shape users.service.ts and enrollments.service.ts give them.
THEOREM AccTypeCorrect == AccSpec => []AccTypeOK
<1>1. RightsInv => AccTypeOK
  BY DEF RightsInv
<1> QED
  BY <1>1, RightsInit, RightsNext, PTL DEF AccSpec

\* Whoever the guards let manage on a session is entitled to by the database, and an
\* administrator remains: the revokeUserSessions of updateRole, setActive and remove is
\* enough, whatever logins, requests and imports run in between, but for the sessions
\* stored across a change of the account and the requests that wrote from a stale read.
THEOREM RightsFollow == AccSpec => []RightsFollowAccounts
<1>1. RightsInv => RightsFollowAccounts
  BY RightsEntitle
<1> QED
  BY <1>1, RightsInit, RightsNext, PTL DEF AccSpec

\* The importFromCsv of EnrollmentsService enrols everybody in its file who was not let
\* go meanwhile, whatever other imports, logins and the plugin create between its awaits.
THEOREM ImportsEnrol == AccSpec => []ImportEnrolsEverybody
<1>1. AccInit => ImportInv
  <2> SUFFICES ASSUME AccInit PROVE ImportsKnow /\ ImportedStay
    BY RightsInit DEF ImportInv
  <2>1. imported = {} /\ \A d \in Desks : desk[d].op = "idle"
    BY DEF AccInit
  <2> QED
    BY <2>1 DEF ImportsKnow, ImportedStay, Imports
<1>2. ImportInv => ImportEnrolsEverybody
  BY DEF ImportInv, ImportedStay, ImportEnrolsEverybody
<1> QED
  BY <1>1, <1>2, ImportNext, PTL DEF AccSpec
=============================================================================
