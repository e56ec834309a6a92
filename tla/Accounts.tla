----------------------------- MODULE Accounts ------------------------------
(***************************************************************************)
(* The accounts, the sessions and the enrolments in one course.  A session *)
(* is a copy of the account made at login, which the guards trust without  *)
(* reading the database again; changing or removing an account is          *)
(* therefore followed by a scan of the session store.  Administrators, the *)
(* Moodle plugin, imports and logins work on the same rows, one await at a *)
(* time.                                                                   *)
(***************************************************************************)
EXTENDS Naturals, FiniteSets

CONSTANTS
  Admin,        \* an administrator since the installation
  Others,       \* people who may come, each with an email
  Desks,        \* slots for the HTTP requests in flight, logins apart
  MaxDeskActs,  \* bounds on these requests,
  MaxLogins,    \*   on the logins
  MaxIds        \*   and on the rows ever created for one email

ASSUME AccAssumption == MaxDeskActs \in Nat /\ MaxLogins \in Nat /\ MaxIds \in Nat \ {0}

VARIABLES
  user,         \* user[p]: the row with p's email, id 0 without one
  lastId,       \* how many rows p's email has had
  enrolled,     \* the enrolments in the course, as pairs person / id
  sessions,     \* the session store
  login,        \* login[p]: the login of p under way
  desk,         \* the requests in flight
  deskActs, logins,
  crossed,      \* a request wrote what it should not have; where is said below
  imported,     \* people of the files imported in the course,
  letGo         \*   and those unenrolled or removed during an import or after

accVars  == <<user, lastId, enrolled, sessions, login, desk, deskActs, logins, crossed,
              imported, letGo>>
rows     == <<user, lastId>>
counters == <<deskActs, logins>>
course   == <<enrolled, imported, letGo>>

People == {Admin} \cup Others
Roles  == {"VIEWER", "MODERATOR", "ADMIN"}
Ids    == 0..MaxIds
NoRow  == [id |-> 0, role |-> "VIEWER", active |-> FALSE, real |-> FALSE]
\* "pending" rows, created before the first login, are those that are not real.
UserRow == [id : Ids, role : Roles, active : BOOLEAN, real : BOOLEAN]
Session == [who : People, id : Ids, role : Roles, raced : BOOLEAN]
Exists(p) == user[p].id # 0

DeskRequest ==
  [op : {"idle"}]
    \cup [op : {"role", "active", "remove"}, step : {"write", "scan", "del", "row"},
          by : People \X Ids, who : People, id : Ids, value : Roles \cup {"on", "off"}, found : SUBSET Session]
    \cup [op : {"teacher", "student", "manual"}, step : {"read", "write", "enrol"}, who : People,
          seen : UserRow, value : Roles]
    \cup [op : {"usersCsv", "courseCsv"}, step : {"find", "create", "again", "enrol"},
          file : SUBSET People, known : SUBSET (People \X Ids)]

AccTypeOK ==
  /\ user \in [People -> UserRow]
  /\ lastId \in [People -> Ids]
  /\ enrolled \subseteq People \X Ids
  /\ sessions \subseteq Session
  /\ login \in [People -> [step : {"none", "keycloak", "email", "adopt", "create", "update", "store"},
                           row : UserRow]]
  /\ desk \in [Desks -> DeskRequest]
  /\ deskActs \in 0..MaxDeskActs
  /\ logins \in 0..MaxLogins
  /\ crossed \in BOOLEAN
  /\ imported \subseteq People
  /\ letGo \subseteq People

NoLogin == [step |-> "none", row |-> NoRow]
Row(i, r, real) == [id |-> i, role |-> r, active |-> TRUE, real |-> real]

\* The others have no row yet, or are administrators too.
AccInit ==
  /\ \E also \in SUBSET Others :
       user = [p \in People |-> IF p \in also \cup {Admin} THEN Row(1, "ADMIN", TRUE) ELSE NoRow]
  /\ lastId = [p \in People |-> user[p].id]
  /\ enrolled = {}
  /\ sessions = {[who |-> p, id |-> 1, role |-> "ADMIN", raced |-> FALSE] : p \in {q \in People : Exists(q)}}
  /\ login = [p \in People |-> NoLogin]
  /\ desk = [d \in Desks |-> [op |-> "idle"]]
  /\ deskActs = 0
  /\ logins = 0
  /\ crossed = FALSE
  /\ imported = {}
  /\ letGo = {}

DeskGoes(d, x) == desk' = [desk EXCEPT ![d] = x]
DeskEnds(d)    == DeskGoes(d, [op |-> "idle"])
\* A request takes one slot that is free: they are all alike.
DeskOpens(d, x) ==
  /\ desk[d].op = "idle"
  /\ d = CHOOSE e \in Desks : desk[e].op = "idle"
  /\ deskActs < MaxDeskActs
  /\ deskActs' = deskActs + 1
  /\ DeskGoes(d, x)
  /\ UNCHANGED <<rows, course, sessions, login, logins, crossed>>

\* The people of the files imported, or being imported.
InFiles == imported \cup UNION {desk[d].file : d \in {e \in Desks : desk[e].op = "courseCsv"}}

\* What the routes ask of the role; a course is also managed by its creator, whoever that is.
RequireRole(op) == IF op \in {"role", "active", "remove", "manual", "usersCsv"} THEN {"ADMIN"} ELSE Roles

\* RolesGuard reads the session.
Allowed(s, op) == s.role \in RequireRole(op)

Insert(people, role) ==
  /\ \A p \in people : lastId[p] < MaxIds
  /\ lastId' = [p \in People |-> IF p \in people THEN lastId[p] + 1 ELSE lastId[p]]
  /\ user' = [p \in People |-> IF p \in people THEN Row(lastId[p] + 1, role, FALSE) ELSE user[p]]

-----------------------------------------------------------------------------
(* Login                                                                    *)

Login(p) ==
  /\ login[p].step = "none"
  /\ logins < MaxLogins
  /\ logins' = logins + 1
  /\ login' = [login EXCEPT ![p].step = "keycloak"]
  /\ UNCHANGED <<rows, course, sessions, desk, deskActs, crossed>>

\* syncFromKeycloak: the account is looked for by its Keycloak identity,
FindByKeycloakId(p) ==
  /\ login[p].step = "keycloak"
  /\ login' = [login EXCEPT ![p] = [step |-> IF user[p].real THEN "update" ELSE "email",
                                    row |-> user[p]]]
  /\ UNCHANGED <<rows, course, sessions, desk, counters, crossed>>

\* then by its email, and adopted if it is pending.
FindByEmail(p) ==
  /\ login[p].step = "email"
  /\ login' = [login EXCEPT ![p] = [step |-> IF Exists(p) /\ ~user[p].real THEN "adopt" ELSE "create",
                                    row |-> user[p]]]
  /\ UNCHANGED <<rows, course, sessions, desk, counters, crossed>>

\* An update of a row that is gone, or the creation of a second row for an email,
\* is an error: no session.
SyncRow(p) ==
  /\ login[p].step \in {"update", "adopt", "create"}
  /\ IF login[p].step = "create"
       THEN IF Exists(p) THEN UNCHANGED rows
            ELSE /\ lastId[p] < MaxIds
                 /\ lastId' = [lastId EXCEPT ![p] = @ + 1]
                 /\ user' = [user EXCEPT ![p] = Row(lastId[p] + 1, "VIEWER", TRUE)]
       ELSE /\ user' = IF user[p].id = login[p].row.id THEN [user EXCEPT ![p].real = TRUE] ELSE user
            /\ UNCHANGED lastId
  /\ LET synced == user'[p].real /\ (login[p].step = "create" => ~Exists(p))
                     /\ (login[p].step # "create" => user[p].id = login[p].row.id)
     IN login' = [login EXCEPT ![p] = IF synced THEN [step |-> "store", row |-> user'[p]] ELSE NoLogin]
  /\ UNCHANGED <<course, sessions, desk, counters, crossed>>

\* The session is a copy of the row that was synchronised; an account that is not
\* active gets none.  Raced: the row is not what it was.
StoreSession(p) ==
  /\ login[p].step = "store"
  /\ LET row == login[p].row
     IN sessions' = IF row.active
          THEN sessions \cup {[who |-> p, id |-> row.id, role |-> row.role, raced |-> row # user[p]]}
          ELSE sessions
  /\ login' = [login EXCEPT ![p] = NoLogin]
  /\ UNCHANGED <<rows, course, desk, counters, crossed>>

Logout(s) ==
  /\ sessions' = sessions \ {s}
  /\ UNCHANGED <<rows, course, login, desk, counters, crossed>>

-----------------------------------------------------------------------------
(* Administration: updateRole, setActive, remove.  Nobody may change his    *)
(* own account.                                                             *)

AdminRequest(d, s, p, op, value) ==
  /\ Allowed(s, op)
  /\ Exists(p)
  /\ <<p, user[p].id>> # <<s.who, s.id>>
  /\ DeskOpens(d, [op |-> op, step |-> IF op = "remove" THEN "scan" ELSE "write",
                   by |-> <<s.who, s.id>>, who |-> p, id |-> user[p].id, value |-> value,
                   found |-> {}])

\* Crossed: the administrator who asked is none any more.
UnlessEntitled(by) ==
  LET row == user[by[1]] IN crossed \/ row.id # by[2] \/ row.role # "ADMIN" \/ ~row.active

\* A change of role, or a deactivation, is followed by a scan.
AdminWrite(d) ==
  LET x == desk[d] IN
  /\ x.op \in {"role", "active"}
  /\ x.step = "write"
  /\ IF user[x.who].id = x.id
       THEN /\ user' = IF x.op = "role" THEN [user EXCEPT ![x.who].role = x.value]
                       ELSE [user EXCEPT ![x.who].active = (x.value = "on")]
            /\ crossed' = UnlessEntitled(x.by)
            /\ IF x.value = "on" THEN DeskEnds(d) ELSE DeskGoes(d, [x EXCEPT !.step = "scan"])
       ELSE DeskEnds(d) /\ UNCHANGED <<user, crossed>>
  /\ UNCHANGED <<lastId, course, sessions, login, counters>>

\* Mutant: only sessions that look privileged are looked for.
ScanPrivileged(d) ==
  LET x == desk[d] IN
  /\ x.op \in {"role", "active", "remove"}
  /\ x.step = "scan"
  /\ DeskGoes(d, [x EXCEPT !.step = "del",
                           !.found = {s \in sessions : s.id = x.id /\ s.who = x.who /\ s.role = "ADMIN"}])
  /\ UNCHANGED <<rows, course, sessions, login, counters, crossed>>

\* revokeUserSessions: all keys are read, then those found are deleted.
ScanSessions(d) ==
  LET x == desk[d] IN
  /\ x.op \in {"role", "active", "remove"}
  /\ x.step = "scan"
  /\ DeskGoes(d, [x EXCEPT !.step = "del", !.found = {s \in sessions : s.who = x.who /\ s.id = x.id}])
  /\ UNCHANGED <<rows, course, sessions, login, counters, crossed>>

DeleteSessions(d) ==
  LET x == desk[d] IN
  /\ x.op \in {"role", "active", "remove"}
  /\ x.step = "del"
  /\ sessions' = sessions \ x.found
  /\ IF x.op = "remove" THEN DeskGoes(d, [x EXCEPT !.step = "row"]) ELSE DeskEnds(d)
  /\ UNCHANGED <<rows, course, login, counters, crossed>>

\* The enrolments go with the row.  Raced: the sessions opened since the scan.
RemoveRow(d) ==
  LET x == desk[d] IN
  /\ x.op = "remove"
  /\ x.step = "row"
  /\ IF user[x.who].id = x.id
       THEN /\ user' = [user EXCEPT ![x.who] = NoRow]
            /\ enrolled' = {e \in enrolled : e[1] # x.who}
            /\ letGo' = letGo \cup ({x.who} \cap InFiles)
            /\ crossed' = UnlessEntitled(x.by)
            /\ sessions' = {IF s.who = x.who THEN [s EXCEPT !.raced = TRUE] ELSE s : s \in sessions}
       ELSE UNCHANGED <<user, enrolled, letGo, crossed, sessions>>
  /\ DeskEnds(d)
  /\ UNCHANGED <<lastId, imported, login, counters>>

-----------------------------------------------------------------------------
(* Accounts known by email only: the Moodle plugin and the form of the      *)
(* administrator.                                                           *)

MoodleSync(d, p, op) ==
  DeskOpens(d, [op |-> op, step |-> "read", who |-> p, seen |-> NoRow,
                value |-> IF op = "teacher" THEN "MODERATOR" ELSE "VIEWER"])

CreateManual(d, s, p, role) ==
  /\ Allowed(s, "manual")
  /\ DeskOpens(d, [op |-> "manual", step |-> "read", who |-> p, seen |-> NoRow, value |-> role])

\* Which rows found are rewritten: a viewer who turns out to teach, a pending
\* account described again.
Touches(x, row) ==
  CASE x.op = "teacher" -> row.role = "VIEWER"
    [] x.op = "student" -> FALSE
    [] x.op = "manual"  -> ~row.real

ByEmailRead(d) ==
  LET x == desk[d]
      row == user[x.who]
      after == [x EXCEPT !.step = IF row.id = 0 \/ Touches(x, row) THEN "write" ELSE "enrol",
                         !.seen = row]
  IN
  /\ x.op \in {"teacher", "student", "manual"}
  /\ x.step = "read"
  /\ IF x.op = "manual" /\ row.real THEN DeskEnds(d) ELSE DeskGoes(d, after)
  /\ UNCHANGED <<rows, course, sessions, login, counters, crossed>>

\* Crossed: the role replaced is not the one that was read, or sessions are open
\* on it: nobody revokes them here.
ByEmailWrite(d) ==
  LET x == desk[d]
      p == x.who
      enrols == IF x.op = "manual" THEN DeskEnds(d)
                ELSE DeskGoes(d, [x EXCEPT !.step = "enrol", !.seen = user'[p]])
  IN
  /\ x.op \in {"teacher", "student", "manual"}
  /\ x.step = "write"
  /\ IF x.seen.id = 0 /\ ~Exists(p) THEN Insert({p}, x.value) /\ enrols /\ UNCHANGED crossed
     ELSE IF x.seen.id # 0 /\ user[p].id = x.seen.id
       THEN /\ user' = [user EXCEPT ![p].role = x.value]
            /\ crossed' = (crossed \/ user[p].role # x.seen.role \/ user[p].real # x.seen.real)
            /\ enrols
            /\ UNCHANGED lastId
       ELSE DeskEnds(d) /\ UNCHANGED <<rows, crossed>>
  /\ UNCHANGED <<course, sessions, login, counters>>

\* ensureEnrolled; a row that is gone is an error.
MoodleEnrols(d) ==
  LET x == desk[d] IN
  /\ x.op \in {"teacher", "student", "manual"}
  /\ x.step = "enrol"
  /\ enrolled' = IF user[x.who].id = x.seen.id THEN enrolled \cup {<<x.who, x.seen.id>>} ELSE enrolled
  /\ DeskEnds(d)
  /\ UNCHANGED <<rows, imported, letGo, sessions, login, counters, crossed>>

Enroll(p) ==
  /\ Exists(p)
  /\ deskActs < MaxDeskActs
  /\ deskActs' = deskActs + 1
  /\ enrolled' = enrolled \cup {<<p, user[p].id>>}
  /\ UNCHANGED <<rows, imported, letGo, sessions, login, desk, logins, crossed>>

Unenroll(p) ==
  /\ deskActs < MaxDeskActs
  /\ deskActs' = deskActs + 1
  /\ enrolled' = {e \in enrolled : e[1] # p}
  /\ letGo' = letGo \cup ({p} \cap InFiles)
  /\ UNCHANGED <<rows, imported, sessions, login, desk, logins, crossed>>

-----------------------------------------------------------------------------
(* Imports: usersCsv by an administrator, courseCsv by a manager.  The      *)
(* accounts found are remembered; those missing are created, duplicates     *)
(* skipped, and looked for again.                                           *)

Found(people) == {<<p, user[p].id>> : p \in {q \in people : Exists(q)}}
MissingOf(x)  == {p \in x.file : \A e \in x.known : e[1] # p}

ImportCsv(d, op, file) ==
  /\ op = "usersCsv" => \E s \in sessions : Allowed(s, op)
  /\ DeskOpens(d, [op |-> op, step |-> "find", file |-> file, known |-> {}])

\* Mutant: the accounts created are not looked for again.
ImportFindOnce(d) ==
  LET x == desk[d] IN
  /\ x.op \in {"usersCsv", "courseCsv"}
  /\ x.step \in {"find", "again"}
  /\ IF x.step = "find" THEN DeskGoes(d, [x EXCEPT !.step = "create", !.known = Found(x.file)])
     ELSE DeskGoes(d, [x EXCEPT !.step = "enrol"])
  /\ UNCHANGED <<rows, course, sessions, login, counters, crossed>>

ImportFind(d) ==
  LET x == desk[d] IN
  /\ x.op \in {"usersCsv", "courseCsv"}
  /\ x.step \in {"find", "again"}
  /\ IF x.step = "find" THEN DeskGoes(d, [x EXCEPT !.step = "create", !.known = Found(x.file)])
     ELSE DeskGoes(d, [x EXCEPT !.step = "enrol", !.known = @ \cup Found(MissingOf(x))])
  /\ UNCHANGED <<rows, course, sessions, login, counters, crossed>>

\* The roles written in the file count for an administrator's import only.
ImportCreate(d) ==
  LET x == desk[d] IN
  /\ x.op \in {"usersCsv", "courseCsv"}
  /\ x.step = "create"
  /\ \E role \in IF x.op = "usersCsv" THEN {"VIEWER", "MODERATOR"} ELSE {"VIEWER"} :
       Insert({p \in MissingOf(x) : ~Exists(p)}, role)
  /\ IF x.op = "usersCsv" THEN DeskEnds(d) ELSE DeskGoes(d, [x EXCEPT !.step = "again"])
  /\ UNCHANGED <<course, sessions, login, counters, crossed>>

\* One row that is gone makes the whole batch fail.
ImportEnrol(d) ==
  LET x == desk[d] IN
  /\ x.op = "courseCsv"
  /\ x.step = "enrol"
  /\ IF \A e \in x.known : user[e[1]].id = e[2]
       THEN enrolled' = enrolled \cup x.known /\ imported' = imported \cup x.file
       ELSE UNCHANGED <<enrolled, imported>>
  /\ DeskEnds(d)
  /\ UNCHANGED <<rows, letGo, sessions, login, counters, crossed>>

AccNext ==
  \/ \E p \in Others : Login(p) \/ FindByKeycloakId(p) \/ FindByEmail(p) \/ SyncRow(p) \/ StoreSession(p)
  \/ \E s \in sessions : Logout(s)
  \/ \E p \in Others : Enroll(p) \/ Unenroll(p)
  \/ \E d \in Desks :
       \/ \E s \in sessions, p \in People :
            \/ \E r \in Roles : AdminRequest(d, s, p, "role", r) \/ CreateManual(d, s, p, r)
            \/ \E to \in {"on", "off"} : AdminRequest(d, s, p, "active", to)
            \/ AdminRequest(d, s, p, "remove", "off")
       \/ \E p \in Others, op \in {"teacher", "student"} : MoodleSync(d, p, op)
       \/ \E file \in SUBSET Others \ {{}}, op \in {"usersCsv", "courseCsv"} : ImportCsv(d, op, file)
       \/ AdminWrite(d) \/ ScanSessions(d) \/ DeleteSessions(d) \/ RemoveRow(d)
       \/ ByEmailRead(d) \/ ByEmailWrite(d) \/ MoodleEnrols(d)
       \/ ImportFind(d) \/ ImportCreate(d) \/ ImportEnrol(d)

AccSpec == AccInit /\ [][AccNext]_accVars

-----------------------------------------------------------------------------
(* Properties                                                               *)

Revoking(s) ==
  \E d \in Desks : /\ desk[d].op \in {"role", "active", "remove"}
                   /\ desk[d].step \in {"scan", "del"}
                   /\ desk[d].who = s.who

\* canManageRoom, of the user in the session, for a course somebody else created.
CanManage(s) == s.role = "ADMIN" \/ (s.role = "MODERATOR" /\ <<s.who, s.id>> \in enrolled)

\* The same, of the row: what the database says at this moment.
Entitled(p) ==
  /\ user[p].active
  /\ user[p].role = "ADMIN" \/ (user[p].role = "MODERATOR" /\ <<p, user[p].id>> \in enrolled)

\* Whoever the guards let manage is entitled to by the database, though they read
\* the session only (the comments in updateRole and above setActive): every change
\* of an account that takes rights away ends with no session that keeps them.  The
\* exceptions are sessions stored by a login that the change overtook, and roles
\* written from a stale read.
ManagersAreEntitled ==
  ~crossed => \A s \in sessions : (CanManage(s) /\ ~s.raced /\ ~Revoking(s)) => Entitled(s.who)

\* The accounts can always be administered by somebody (the comment in updateRole):
\* not being allowed to change one's own account is enough, unless a request is
\* carried out for an administrator who is none any more, or from a stale read.
AdminRemains ==
  ~crossed => \E p \in People : user[p].role = "ADMIN" /\ user[p].active /\ user[p].real

\* An import of a course enrols everybody in the file, whatever other imports,
\* logins and the Moodle plugin create meanwhile.
ImportEnrolsEverybody ==
  \A p \in imported \ letGo : <<p, user[p].id>> \in enrolled

\* Rights follow the accounts, through every session and every change.
RightsFollowAccounts == ManagersAreEntitled /\ AdminRemains
=============================================================================
