------------------------------ MODULE ListPages ------------------------------
(***************************************************************************)
(* The pages that show a list the server keeps: the rooms (HomePage), the  *)
(* attendance of a room, the recording badge of a meeting, the status of   *)
(* the services, which ask again every few seconds; the enrolments, the    *)
(* users and the recordings, which ask once and then follow their own      *)
(* requests.  One page is looked at.                                       *)
(* The searches of two pages (a debounced query, a range of statistics)    *)
(* are here too: answers come in any order.                                *)
(***************************************************************************)
EXTENDS Naturals, Sequences, SequencesExt

CONSTANTS
  Items,         \* the rows there may be
  MaxLoads,      \* bounds on the list requests in flight,
  MaxListActs,   \*   on the clicks of the page,
  MaxOutside,    \*   on the changes others make,
  MaxQueries     \*   and on the queries typed

ASSUME ListAssumption == {MaxLoads, MaxListActs, MaxOutside, MaxQueries} \subseteq Nat

Polled   == {"home", "attendance", "badge", "status"}
Views    == Polled \cup {"enrollments", "users", "recordings", "search"}

VARIABLES
  view,          \* the page looked at
  listRows,          \* listRows[i]: 0 when the server has no row i, or its value
  shown,         \* shown[i][v]: how many times row i is displayed with value v
  loads,         \* the answers to list requests on their way
  listOps,       \* listOps[i]: the request of the page about row i
  importing,     \* "no", "asked"
  overlapped,    \* a list request and another request were in flight together
  listActs,      \* [page, outside]: counters
  query,         \* how many times the query changed: the number of the query typed
  searches,      \* searches[n]: the request for query n
  resultsOf      \* the query whose results are displayed, 0 for none

listVars   == <<listRows, shown, loads, listOps, importing, overlapped, listActs>>
searchVars == <<query, searches, resultsOf>>
pagesVars  == <<view, listVars, searchVars>>

Op        == [op : {"idle", "add", "change", "delete"}, step : {"asked", "done"}, val : 0..2]
IdleOp    == [op |-> "idle", step |-> "asked", val |-> 0]
Hidden    == [v \in 1..2 |-> 0]
Blank     == [i \in Items |-> Hidden]
Listed(r) == [i \in Items |-> [v \in 1..2 |-> IF r[i] = v THEN 1 ELSE 0]]
Displays(i) == shown[i] # Hidden
Busy      == importing # "no" \/ \E i \in Items : listOps[i].op # "idle"

ListTypeOK ==
  /\ view \in Views
  /\ listRows \in [Items -> 0..2]
  /\ shown \in [Items -> [1..2 -> Nat]]
  /\ Len(loads) <= MaxLoads + MaxListActs + 1
  /\ \A n \in DOMAIN loads : loads[n] \in [Items -> 0..2]
  /\ listOps \in [Items -> Op]
  /\ importing \in {"no", "asked"}
  /\ overlapped \in BOOLEAN
  /\ listActs \in [page : 0..MaxListActs, outside : 0..MaxOutside]
  /\ query \in 0..MaxQueries
  /\ searches \in [1..MaxQueries -> {"none", "waits", "sent", "cancelled"}]
  /\ resultsOf \in 0..MaxQueries

\* The list is asked for when the page opens.
ListInit ==
  /\ view \in Views
  /\ listRows \in [Items -> 0..1]
  /\ shown = Blank
  /\ loads = IF view = "search" THEN <<>> ELSE <<listRows>>
  /\ listOps = [i \in Items |-> IdleOp]
  /\ importing = "no"
  /\ overlapped = FALSE
  /\ listActs = [page |-> 0, outside |-> 0]
  /\ query = 0
  /\ searches = [n \in 1..MaxQueries |-> "none"]
  /\ resultsOf = 0

-----------------------------------------------------------------------------
(* The lists                                                                *)

ListCount(k) == listActs' = [listActs EXCEPT ![k] = @ + 1]

Ask(v) ==
  /\ view = v
  /\ Len(loads) < MaxLoads
  /\ loads' = Append(loads, listRows)
  /\ overlapped' = (overlapped \/ Busy)
  /\ UNCHANGED <<view, listRows, shown, listOps, importing, listActs, searchVars>>

\* Mutant: the page asks again only while it shows nothing.
HomeLoadOnce   == shown = Blank /\ Ask("home")

HomeLoad       == Ask("home")            \* every 15 s
AttendanceLoad == Ask("attendance")      \* every 5 s
BadgeRefresh   == Ask("badge")           \* every 5 s, and at each notification
StatusPoll     == Ask("status")          \* every 5 s

\* An answer replaces the list.
ListAnswered(n) ==
  /\ n \in DOMAIN loads
  /\ shown' = Listed(loads[n])
  /\ loads' = RemoveAt(loads, n)
  /\ UNCHANGED <<view, listRows, listOps, importing, overlapped, listActs, searchVars>>

\* Somebody else, a webhook or a job changes the rows.
OthersChange(i, v) ==
  /\ view # "search"
  /\ listActs.outside < MaxOutside
  /\ listRows[i] # v
  /\ listRows' = [listRows EXCEPT ![i] = v]
  /\ ListCount("outside")
  /\ UNCHANGED <<view, shown, loads, listOps, importing, overlapped, searchVars>>

\* A click on a row, whose buttons are disabled while its request is in flight.
ClickOn(v, i, op, val) ==
  /\ view = v
  /\ listOps[i].op = "idle"
  /\ listActs.page < MaxListActs
  /\ Displays(i) <=> op # "add"
  /\ listOps' = [listOps EXCEPT ![i] = [op |-> op, step |-> "asked", val |-> val]]
  /\ overlapped' = (overlapped \/ loads # <<>> \/ importing # "no")
  /\ ListCount("page")
  /\ UNCHANGED <<view, listRows, shown, loads, importing, searchVars>>

HandleDeleteRoom(i)      == ClickOn("home", i, "delete", 0)
HandleDeleteSession(i)   == ClickOn("attendance", i, "delete", 0)
HandleEnroll(i)          == ClickOn("enrollments", i, "add", 1)
HandleUnenroll(i)        == ClickOn("enrollments", i, "delete", 0)
HandleRoleChange(i)      == ClickOn("users", i, "change", 2)
HandleToggleActive(i)    == ClickOn("users", i, "change", 1)
HandleDeleteUser(i)      == ClickOn("users", i, "delete", 0)
HandleCreateUser(i)      == ClickOn("users", i, "add", 1)
HandleDeleteRecording(i) == ClickOn("recordings", i, "delete", 0)

\* Deleting a row that is gone succeeds for these pages (deleteMany); adding one that is there is a
\* conflict.
Accepts(i, op) ==
  \/ op = "add" /\ listRows[i] = 0
  \/ op = "change" /\ listRows[i] # 0
  \/ op = "delete" /\ (view \in {"enrollments", "attendance"} \/ listRows[i] # 0)

\* The server does it, or refuses: the page then shows an error, and nothing else changes.
ServerActs(i) ==
  LET x == listOps[i] IN
  /\ x.op # "idle" /\ x.step = "asked"
  /\ \/ /\ Accepts(i, x.op)
        /\ listRows' = [listRows EXCEPT ![i] = x.val]
        /\ listOps' = [listOps EXCEPT ![i].step = "done"]
     \/ listOps' = [listOps EXCEPT ![i] = IdleOp] /\ UNCHANGED listRows
  /\ UNCHANGED <<view, shown, loads, importing, overlapped, listActs, searchVars>>

\* Mutant: the row changed is added, and the former one stays.
ServerAnsweredAdds(i) ==
  LET x == listOps[i] IN
  /\ x.op # "idle" /\ x.step = "done"
  /\ shown' = IF x.op = "delete" THEN [shown EXCEPT ![i] = Hidden] ELSE [shown EXCEPT ![i][x.val] = @ + 1]
  /\ listOps' = [listOps EXCEPT ![i] = IdleOp]
  /\ UNCHANGED <<view, listRows, loads, importing, overlapped, listActs, searchVars>>

\* The answer: the row is appended, replaced or filtered out of the list shown then.
ServerAnswered(i) ==
  LET x == listOps[i] IN
  /\ x.step = "done"
  /\ \/ x.op = "add"    /\ shown' = [shown EXCEPT ![i][x.val] = @ + 1]
     \/ x.op = "change" /\ shown' = [shown EXCEPT ![i] = [v \in 1..2 |-> IF v = x.val THEN @[1] + @[2] ELSE 0]]
     \/ x.op = "delete" /\ shown' = [shown EXCEPT ![i] = Hidden]
  /\ listOps' = [listOps EXCEPT ![i] = IdleOp]
  /\ UNCHANGED <<view, listRows, loads, importing, overlapped, listActs, searchVars>>

\* handleImportFile: the file is sent,
HandleImportFile(v) ==
  /\ view = v
  /\ importing = "no"
  /\ listActs.page < MaxListActs
  /\ importing' = "asked"
  /\ overlapped' = (overlapped \/ loads # <<>> \/ Busy)
  /\ ListCount("page")
  /\ UNCHANGED <<view, listRows, shown, loads, listOps, searchVars>>

\* ... its rows are added, and the list is asked for again; or it is refused.
Imported ==
  /\ importing = "asked"
  /\ importing' = "no"
  /\ \/ \E added \in SUBSET Items :
          /\ listRows' = [i \in Items |-> IF i \in added /\ listRows[i] = 0 THEN 1 ELSE listRows[i]]
          /\ loads' = Append(loads, listRows')
     \/ UNCHANGED <<listRows, loads>>
  /\ UNCHANGED <<view, shown, listOps, overlapped, listActs, searchVars>>

\* toggleRecording: the recording starts or stops, and the badge asks at once.
ToggleRecording(i) ==
  /\ view = "badge"
  /\ listActs.page < MaxListActs
  /\ Len(loads) < MaxLoads
  /\ listRows' = [listRows EXCEPT ![i] = IF @ = 0 THEN 1 ELSE 0]
  /\ loads' = Append(loads, listRows')
  /\ ListCount("page")
  /\ UNCHANGED <<view, shown, listOps, importing, overlapped, searchVars>>

-----------------------------------------------------------------------------
(* The searches                                                             *)

\* The query (or the range) changes: the former request is cancelled, sent or not.
Query ==
  /\ view = "search"
  /\ query < MaxQueries
  /\ query' = query + 1
  /\ searches' = [n \in 1..MaxQueries |->
                    IF n = query + 1 THEN "waits"
                    ELSE IF n = query /\ searches[n] # "none" THEN "cancelled" ELSE searches[n]]
  /\ UNCHANGED <<view, listVars, resultsOf>>

\* The debounce ends; a query cancelled before that is not sent.
SearchSent ==
  /\ query > 0 /\ searches[query] = "waits"
  /\ searches' = [searches EXCEPT ![query] = "sent"]
  /\ UNCHANGED <<view, listVars, query, resultsOf>>

\* Mutant: the answer is shown whatever was typed since.
SearchAnsweredLate(n) ==
  /\ n \in 1..query /\ searches[n] \in {"sent", "cancelled"}
  /\ searches' = [searches EXCEPT ![n] = "none"]
  /\ resultsOf' \in {resultsOf, n}
  /\ UNCHANGED <<view, listVars, query>>

\* An answer, ignored when cancelled; a failure leaves the results as they are.
SearchAnswered(n) ==
  /\ n \in 1..query /\ searches[n] \in {"sent", "cancelled"}
  /\ searches' = [searches EXCEPT ![n] = "none"]
  /\ resultsOf' \in IF searches[n] = "cancelled" THEN {resultsOf} ELSE {resultsOf, n}
  /\ UNCHANGED <<view, listVars, query>>

\* The box is emptied: so are the results.
QueryEmptied ==
  /\ view = "search"
  /\ query > 0 /\ searches[query] # "cancelled"
  /\ searches' = [searches EXCEPT ![query] = "cancelled"]
  /\ resultsOf' = 0
  /\ UNCHANGED <<view, listVars, query>>

ListNext ==
  \/ HomeLoad \/ AttendanceLoad \/ BadgeRefresh \/ StatusPoll \/ Imported
  \/ \E n \in DOMAIN loads : ListAnswered(n)
  \/ \E i \in Items, v \in 0..2 : OthersChange(i, v)
  \/ \E i \in Items :
       \/ HandleDeleteRoom(i) \/ HandleDeleteSession(i) \/ HandleEnroll(i) \/ HandleUnenroll(i)
       \/ HandleRoleChange(i) \/ HandleToggleActive(i) \/ HandleDeleteUser(i) \/ HandleCreateUser(i)
       \/ HandleDeleteRecording(i) \/ ServerActs(i) \/ ServerAnswered(i) \/ ToggleRecording(i)
  \/ \E v \in {"enrollments", "users"} : HandleImportFile(v)
  \/ Query \/ SearchSent \/ QueryEmptied
  \/ \E n \in 1..MaxQueries : SearchAnswered(n)

\* The interval ticks, and requests are answered.
ListFairness ==
  /\ WF_pagesVars(HomeLoad) /\ WF_pagesVars(AttendanceLoad) /\ WF_pagesVars(BadgeRefresh)
  /\ WF_pagesVars(StatusPoll)
  /\ \A n \in 1..MaxLoads : SF_pagesVars(ListAnswered(n))

ListSpec == ListInit /\ [][ListNext]_pagesVars /\ ListFairness

-----------------------------------------------------------------------------

\* A polled list ends up as the server has it, and stays so, though answers cross each other and an
\* older one may replace a newer: the next one puts it right.
PolledListsCatchUp == <>[](view \in Polled => shown = Listed(listRows))

\* A list that follows its own requests agrees with the server at rest, without a row twice, as long
\* as nobody else changed the rows and no list request was in flight with another.
OwnRequestsShown ==
  (view \notin Polled \cup {"search"} /\ loads = <<>> /\ ~Busy /\ ~overlapped /\ listActs.outside = 0) =>
    shown = Listed(listRows)

\* Results are replaced only by those of what is typed now, or by none.
LatestQueryWins == [][resultsOf' # resultsOf => resultsOf' \in {0, query}]_pagesVars
=============================================================================
