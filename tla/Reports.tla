------------------------------- MODULE Reports -------------------------------
(***************************************************************************)
(* What the application computes: the activity of the dashboard            *)
(* (StatsService), the attendance list (AttendanceService.list), a page of *)
(* the recordings (MoodleService.listRecordings), the rows of a CSV file   *)
(* (parseCsvRows), the health of the services (StatusService.getStatus)    *)
(* and the warning of an echo (useEchoDetection).  One                     *)
(* request is made, on some data, and answered; samples of speech go on.   *)
(***************************************************************************)
EXTENDS Integers, Sequences, SequencesExt, FiniteSets, FiniteSetsExt, Functions

CONSTANTS
  Todays,          \* the days, counted from January 1st, 2023, on which activity is asked
  MaxRecords,      \* bound on the attendance records
  PerPageDefault,  \* RECORDINGS_DEFAULT_PER_PAGE
  PerPageMax,      \* RECORDINGS_MAX_PER_PAGE
  MaxLines,        \* bound on the lines of a CSV file
  WindowSamples,   \* WINDOW_SAMPLES
  MinOverlap,      \* MIN_OVERLAP_SAMPLES
  Dominance,       \* OVERLAP_DOMINANCE_RATIO
  MaxQuiet         \* bound on the samples without overlap that are counted

ASSUME RepAssumption ==
  {WindowSamples, MinOverlap} \subseteq Nat \ {0} /\ {Dominance, MaxQuiet} \subseteq Nat

VARIABLES
  request,         \* [kind, ...]: what is asked, and on which data
  report,          \* what the code returns, "none" before
  samples,         \* samplesRef: the window, oldest first
  warned,          \* echoLikely
  quiet            \* how many samples ago both last spoke at once

repVars == <<request, report, samples, warned, quiet>>
Unanswered == [kind |-> "none"]

-----------------------------------------------------------------------------
(* Activity: days are numbers, and months start where the calendar says     *)

DaysBefore == <<0, 31, 59, 90, 120, 151, 181, 212, 243, 273, 304, 334>>

\* Month 0 is January 2023; the leap day of 2024 precedes its month of March, month 14.
MonthStart(m) == 365 * (m \div 12) + DaysBefore[(m % 12) + 1] + (IF m >= 14 THEN 1 ELSE 0)

MonthOf(t)     == CHOOSE m \in 0..34 : MonthStart(m) <= t /\ t < MonthStart(m + 1)
SetMonth(t, m) == MonthStart(m) + (t - MonthStart(MonthOf(t)))   \* a day too many overflows
Truncated(t, bucket) == IF bucket = "month" THEN MonthStart(MonthOf(t)) ELSE t

RangeSpec(range) ==
  CASE range = "week"  -> [bucket |-> "day", count |-> 7]
    [] range = "month" -> [bucket |-> "day", count |-> 30]
    [] range = "year"  -> [bucket |-> "month", count |-> 12]

\* Mutant: the months are counted back before the day is put to 1.
FromLateDay(today, spec) ==
  IF spec.bucket = "month"
  THEN Truncated(SetMonth(today, MonthOf(today) - (spec.count - 1)), "month")
  ELSE today - (spec.count - 1)

\* The first day of the window of getActivity.
From(today, spec) ==
  IF spec.bucket = "month"
  THEN LET first == MonthStart(MonthOf(today)) IN SetMonth(first, MonthOf(first) - (spec.count - 1))
  ELSE today - (spec.count - 1)

\* The rows of the database: one a day, for more than a year.
RowDays(today) == (today - 366)..today

\* roomsCreatedPerBucket: GROUP BY the truncated date, of the rows since then.
PerBucket(today, from, bucket) ==
  LET kept == {t \in RowDays(today) : t >= from} IN
  [date \in {Truncated(t, bucket) : t \in kept} |->
     Cardinality({t \in kept : Truncated(t, bucket) = date})]

ZeroFill(points, from, spec) ==
  [i \in 1..spec.count |->
     LET date == IF spec.bucket = "month" THEN SetMonth(from, MonthOf(from) + (i - 1))
                 ELSE from + (i - 1) IN
     [date |-> date, value |-> IF date \in DOMAIN points THEN points[date] ELSE 0]]

GetActivity(today, range) ==
  LET spec == RangeSpec(range)
      from == From(today, spec) IN
  ZeroFill(PerBucket(today, from, spec.bucket), from, spec)

-----------------------------------------------------------------------------
(* Attendance                                                               *)

Now == 4
\* Joining times are in order; 0 is a connection still open.
Records == {r \in [who : {"a", "b"}, session : 1..2, joined : 1..2, left : {0, 2, 3}, mod : BOOLEAN] :
              /\ r.session <= r.joined
              /\ r.left # 0 => r.joined <= r.left}

RecordLists == {s \in SeqOf(Records, MaxRecords) : \A i \in 1..(Len(s) - 1) : s[i].joined <= s[i + 1].joined}

Seconds(r) == (IF r.left = 0 THEN Now ELSE r.left) - r.joined

\* aggregateParticipants: one row per person of the session, moderators first, the longest first.
Aggregate(all, session) ==
  LET recs   == SelectSeq(all, LAMBDA r : r.session = session)
      people == {recs[i].who : i \in DOMAIN recs}
      of(p)  == SelectSeq(recs, LAMBDA r : r.who = p)
      row(p) == [who |-> p, mod |-> \E i \in DOMAIN of(p) : of(p)[i].mod,
                 total |-> FoldFunction(+, 0, [i \in DOMAIN of(p) |-> Seconds(of(p)[i])]),
                 connections |-> of(p)]
  IN SetToSortSeq({row(p) : p \in people},
                  LAMBDA x, y : IF x.mod # y.mod THEN x.mod ELSE x.total > y.total)

\* list: one group per session, the latest first, ended when everybody has left.
AttendanceList(all) ==
  LET sessions == {all[i].session : i \in DOMAIN all}
      lefts(s) == {all[i].left : i \in {j \in DOMAIN all : all[j].session = s}}
      group(s) == [session |-> s, participants |-> Aggregate(all, s),
                   ended |-> IF 0 \in lefts(s) THEN 0 ELSE Max(lefts(s))]
  IN SetToSortSeq({group(s) : s \in sessions}, LAMBDA x, y : x.session > y.session)

-----------------------------------------------------------------------------
(* A page of recordings; 0 stands for a parameter that is not a number      *)

Bounded(x, low, high) == IF x < low THEN low ELSE IF x > high THEN high ELSE x
SafePerPage(perPage)  == Bounded(IF perPage = 0 THEN PerPageDefault ELSE perPage, 1, PerPageMax)
SafePage(page)        == IF page < 1 THEN 1 ELSE page

RecordingPage(all, page, perPage) ==
  LET skip == (SafePage(page) - 1) * SafePerPage(perPage) IN
  SubSeq(all, skip + 1, Bounded(skip + SafePerPage(perPage), 0, Len(all)))

-----------------------------------------------------------------------------
(* A CSV file: lines of cells, of which only what they contain counts       *)

Heads  == {"email", "prenom", "nom", "role"}
Emails == {"x@univ", "y@gmail"}
Cells  == Heads \cup Emails \cup {"Awa", "Diop", "ADMIN", ""}
HasMail(c)  == c \in {"email", "y@gmail"}            \* includes("mail")
IsNom(c)    == c = "nom"                             \* "prenom" contains "nom"
Column(headers, test(_)) ==
  IF \E i \in DOMAIN headers : test(headers[i])
  THEN CHOOSE i \in DOMAIN headers : test(headers[i]) /\ \A j \in 1..(i - 1) : ~test(headers[j])
  ELSE 0
Cell(cols, i) == IF i \in DOMAIN cols THEN cols[i] ELSE ""

HasHeader(lines) == \E i \in DOMAIN lines[1] : HasMail(lines[1][i])

\* Mutant: "prenom" is taken for "nom".
NameColumnsLoose(headers) ==
  [first |-> Column(headers, LAMBDA c : c = "prenom"),
   last  |-> Column(headers, LAMBDA c : c \in {"nom", "prenom"})]

NameColumns(headers) ==
  [first |-> Column(headers, LAMBDA c : c = "prenom"), last |-> Column(headers, IsNom)]

\* A first name without a column of last names takes the next cell.
NameOf(cols, at, email) ==
  LET first == Cell(cols, at.first)
      last  == IF at.last > 0 THEN Cell(cols, at.last)
               ELSE IF at.first > 0 THEN Cell(cols, at.first + 1) ELSE ""
      parts == SelectSeq(<<first, last>>, LAMBDA p : p # "")
  IN IF parts = <<>> THEN <<email>> ELSE parts

ParseCsvRows(lines) ==
  LET header == HasHeader(lines)
      heads  == IF header THEN lines[1] ELSE <<>>
      data   == IF header THEN Tail(lines) ELSE lines
      mailAt == IF header THEN Column(heads, HasMail) ELSE 1
      roleAt == Column(heads, LAMBDA c : c = "role")
      row(cols) == LET email == Cell(cols, mailAt) IN
        [email |-> email, name |-> NameOf(cols, NameColumns(heads), email),
         role |-> IF Cell(cols, roleAt) = "ADMIN" THEN "ADMIN" ELSE "VIEWER"]
      valid == SelectSeq(data, LAMBDA cols : Cell(cols, mailAt) \in Emails)
  IN IF lines = <<>> THEN <<>> ELSE [i \in DOMAIN valid |-> row(valid[i])]

\* The files: a header of distinct columns and a line under it, or lines that start with an address.
Headers == {h \in SeqOf(Heads, 4) : IsInjective(h) /\ "email" \in Range(h)}
Under(c) == CASE c = "email" -> Emails [] c = "prenom" -> {"Awa", ""}
              [] c = "nom" -> {"Diop", ""} [] c = "role" -> {"ADMIN", ""}
LinesUnder(h) == {l \in [DOMAIN h -> Cells] : \A i \in DOMAIN h : l[i] \in Under(h[i])}
Headed == UNION {{<<h, l>> : l \in LinesUnder(h)} : h \in Headers}
Bare   == SeqOf({<<e>> : e \in Emails} \cup {<<e, "Awa">> : e \in Emails}, MaxLines) \ {<<>>}

-----------------------------------------------------------------------------
(* The health of the services: each probe answers or throws                 *)

Probes == {"livekit", "egress", "ingress", "postgresql", "redis", "minio", "storage"}
Rank   == [up |-> 0, degraded |-> 1, down |-> 2]

\* What the recordings of each status take, around the limits of a quota of 20.
Sizes  == {z \in [{"READY", "FAILED"} -> {0, 15, 16, 18, 19, 21}] : z["FAILED"] \in {0, 21}}

\* As many captures run as the server takes (max): new ones are refused.
CheckEgress(q) == IF q.active >= q.max THEN "degraded" ELSE "up"

\* What the finished recordings take of the quota; a quota of 0 gives no verdict.
CheckStorage(q) ==
  LET used == q.sizes["READY"] IN
  IF q.quota = 0 THEN "up"
  ELSE IF used * 100 >= q.quota * 95 THEN "down"
  ELSE IF used * 100 >= q.quota * 80 THEN "degraded" ELSE "up"

\* An exception of a probe is a component that is down.
Timed(q, p) ==
  IF p \in q.failing THEN "down"
  ELSE CASE p = "egress" -> CheckEgress(q) [] p = "storage" -> CheckStorage(q) [] OTHER -> "up"

\* Webhooks come when they come: their silence is no failure.
CheckWebhook == "up"

GetStatus(q) == [p \in Probes \cup {"webhook"} |-> IF p = "webhook" THEN CheckWebhook ELSE Timed(q, p)]

WorstHealth(components) ==
  FoldFunction(LAMBDA c, worst : IF Rank[c] > Rank[worst] THEN c ELSE worst, "up", components)

\* What start() asks: the server's captures, or the rows of the database when it does not answer.
CapacityAvailable(q) == (IF "egress" \in q.failing THEN q.inProgress ELSE q.active) < q.max

-----------------------------------------------------------------------------

Requests ==
  {[kind |-> "none"]} \cup
  [kind : {"activity"}, today : Todays, range : {"week", "month", "year"}] \cup
  [kind : {"attendance"}, all : RecordLists] \cup
  [kind : {"page"}, total : 0..(2 * PerPageMax + 1), perPage : -1..(PerPageMax + 1)] \cup
  [kind : {"status"}, failing : {f \in SUBSET Probes : Cardinality(f) <= 2}, active : 0..2, inProgress : 0..2,
   max : 1..2, sizes : Sizes, quota : {0, 20}] \cup
  [kind : {"csv"}, headed : {TRUE}, lines : Headed] \cup
  [kind : {"csv"}, headed : {FALSE}, lines : Bare]

RepTypeOK ==
  /\ request.kind \in {"none", "activity", "attendance", "page", "csv", "status"}
  /\ report.kind \in {"none", request.kind}
  /\ Len(samples) <= WindowSamples
  /\ Range(samples) \subseteq [overlap : BOOLEAN, localOnly : BOOLEAN]
  /\ warned \in BOOLEAN
  /\ quiet \in 0..MaxQuiet

RepInit ==
  /\ request \in Requests
  /\ report = Unanswered
  /\ samples = <<>>
  /\ warned = FALSE
  /\ quiet = MaxQuiet

Replies(kind, x) ==
  /\ request.kind = kind
  /\ report = Unanswered
  /\ report' = [kind |-> kind, is |-> x]
  /\ UNCHANGED <<request, samples, warned, quiet>>

AnswerActivity   == Replies("activity", GetActivity(request.today, request.range))
AnswerAttendance == Replies("attendance", AttendanceList(request.all))
AnswerStatus     == Replies("status", [components |-> GetStatus(request), worst |-> WorstHealth(GetStatus(request))])
AnswerCsv        == Replies("csv", ParseCsvRows(request.lines))

\* The pages of the recordings, asked for one after the other until they are exhausted.
AnswerPages ==
  LET all == [i \in 1..request.total |-> i] IN
  Replies("page", FlattenSeq([page \in 1..request.total |-> RecordingPage(all, page, request.perPage)]))

\* Mutant: the window keeps one sample too many.
SampleKept(local, remote) ==
  /\ request.kind = "none"
  /\ LET all    == Append(samples, [overlap |-> local /\ remote, localOnly |-> local /\ ~remote])
         window == IF Len(all) > WindowSamples + 1 THEN Tail(all) ELSE all
         count(test(_)) == Cardinality({i \in DOMAIN window : test(window[i])})
         overlap   == count(LAMBDA s : s.overlap)
         localOnly == count(LAMBDA s : s.localOnly) IN
     /\ samples' = window
     /\ warned' = (overlap >= MinOverlap /\ overlap > localOnly * Dominance)
  /\ quiet' = IF local /\ remote THEN 0 ELSE IF quiet = MaxQuiet THEN quiet ELSE quiet + 1
  /\ UNCHANGED <<request, report>>

\* Every half second: who speaks now, the local participant and any other.
Sample(local, remote) ==
  /\ request.kind = "none"
  /\ LET all    == Append(samples, [overlap |-> local /\ remote, localOnly |-> local /\ ~remote])
         window == IF Len(all) > WindowSamples THEN Tail(all) ELSE all
         count(test(_)) == Cardinality({i \in DOMAIN window : test(window[i])})
         overlap   == count(LAMBDA s : s.overlap)
         localOnly == count(LAMBDA s : s.localOnly) IN
     /\ samples' = window
     /\ warned' = (overlap >= MinOverlap /\ overlap > localOnly * Dominance)
  /\ quiet' = IF local /\ remote THEN 0 ELSE IF quiet = MaxQuiet THEN quiet ELSE quiet + 1
  /\ UNCHANGED <<request, report>>

\* The speakers are muted or the warning is closed: detection stops, and starts anew.
Disable ==
  /\ request.kind = "none"
  /\ samples' = <<>>
  /\ warned' = FALSE
  /\ UNCHANGED <<request, report, quiet>>

RepNext ==
  \/ AnswerActivity \/ AnswerAttendance \/ AnswerPages \/ AnswerCsv \/ AnswerStatus \/ Disable
  \/ \E local, remote \in BOOLEAN : Sample(local, remote)

RepSpec == RepInit /\ [][RepNext]_repVars

-----------------------------------------------------------------------------

\* Whatever the day, each bar counts the rows of its own day or month, the last one those of today,
\* and the bars follow each other without a hole: no row since the first bar is lost.
EveryRowHasItsBar ==
  report.kind = "activity" =>
    LET spec == RangeSpec(request.range)
        ago(i) == spec.count - i IN
    \A i \in 1..spec.count :
      report.is[i].value =
        Cardinality({t \in RowDays(request.today) :
          IF spec.bucket = "day" THEN request.today - t = ago(i)
          ELSE MonthOf(request.today) - MonthOf(t) = ago(i)})

\* The attendance adds up: the time of each session is that of its own connections, each counted for
\* one person of one session, the sessions from the latest to the first.
AttendanceAddsUp ==
  report.kind = "attendance" =>
    /\ \A s \in {request.all[i].session : i \in DOMAIN request.all} :
         \E g \in DOMAIN report.is :
           /\ report.is[g].session = s
           /\ FoldFunction(LAMBDA p, n : n + p.total, 0, report.is[g].participants) =
                FoldFunction(LAMBDA r, n : n + (IF r.session = s THEN Seconds(r) ELSE 0), 0, request.all)
    /\ \A g \in 1..(Len(report.is) - 1) : report.is[g].session > report.is[g + 1].session

\* Page after page, every recording is given once, in order, whatever size is asked for.
PagesGiveEachOnce ==
  report.kind = "page" => report.is = [i \in 1..request.total |-> i]

\* Columns are found by their names, in any order: a line gives its address, its names and its role.
\* (A column of first names without one of last names takes the next cell, and is left out.)
ColumnsByName ==
  (report.kind = "csv" /\ request.headed) =>
    LET h == request.lines[1]
        at(c) == IF c \in Range(h) THEN request.lines[2][CHOOSE i \in DOMAIN h : h[i] = c] ELSE ""
        names == SelectSeq(<<at("prenom"), at("nom")>>, LAMBDA n : n # "") IN
    ("prenom" \in Range(h) => "nom" \in Range(h)) =>
      report.is = <<[email |-> at("email"), name |-> IF names = <<>> THEN <<at("email")>> ELSE names,
                     role |-> IF at("role") = "ADMIN" THEN "ADMIN" ELSE "VIEWER"]>>

\* The header is optional (csv-rows.util.ts:17): a file that is only addresses gives one row for each.
HeaderIsOptional ==
  (report.kind = "csv" /\ ~request.headed) => Len(report.is) = Len(request.lines)

\* The warning of an echo does not outlive it: nobody is warned when the last sample where both spoke
\* is so old that the window cannot hold enough of them.
EchoWarningFades == warned => quiet <= WindowSamples - MinOverlap

\* The status page and the recordings agree: the captures are shown at their limit exactly when the
\* server would refuse one more (status.service.ts:91); and a probe that fails, alone or not, shows
\* as down without hiding the others, whatever the banner sums up.
StatusTellsCapacity ==
  report.kind = "status" =>
    LET of == report.is.components
        full == request.quota > 0 /\ 20 * request.sizes["READY"] >= 19 * request.quota IN
    /\ "egress" \notin request.failing => (of["egress"] = "degraded" <=> ~CapacityAvailable(request))
    /\ {p \in DOMAIN of : of[p] = "down"} = request.failing \cup (IF full THEN {"storage"} ELSE {})
    /\ report.is.worst = "up" <=> \A p \in DOMAIN of : of[p] = "up"
    /\ report.is.worst = "down" <=> \E p \in DOMAIN of : of[p] = "down"

\* Nothing is lost nor counted twice by what is summed, grouped or cut into pages.
ReportsAddUp ==
  EveryRowHasItsBar /\ AttendanceAddsUp /\ PagesGiveEachOnce /\ StatusTellsCapacity
=============================================================================
