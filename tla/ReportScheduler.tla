-------------------------- MODULE ReportScheduler --------------------------
(***************************************************************************)
(* Analytics reports: the queries behind a report (src/analytics/engine.py) *)
(* the files it is exported to (exporters.py), the loop that fires the     *)
(* scheduled ones (scheduler.py) and the routes (api/routers/analytics.py).*)
(*                                                                         *)
(* A report is put together from eight queries, each with a connection and *)
(* a clock reading of its own.  They run one after another on the event    *)
(* loop, so that no other handler of the API comes between; the dashboard, *)
(* another process, may change the table at any moment.  The loop awaits   *)
(* only its sleep and the mail, which a thread sends: the thread reads the *)
(* exported file.                                                          *)
(***************************************************************************)
EXTENDS Clock, Integers, Sequences, FiniteSets

CONSTANTS
  Client,          \* list_clients
  Row,             \* the feedback rows that are written, for one client each
  Feedback,        \* what each says: its client, its rule, whether the verdict
                   \* was false_positive, and whether there are notes
  Rule,            \* rule names
  Minute,          \* ticks per minute, and the scheduler's interval
  DayLength,       \* ticks per day
  Schedules,       \* the schedules that may be set: in which minutes a report is
                   \* due, in which the answer cannot be worked out, its format,
                   \* and whether the schedule is enabled and has an address
  Formats,         \* the formats that may be asked for
  Periods,         \* the periods that a report may cover, in days
  ScheduledPeriod, \* the one of scheduled reports, 30 in the code
  AdviceMinimum,   \* how many rows a rule needs to be singled out, 5 in the code
  TrendMinimum,    \* and how many to have a trend, 3 in the code
  RuleLimit,       \* how many rules the table of rules may have, 10 in the code
  Mail,            \* whether an SMTP host is configured
  MaxFailedQueries, \* bounds the queries of a report that fail
  MaxDownloads,    \* bounds the reports that are asked for
  MaxChanges,      \* bounds the changes to schedules
  Nothing          \* no schedule, no report being made, no mail being sent

ASSUME ReportAssumption ==
  /\ Feedback \in [Row -> [client : Client, rule : Rule, fp : BOOLEAN,
                        noted : BOOLEAN]]
  /\ IsFiniteSet(Row) /\ IsFiniteSet(Rule)
  /\ Minute \in Nat \ {0} /\ DayLength \in Nat \ {0}
  /\ Schedules \subseteq [due : SUBSET Nat, bad : SUBSET Nat, format : Formats,
                    enabled : BOOLEAN, email : BOOLEAN]
  /\ \A s \in Schedules : s.due \cap s.bad = {}
  /\ Formats \subseteq {"html", "pdf", "csv", "json"}
  /\ Periods \subseteq Nat \ {0} /\ ScheduledPeriod \in Periods
  /\ AdviceMinimum \in Nat \ {0} /\ TrendMinimum \in Nat \ {0} /\ RuleLimit \in Nat \ {0}
  /\ Mail \in BOOLEAN /\ MaxFailedQueries \in Nat /\ MaxDownloads \in Nat /\ MaxChanges \in Nat

VARIABLES
  table,     \* the rows in the feedback tables
  rowAt,     \* their timestamps, -1 for a row that was never written
  schedules, \* report_schedule.json of each client
  loop,      \* the scheduler: what it does, until when it sleeps, when the
             \* running check began, and the clients it has still to look at
  report,    \* the report being made
  files,     \* the report files: which report each holds
  mail,      \* the mail being sent: the file, and the report it is about
  made,      \* the reports made so far
  madeAt,    \* when each of them was written (not program state)
  sent,      \* the last mail: its own report, and the one in it (not program state)
  fired,     \* the reports that were fired, by client and check (not program state)
  served,    \* the clients that the check has fired for (not program state)
  begun,     \* when the processes started (not program state)
  changed,   \* schedules that were changed since the check began (not program state)
  changes,   \* how often schedules were changed
  downloads  \* how many reports were asked for

dataVars == <<table, rowAt>>
fileVars == <<files, made, madeAt>>
mailVars == <<mail, sent>>
firedVars == <<fired, served, begun>>
countVars == <<changes, downloads>>
reportVars == <<dataVars, schedules, loop, report, fileVars, mailVars, firedVars,
                changed, countVars>>

Section == {"weekly", "breakdown", "recent", "totals", "rules", "notes", "roi", "trend"}
Sections == <<"weekly", "breakdown", "recent", "totals", "rules", "notes", "roi", "trend">>

Draft == [by : {"loop", "request"}, client : Client, days : Periods, start : Time,
          read : [Section -> SUBSET Row], next : 1..(Len(Sections) + 1), failed : SUBSET Section,
          moved : SUBSET Row]
File == {"html", "pdf", "json", "weekly"} \X Client \X Time
Letter == [file : File, about : Nat]

ReportTypeOK ==
  /\ table \subseteq Row /\ rowAt \in [Row -> Time \cup {-1}]
  /\ schedules \in [Client -> Schedules \cup {Nothing}]
  /\ loop \in [pc : {"sleep", "check", "report", "mail"}, wake : Nat, at : Time,
               todo : SUBSET Client]
  /\ report \in Draft \cup {Nothing}
  /\ files \in [File -> 0..made]
  /\ mail \in Letter \cup {Nothing}
  /\ made \in Nat /\ downloads \in 0..MaxDownloads
  /\ madeAt \in [1..made -> Time]
  /\ sent \in [own : 1..made, inside : 0..made] \cup {Nothing}
  /\ fired \in Seq(Client \X Time)
  /\ served \subseteq Client /\ begun \subseteq Time
  /\ changed \subseteq Client /\ changes \in 0..MaxChanges

----------------------------------------------------------------------------
(* The handlers of the API run only while the event loop is not in the middle *)
(* of a check or a report. *)
LoopFree == report = Nothing /\ loop.pc \in {"sleep", "mail"}

FalsePositives(S) == {i \in S : Feedback[i].fp}
OfRule(S, r) == {i \in S : Feedback[i].rule = r}

(* The rows of a client that are at most some days old. *)
Since(c, days) ==
  {i \in table : Feedback[i].client = c /\ rowAt[i] >= now - DayLength * days}

(* compute_weekly_summary covers whole weeks, at least one. *)
WeeklyRows(c, days) == Since(c, 7 * (IF days >= 14 THEN days \div 7 ELSE 1))

(* compute_alert_type_breakdown counts by rule, and once more for the newer half *)
(* of the period. *)
BreakdownRows(c, days) == Since(c, days)
RecentRows(c, days) == Since(c, days \div 2)

(* Rule q has more false positives than r. *)
Worse(S, q, r) ==
  Cardinality(OfRule(FalsePositives(S), q)) > Cardinality(OfRule(FalsePositives(S), r))

(* compute_fp_analysis: the totals, the false positives that an analyst has    *)
(* noted something about, *)
TotalsRows(c, days) == Since(c, days)
NoteRows(c, days) == {i \in FalsePositives(Since(c, days)) : Feedback[i].noted}

(* and the table of rules: those with the most false positives, up to the limit. *)
(* Among rules with equally many it is SQLite's choice which are left out.  A   *)
(* table is modelled as the rows that it counts. *)
WrongRules(S) == {r \in Rule : OfRule(FalsePositives(S), r) # {}}
WorstRules(S) ==
  {R \in SUBSET WrongRules(S) :
     /\ Cardinality(R) <= RuleLimit
     /\ Cardinality(R) = RuleLimit \/ R = WrongRules(S)
     /\ \A r \in R, q \in WrongRules(S) \ R : ~Worse(S, q, r)}
RuleTables(c, days) ==
  LET S == Since(c, days)
  IN  {{i \in S : Feedback[i].rule \in R} : R \in WorstRules(S)}

(* A variation: the return on investment covers whole weeks as well. *)
RoiRowsInWeeks(c, days) == WeeklyRows(c, days)

(* compute_roi. *)
RoiRows(c, days) == Since(c, days)

(* compute_trends looks back three periods, at most ninety days. *)
TrendRows(c, days) == Since(c, IF 3 * days < 90 THEN 3 * days ELSE 90)

(* What a query of generate_client_report may select. *)
Selections(section, c, days) ==
  CASE section = "weekly" -> {WeeklyRows(c, days)}
    [] section = "breakdown" -> {BreakdownRows(c, days)}
    [] section = "recent" -> {RecentRows(c, days)}
    [] section = "totals" -> {TotalsRows(c, days)}
    [] section = "rules" -> RuleTables(c, days)
    [] section = "notes" -> {NoteRows(c, days)}
    [] section = "roi" -> {RoiRows(c, days)}
    [] section = "trend" -> {TrendRows(c, days)}

(* _generate_fp_recommendations singles a rule out that has enough rows, more *)
(* than half of them false positives, among the three rules with the most. *)
MostlyWrong(S, r) ==
  /\ Cardinality(OfRule(S, r)) >= AdviceMinimum
  /\ 2 * Cardinality(OfRule(FalsePositives(S), r)) > Cardinality(OfRule(S, r))
SingledOut(S) ==
  {r \in Rule : MostlyWrong(S, r) /\ Cardinality({q \in Rule : Worse(S, q, r)}) < 3}

(* The trend that compute_alert_type_breakdown gives a rule: the rate of the   *)
(* newer half of the period against that of the whole, with a margin of 5%. *)
Trend(S, recent, r) ==
  LET all == Cardinality(OfRule(S, r))
      fps == Cardinality(OfRule(FalsePositives(S), r))
      newAll == Cardinality(OfRule(recent, r))
      newFps == Cardinality(OfRule(FalsePositives(recent), r))
  IN  CASE all < TrendMinimum -> "insufficient_data"
        [] all >= TrendMinimum /\ newAll = 0 -> "stable"
        [] all >= TrendMinimum /\ newAll > 0 /\ 100 * newFps * all < (100 * fps - 5 * all) * newAll -> "improving"
        [] all >= TrendMinimum /\ newAll > 0 /\ 100 * newFps * all > (100 * fps + 5 * all) * newAll -> "worsening"
        [] OTHER -> "stable"

----------------------------------------------------------------------------
NewDraft(by, c, days) ==
  [by |-> by, client |-> c, days |-> days, start |-> now,
   read |-> [s \in Section |-> {}], next |-> 1, failed |-> {}, moved |-> {}]

Making == report # Nothing /\ report.next <= Len(Sections)

(* One query of the report being made. *)
Query ==
  /\ Making
  /\ LET section == Sections[report.next]
     IN  \E S \in Selections(section, report.client, report.days) :
           report' = [report EXCEPT !.next = @ + 1, !.read[section] = S]
  /\ UNCHANGED <<dataVars, schedules, loop, fileVars, mailVars, firedVars,
                 changed, countVars>>

(* There is a database, but it is locked or not readable: _query logs it and   *)
(* answers no rows. *)
QueryFails ==
  /\ Making
  /\ \E i \in Row : rowAt[i] >= 0 /\ Feedback[i].client = report.client
  /\ Cardinality(report.failed) < MaxFailedQueries
  /\ report' = [report EXCEPT !.next = @ + 1, !.failed = @ \cup {Sections[report.next]}]
  /\ UNCHANGED <<dataVars, schedules, loop, fileVars, mailVars, firedVars,
                 changed, countVars>>

Complete == report # Nothing /\ report.next > Len(Sections)

(* A report is a file, named after its client and the second: a page, a *)
(* document, *)
HtmlFile(c) == <<"html", c, now>>
PdfFile(c) == <<"pdf", c, now>>
JsonFile(c) == <<"json", c, now>>
(* or four tables, of which only the first, written first, is ever read. *)
CsvFile(c) == <<"weekly", c, now>>

(* A variation: a file is named after the day the report is about. *)
FileOfTheDay(format, c) == <<IF format = "csv" THEN "weekly" ELSE format, c, 0>>

FileName(format, c) ==
  CASE format = "html" -> HtmlFile(c)
    [] format = "pdf" -> PdfFile(c)
    [] format = "json" -> JsonFile(c)
    [] format = "csv" -> CsvFile(c)

WriteFile(name) ==
  /\ made' = made + 1
  /\ files' = [files EXCEPT ![name] = made + 1]
  /\ madeAt' = Append(madeAt, now)

(* The format that a request, or the schedule, asks for: the schedule does not *)
(* change while a report is being made. *)
FormatsAsked ==
  IF report.by = "request" THEN Formats ELSE {schedules[report.client].format}

(* The report is written; a scheduled one is mailed if there is an address and *)
(* a host to send it. *)
Export ==
  /\ Complete
  /\ \E format \in FormatsAsked :
       LET name == FileName(format, report.client)
       IN  /\ WriteFile(name)
           /\ IF report.by = "request"
              THEN UNCHANGED <<loop, mail>>
              ELSE IF Mail /\ schedules[report.client].email
              THEN /\ mail' = [file |-> name, about |-> made + 1]
                   /\ loop' = [loop EXCEPT !.pc = "mail"]
              ELSE loop' = [loop EXCEPT !.pc = "check"] /\ UNCHANGED mail
  /\ report' = Nothing
  /\ UNCHANGED <<dataVars, schedules, sent, firedVars, changed, countVars>>

(* A variation: a report that cannot be written ends the check. *)
ExportFailsForAll ==
  /\ Complete
  /\ report' = Nothing
  /\ loop' = IF report.by = "loop" THEN [loop EXCEPT !.pc = "check", !.todo = {}] ELSE loop
  /\ UNCHANGED <<dataVars, schedules, fileVars, mailVars, firedVars, changed,
                 countVars>>

(* It cannot be written, for want of fpdf2 or of space, which may be found out *)
(* after the first table: the request fails; the loop logs the error and goes  *)
(* on with the next client. *)
ExportFails ==
  /\ Complete
  /\ \/ UNCHANGED fileVars
     \/ "csv" \in FormatsAsked /\ WriteFile(CsvFile(report.client))
  /\ report' = Nothing
  /\ loop' = IF report.by = "loop" THEN [loop EXCEPT !.pc = "check"] ELSE loop
  /\ UNCHANGED <<dataVars, schedules, mailVars, firedVars, changed, countVars>>

(* The thread reads the file and sends it, or fails to. *)
SendMail ==
  /\ mail # Nothing
  /\ sent' = [own |-> mail.about, inside |-> files[mail.file]]
  /\ mail' = Nothing
  /\ loop' = [loop EXCEPT !.pc = "check"]
  /\ UNCHANGED <<dataVars, schedules, report, fileVars, firedVars, changed,
                 countVars>>

----------------------------------------------------------------------------
(* The loop goes on with its check once no request is in its way. *)
Checking == loop.pc = "check" /\ report = Nothing

DueNow(c) ==
  /\ schedules[c] # Nothing
  /\ schedules[c].enabled
  /\ (loop.at \div Minute) \in schedules[c].due

(* The hour, or on the right hour the day of the week, is not a number: the    *)
(* route accepts any schedule, and _is_due raises. *)
Raises(c) ==
  /\ schedules[c] # Nothing
  /\ schedules[c].enabled
  /\ (loop.at \div Minute) \in schedules[c].bad

(* _check_all reads the clock once, and then every schedule when its turn comes. *)
StartCheck ==
  /\ LoopFree
  /\ loop.pc = "sleep" /\ now >= loop.wake
  /\ loop' = [loop EXCEPT !.pc = "check", !.at = now, !.todo = Client]
  /\ changed' = {} /\ served' = {}
  /\ UNCHANGED <<dataVars, schedules, report, fileVars, mailVars, fired, begun,
                 countVars>>

PassOver(c) ==
  /\ Checking /\ c \in loop.todo
  /\ ~DueNow(c) /\ ~Raises(c)
  /\ loop' = [loop EXCEPT !.todo = @ \ {c}]
  /\ UNCHANGED <<dataVars, schedules, report, fileVars, mailVars, firedVars,
                 changed, countVars>>

Fire(c) ==
  /\ Checking /\ c \in loop.todo
  /\ DueNow(c)
  /\ report' = NewDraft("loop", c, ScheduledPeriod)
  /\ loop' = [loop EXCEPT !.pc = "report", !.todo = @ \ {c}]
  /\ fired' = Append(fired, <<c, loop.at>>)
  /\ served' = served \cup {c}
  /\ UNCHANGED <<dataVars, schedules, fileVars, mailVars, begun, changed,
                 countVars>>

(* Nothing between _is_due and run() catches it: the check is over for all     *)
(* clients that have not had their turn, and the pause begins. *)
CheckBreaks(c) ==
  /\ Checking /\ c \in loop.todo
  /\ Raises(c)
  /\ loop' = [loop EXCEPT !.pc = "sleep", !.wake = now + Minute]
  /\ UNCHANGED <<dataVars, schedules, report, fileVars, mailVars, firedVars,
                 changed, countVars>>

(* A variation: the pause is shorter than a minute. *)
EndCheckSoon ==
  /\ Checking /\ loop.todo = {}
  /\ loop' = [loop EXCEPT !.pc = "sleep", !.wake = now + Minute - 1]
  /\ UNCHANGED <<dataVars, schedules, report, fileVars, mailVars, firedVars,
                 changed, countVars>>

(* The pause of a minute begins when the work is done. *)
EndCheck ==
  /\ Checking /\ loop.todo = {}
  /\ loop' = [loop EXCEPT !.pc = "sleep", !.wake = now + Minute]
  /\ UNCHANGED <<dataVars, schedules, report, fileVars, mailVars, firedVars,
                 changed, countVars>>

(* GET /analytics/report/{client}/download. *)
Download(c, days) ==
  /\ LoopFree
  /\ downloads < MaxDownloads
  /\ downloads' = downloads + 1
  /\ report' = NewDraft("request", c, days)
  /\ UNCHANGED <<dataVars, schedules, loop, fileVars, mailVars, firedVars,
                 changed, changes>>

(* POST and DELETE /analytics/schedule/{client}. *)
ChangeSchedule(c, s) ==
  /\ LoopFree
  /\ changes < MaxChanges
  /\ changes' = changes + 1
  /\ schedules' = [schedules EXCEPT ![c] = s]
  /\ changed' = changed \cup {c}
  /\ UNCHANGED <<dataVars, loop, report, fileVars, mailVars, firedVars,
                 downloads>>

----------------------------------------------------------------------------
(* The rows of the report's own client that change while it is being made. *)
Touch(S) ==
  IF report = Nothing THEN report
  ELSE [report EXCEPT !.moved = @ \cup {i \in S : Feedback[i].client = report.client}]

(* The dashboard's process writes a row, or deletes all rows of its client. *)
DashboardWrites(i) ==
  /\ rowAt[i] = -1
  /\ table' = table \cup {i}
  /\ rowAt' = [rowAt EXCEPT ![i] = now]
  /\ report' = Touch({i})
  /\ UNCHANGED <<schedules, loop, fileVars, mailVars, firedVars, changed,
                 countVars>>

DashboardErases(c) ==
  LET S == {i \in table : Feedback[i].client = c}
  IN  /\ S # {}
      /\ table' = table \ S
      /\ report' = Touch(S)
      /\ UNCHANGED <<rowAt, schedules, loop, fileVars, mailVars, firedVars, changed,
                 countVars>>

SchedulerAsleep == [pc |-> "sleep", wake |-> now, at |-> now, todo |-> {}]

ReportInit ==
  /\ table \in SUBSET Row /\ rowAt = [i \in Row |-> IF i \in table THEN now ELSE -1]
  /\ schedules \in [Client -> Schedules \cup {Nothing}]
  /\ loop = SchedulerAsleep
  /\ report = Nothing
  /\ files = [f \in File |-> 0]
  /\ mail = Nothing
  /\ made = 0 /\ madeAt = <<>> /\ sent = Nothing
  /\ fired = <<>> /\ served = {} /\ begun = {now}
  /\ changed = {} /\ changes = 0 /\ downloads = 0

(* A new process: its first check begins at once. *)
ReportRestart ==
  /\ loop' = SchedulerAsleep
  /\ report' = Nothing /\ mail' = Nothing
  /\ served' = {} /\ begun' = begun \cup {now} /\ changed' = {}
  /\ UNCHANGED <<dataVars, schedules, fileVars, sent, fired, countVars>>

ReportNext == Query \/ Export \/ ExportFails

DownloadNext == \E c \in Client, days \in Periods : Download(c, days)

ScheduleNext ==
  \/ StartCheck \/ EndCheck \/ SendMail
  \/ \E c \in Client : \/ PassOver(c) \/ Fire(c) \/ CheckBreaks(c)
                       \/ \E s \in Schedules \cup {Nothing} : ChangeSchedule(c, s)

DashboardNext ==
  \/ \E i \in Row : DashboardWrites(i)
  \/ \E c \in Client : DashboardErases(c)

----------------------------------------------------------------------------
(* Two sections of a report that look at the same period see the same rows,   *)
(* but for rows that the dashboard wrote or erased meanwhile, rows that reached *)
(* the end of the period meanwhile, sections whose query failed, and the rules  *)
(* that a full table of rules leaves out.  If no row moved, a rule that the     *)
(* advice singles out is as bad in the breakdown, and a rule with a false       *)
(* positive there, or with a falling rate of them, is in the table unless the   *)
(* table is full of rules with no fewer (engine.py:178-472, each section with a *)
(* connection and a clock of its own). *)
SectionsAgree ==
  Complete =>
    LET read == report.read
        Answered == Section \ report.failed
        Period == DayLength * report.days
        Outdated == {i \in Row : /\ rowAt[i] >= report.start - Period
                                 /\ rowAt[i] < now - Period}
        Moved == report.moved \cup Outdated
        Covers(p, q) == q \in Answered => read[p] \subseteq read[q] \cup Moved
        Whole == {"breakdown", "totals", "roi"}
        Listed == {Feedback[i].rule : i \in read["rules"]}
        TableFull == Cardinality(Listed) = RuleLimit
    IN  /\ \A p, q \in Whole : Covers(p, q)
        /\ Covers("rules", "breakdown") /\ (Covers("notes", "rules") \/ TableFull)
        /\ report.days >= 7 => Covers("weekly", "roi")
        /\ report.days <= 90 => Covers("roi", "trend")
        /\ (/\ Moved \cap UNION {read[s] : s \in Section} = {}
            /\ {"breakdown", "rules"} \subseteq Answered) => \A r \in Rule :
             /\ r \in SingledOut(read["rules"]) => MostlyWrong(read["breakdown"], r)
             /\ (\/ r \in WrongRules(read["breakdown"])
                 \/ Trend(read["breakdown"], read["recent"], r) = "improving")
                => \/ r \in Listed
                   \/ TableFull /\ \A q \in Listed : ~Worse(read["breakdown"], r, q)

(* A client gets at most one report for a minute in which one is due, however *)
(* little the checks take, unless the process was started anew in that minute:  *)
(* nothing of what was sent is kept. *)
FiredOncePerMinute ==
  \A i, j \in 1..Len(fired) :
    (/\ i < j
     /\ fired[i][1] = fired[j][1]
     /\ fired[i][2] \div Minute = fired[j][2] \div Minute)
    => \E t \in begun : t \div Minute = fired[j][2] \div Minute /\ t >= fired[i][2]

(* When a check is over, every client whose report was due in its minute has   *)
(* had it made or tried, however long the reports and mails of the others took  *)
(* and whichever of them failed, unless its schedule was changed meanwhile or   *)
(* the check broke off before its turn; and only at a client whose schedule no  *)
(* answer can be worked out from does a check break off (scheduler.py:117-138). *)
DueServed ==
  LET Over == \/ loop.pc = "check" /\ loop.todo = {}
              \/ loop.pc = "sleep" /\ loop.wake > loop.at
  IN  Over =>
        /\ \A c \in Client \ changed : DueNow(c) => c \in served \cup loop.todo
        /\ loop.todo # {} => \E b \in loop.todo : Raises(b) \/ b \in changed

(* A mail carries the report it is about, unless another report of the client  *)
(* was written in the same second, before the mail's thread read the file. *)
MailHoldsItsReport ==
  (sent # Nothing /\ sent.inside # sent.own) =>
    sent.inside > sent.own /\ madeAt[sent.inside] = madeAt[sent.own]

=============================================================================
