--------------------------- MODULE ConsoleReports ---------------------------
(***************************************************************************)
(* The reports page (apps/web/src/pages/applications/Reports.tsx) and the   *)
(* two requests it makes (control_api/app/domains/reports/service.py): a    *)
(* summary for each range of days, kept in the query cache under its range, *)
(* and files of at most ExportLimit rows.                                   *)
(*                                                                         *)
(* A summary is a series of statements at PostgreSQL's default isolation,   *)
(* each reading the rows there are by then.  Two of the series are kept:    *)
(* the count of new subscriptions and their daily trend, which comes last.  *)
(***************************************************************************)
EXTENDS Integers, Sequences, FiniteSetsExt

CONSTANTS
  MaxDay,
  MaxRows,      \* bound on the rows of a day
  ExportLimit,  \* EXPORT_LIMIT
  NoReport, NoFile

Days == 0..MaxDay

VARIABLES
  today,
  made,    \* [Days -> rows created that day]
  range,   \* startsOn and endsOn
  reports, \* [Ranges -> the summary: what was read, and the statements left]
  file     \* the export: asked for, or saved

vars == <<today, made, range, reports, file>>

Ranges == [from : Days, to : Days]

\* ReportRange: validate_range.
Valid(r) == r.from <= r.to

\* Rows of a range.
Within(r) == MapThenSumSet(LAMBDA d : made[d], {d \in Days : r.from <= d /\ d <= r.to})

\* Mutant: the trend is read before the count.
TrendFirst == <<"trend", "total">>

\* The order of the statements.
Statements == <<"total", "trend">>

\* A placeholder is no answer.
ConstantsAssumption ==
  /\ MaxDay \in Nat /\ MaxRows \in Nat /\ ExportLimit \in Nat
  /\ NoReport \notin [total : Nat, trend : Nat, left : {Statements, Tail(Statements), <<>>}]
  /\ NoFile \notin [range : Ranges, saved : BOOLEAN, rows : Nat, all : Nat, truncated : BOOLEAN]

Unread == [total |-> 0, trend |-> 0, left |-> Statements]

-----------------------------------------------------------------------------
Init ==
  /\ today = 0 /\ made = [d \in Days |-> 0]
  /\ range = [from |-> 0, to |-> 0]
  /\ reports = [r \in Ranges |-> NoReport]
  /\ file = NoFile

\* A customer subscribes, at any moment of the two requests.
Subscribe ==
  /\ made[today] < MaxRows
  /\ made' = [made EXCEPT ![today] = @ + 1]
  /\ UNCHANGED <<today, range, reports, file>>

Tick ==
  /\ today < MaxDay /\ today' = today + 1
  /\ UNCHANGED <<made, range, reports, file>>

\* The two dates; min and max of the fields do not hold back what is typed.
ChooseRange(r) ==
  /\ r # range /\ range' = r
  /\ UNCHANGED <<today, made, reports, file>>

\* getReportSummary for the range on the screen, which the server refuses if it is not one.
Ask ==
  /\ Valid(range)
  /\ IF reports[range] = NoReport THEN TRUE ELSE reports[range].left = <<>>
  /\ reports' = [reports EXCEPT ![range] = Unread]
  /\ UNCHANGED <<today, made, range, file>>

\* The next statement of summary; with the last, the answer is in the cache, whatever range
\* the screen has by now.
Read(r) ==
  LET it == reports[r] IN
    /\ it # NoReport /\ it.left # <<>>
    /\ reports' = [reports EXCEPT ![r] =
         [it EXCEPT ![Head(it.left)] = Within(r), !.left = Tail(it.left)]]
    /\ UNCHANGED <<today, made, range, file>>

\* A button of the exports, disabled while one is pending: the range is that of the click.
Export ==
  /\ IF file = NoFile THEN TRUE ELSE file.saved
  /\ file' = [range |-> range, saved |-> FALSE, rows |-> 0, all |-> 0, truncated |-> FALSE]
  /\ UNCHANGED <<today, made, range, reports>>

\* Mutant: no row beyond the limit is fetched, so none is found missing.
FetchedToLimit(n) == Min({n, ExportLimit})

\* statement.limit(EXPORT_LIMIT + 1)
Fetched(n) == Min({n, ExportLimit + 1})

\* export, and the download with its warning; `all` is what there was to export.
Save ==
  /\ file # NoFile /\ ~file.saved /\ Valid(file.range)
  /\ LET n == Fetched(Within(file.range)) IN
       file' = [file EXCEPT !.saved = TRUE, !.rows = Min({n, ExportLimit}),
                            !.all = Within(file.range), !.truncated = n > ExportLimit]
  /\ UNCHANGED <<today, made, range, reports>>

\* "Export failed", for a range the server refuses or for any other reason.
ExportFails ==
  /\ file # NoFile /\ ~file.saved /\ file' = NoFile
  /\ UNCHANGED <<today, made, range, reports>>

Next ==
  \/ Subscribe \/ Tick \/ Ask \/ Export \/ Save \/ ExportFails
  \/ \E r \in Ranges : ChooseRange(r) \/ Read(r)

Spec == Init /\ [][Next]_vars

-----------------------------------------------------------------------------
(* Properties.                                                             *)

\* Every variable has its type.
TypeOK ==
  /\ today \in Days /\ made \in [Days -> 0..MaxRows] /\ range \in Ranges
  /\ \A r \in Ranges : reports[r] # NoReport => {reports[r].total, reports[r].trend} \subseteq Nat

\* A file saved without a warning holds all there was, be it exactly the limit; with one, it
\* holds the limit (Reports.tsx:20, the 10,000-row safety limit).
FileIsWholeOrMarked ==
  file # NoFile => (file.saved =>
    IF file.truncated THEN file.rows = ExportLimit /\ file.rows < file.all
    ELSE file.rows = file.all)

\* The days of a summary may add up to more than its total, when somebody subscribes between
\* the statements, never to less.
TrendHoldsTheTotal ==
  \A r \in Ranges : reports[r] # NoReport =>
    (reports[r].left = <<>> => reports[r].total <= reports[r].trend)

ReportsHold == FileIsWholeOrMarked /\ TrendHoldsTheTotal
=============================================================================
