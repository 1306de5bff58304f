-------------------------------- MODULE Figures --------------------------------
(***************************************************************************)
(* The figures a business reads: the totals of a document, the report over *)
(* a period, the revenue series and the totals of the dashboard.           *)
(*                                                                         *)
(*   backend/app/core/utils.py, domain/sales.py, domain/purchases.py       *)
(*   backend/app/reports.py, backend/app/analytics.py                      *)
(*                                                                         *)
(* Three pieces of code select documents by date, each with an arithmetic  *)
(* of its own: days and months back from today, weeks, calendar months; an *)
(* end of day that belongs to the period and ends a millisecond early; an *)
(* end that does not belong to it.  Amounts are in hundredths.  A moment is*)
(* four times a day plus a part of it.                                     *)
(***************************************************************************)
EXTENDS Integers, Sequences, FiniteSets, FiniteSetsExt

CONSTANTS
  Ids,            \* pool of documents
  Inputs,         \* what people enter: [kind, lines, off, discount, paid, ago, part]
  TaxRate,        \* per cent
  MonthStart,     \* the first days of consecutive months, from a January on
  FirstDay, LastDay, \* bounds: the days on which the business is open
  AllowedDays,    \* ALLOWED_DAYS
  Blank           \* no document

ASSUME FiguresAssumption ==
  /\ IsFiniteSet(Ids)
  /\ Inputs \subseteq [kind : {"sale", "purchase", "expense"}, lines : Seq(Nat \X Nat),
                       off : {"amount", "percentage", "none"}, discount : Int, paid : Int,
                       ago : Int, part : 0..3]
  /\ TaxRate \in Nat
  /\ MonthStart \in Seq(Int)
  /\ \A m \in 2..Len(MonthStart) : MonthStart[m] - MonthStart[m - 1] \in 28..31
  /\ {FirstDay, LastDay} \subseteq Int /\ FirstDay <= LastDay
  /\ AllowedDays \subseteq Nat \ {0}
  /\ Blank \notin Int

\* The calendar is long enough: for the year before the first day, for the last day,
\* and for every date that is entered.
ASSUME CalendarIsLong ==
  /\ Len(MonthStart) > 12 /\ MonthStart[12] <= FirstDay
  /\ LastDay < MonthStart[Len(MonthStart)]
  /\ \A in \in Inputs : /\ MonthStart[1] <= FirstDay - in.ago
                        /\ LastDay - in.ago < MonthStart[Len(MonthStart)] - 1

VARIABLES
  today,
  entry   \* documents: [kind, at, total, paid, cancelled]

figures == <<today, entry>>

Midnight == 0
Noon     == 1
EndOfDay == 2   \* 23:59:59.999
After    == 3   \* what is left of the day after it

Moment(day, part) == 4 * day + part

MonthOf(day) == CHOOSE m \in 1..(Len(MonthStart) - 1) :
                  day \in MonthStart[m]..(MonthStart[m + 1] - 1)

January(m) == m - ((m - 1) % 12)

-----------------------------------------------------------------------------
(* The totals of a document.                                               *)

\* round2(): half up, for what is not negative.
Round(a, b) == (2 * a + b) \div (2 * b)

Discount(subtotal, off, discount) ==
  CASE off = "amount"     -> discount
    [] off = "percentage" -> Round(subtotal * discount, 100)
    [] off = "none"       -> 0

\* calculate_sale_totals(), calculate_purchase_totals(): tax is on what is left.
Totals(subtotal, off, discount) ==
  LET less == Max({0, subtotal - Discount(subtotal, off, discount)})
      tax  == Round(less * TaxRate, 100) IN
  less + tax

Subtotal(lines) == SumFunction([i \in DOMAIN lines |-> lines[i][1] * lines[i][2]])

\* create_sale(), create_purchase(), as far as the figures go: a discount that is
\* more than the goods is refused, a payment is cut to the total.  A date that was
\* picked is noon of its day; a timestamp, and no date at all, is any moment.
Enter(i, in) ==
  LET subtotal == Subtotal(in.lines)
      total    == Totals(subtotal, in.off, in.discount) IN
  /\ entry[i] = Blank
  /\ in.kind \in {"sale", "purchase"}
  /\ in.discount >= 0 /\ Discount(subtotal, in.off, in.discount) <= subtotal
  /\ entry' = [entry EXCEPT ![i] =
       [kind |-> in.kind, at |-> Moment(today - in.ago, in.part), total |-> total,
        paid |-> Max({0, Min({in.paid, total})}), cancelled |-> FALSE]]
  /\ UNCHANGED today

\* create_expense().
EnterExpense(i, in) ==
  /\ entry[i] = Blank
  /\ in.kind = "expense" /\ Subtotal(in.lines) > 0
  /\ entry' = [entry EXCEPT ![i] =
       [kind |-> "expense", at |-> Moment(today - in.ago, in.part), total |-> Subtotal(in.lines),
        paid |-> 0, cancelled |-> FALSE]]
  /\ UNCHANGED today

Cancel(i) ==
  /\ entry[i] # Blank /\ entry[i].kind # "expense" /\ ~entry[i].cancelled
  /\ entry' = [entry EXCEPT ![i].cancelled = TRUE]
  /\ UNCHANGED today

DeleteExpense(i) ==
  /\ entry[i] # Blank /\ entry[i].kind = "expense"
  /\ entry' = [entry EXCEPT ![i] = Blank]
  /\ UNCHANGED today

NextDay ==
  /\ today < LastDay
  /\ today' = today + 1
  /\ UNCHANGED entry

FiguresInit == today = FirstDay /\ entry = [i \in Ids |-> Blank]

FiguresNext ==
  \/ \E i \in Ids, in \in Inputs : Enter(i, in)
  \/ \E i \in Ids, in \in Inputs : EnterExpense(i, in)
  \/ \E i \in Ids : Cancel(i)
  \/ \E i \in Ids : DeleteExpense(i)
  \/ NextDay

FiguresSpec == FiguresInit /\ [][FiguresNext]_figures

-----------------------------------------------------------------------------
(* Reports.                                                                *)

Span(first, last) == [start |-> Moment(first, Midnight), end |-> Moment(last, EndOfDay)]

\* resolve_period(): both ends belong to it.  An end that is missing is the first
\* of this month, or today; ends that are the wrong way round are swapped.
ResolvePeriod(preset, from, to) ==
  LET m    == MonthOf(today)
      f    == IF from = Blank THEN MonthStart[m] ELSE from
      t    == IF to = Blank THEN today ELSE to IN
  CASE preset = "today"          -> Span(today, today)
    [] preset = "week"           -> Span(today - 6, today)
    [] preset = "month"          -> Span(MonthStart[m], today)
    [] preset = "last_month"     -> Span(MonthStart[m - 1], MonthStart[m] - 1)
    [] preset = "quarter"        -> Span(today - 90, today)
    [] preset = "half_year"      -> Span(today - 182, today)
    [] preset = "year"           -> Span(MonthStart[January(m)], today)
    [] preset = "last_12_months" -> Span(today - 365, today)
    [] preset = "custom"         -> IF Span(f, t).start > Span(f, t).end THEN Span(t, f) ELSE Span(f, t)

Entered == {i \in Ids : entry[i] # Blank}
Live(kind) == {i \in Entered : entry[i].kind = kind /\ ~entry[i].cancelled}
TotalOf(S) == SumFunction([i \in S |-> entry[i].total])

\* The sales and the purchases of build_report(): what was cancelled is listed and
\* not added up, and owes nothing.
Section(kind, span) ==
  LET rows == {i \in Entered : entry[i].kind = kind /\ entry[i].at \in span.start..span.end}
      live == {i \in rows : ~entry[i].cancelled} IN
  [total |-> TotalOf(live), count |-> Cardinality(rows), cancelled |-> Cardinality(rows \ live),
   due   |-> SumFunction([i \in rows |-> IF i \in live THEN entry[i].total - entry[i].paid ELSE 0])]

ExpenseSection(span) ==
  LET rows == {i \in Entered : entry[i].kind = "expense" /\ entry[i].at \in span.start..span.end} IN
  [total |-> TotalOf(rows), count |-> Cardinality(rows), cancelled |-> 0, due |-> 0]

\* A consolidated report.
Report(span) ==
  LET s == Section("sale", span)  p == Section("purchase", span)  e == ExpenseSection(span) IN
  [sales |-> s, purchases |-> p, expenses |-> e, net |-> s.total - p.total - e.total,
   empty |-> s.count + p.count + e.count = 0]

-----------------------------------------------------------------------------
(* The revenue series and the dashboard.                                   *)

Weeks_Floor(days) == days \div 7
Weeks(days) == (days + 6) \div 7

\* A month is thirty days, and a half rounds to even.
Months(days) == IF days >= 330 THEN 12
                ELSE (days + (IF days % 60 = 15 THEN 14 ELSE 15)) \div 30

\* get_revenue_series(): days, weeks that end today, or calendar months; the end
\* of a bucket does not belong to it.
Buckets(days) ==
  IF days <= 31 THEN [b \in 1..days |-> [start |-> today - days + b, end |-> today - days + b + 1]]
  ELSE IF days <= 92
  THEN [b \in 1..Weeks(days) |-> [start |-> today + 1 - 7 * (Weeks(days) - b + 1),
                                  end   |-> today + 1 - 7 * (Weeks(days) - b)]]
  ELSE LET m == MonthOf(today) - Months(days) IN
       [b \in 1..Months(days) |-> [start |-> MonthStart[m + b], end |-> MonthStart[m + b + 1]]]

\* Each row is put into the first bucket that takes it.
Series(days) ==
  LET bs      == Buckets(days)
      takes(b, i) == entry[i].at \in Moment(bs[b].start, Midnight)..(Moment(bs[b].end, Midnight) - 1) IN
  [b \in DOMAIN bs |->
     TotalOf({i \in Live("sale") : takes(b, i) /\ \A c \in 1..(b - 1) : ~takes(c, i)})]

\* load_overview(): of everything there is.
Overview ==
  [sales |-> TotalOf(Live("sale")), purchases |-> TotalOf(Live("purchase")),
   expenses |-> TotalOf(Live("expense")), salesCount |-> Cardinality(Live("sale")),
   outstanding |-> SumFunction([i \in Live("sale") |-> Max({0, entry[i].total - entry[i].paid})])]

-----------------------------------------------------------------------------

\* What a report leaves out and a series does not: the very end of its last day.
Late(day) == TotalOf({i \in Live("sale") : entry[i].at = Moment(day, After)})

Sales(preset, from, to) == Section("sale", ResolvePeriod(preset, from, to)).total

\* A figure is that of a report up to the last day, and what it leaves out of it.
Same(figure, preset, from, to, last) == figure = Sales(preset, from, to) + Late(last)

SeriesAgrees(days) ==
  LET bs == Buckets(days)  first == bs[1].start  last == bs[Len(bs)].end - 1
      sum == SumFunction(Series(days)) IN
  /\ Same(sum, "custom", first, last, last)
  /\ Same(sum, "custom", last, first, last)

PresetsAgree ==
  LET m == MonthOf(today)  end == MonthStart[m + 1] - 1 IN
  /\ 7 \in AllowedDays   => /\ Same(Series(7)[7], "today", Blank, Blank, today)
                            /\ Same(SumFunction(Series(7)), "week", Blank, Blank, today)
  /\ 90 \in AllowedDays  => Same(SumFunction(Series(90)), "quarter", Blank, Blank, today)
  /\ 180 \in AllowedDays => /\ Same(Series(180)[5], "last_month", Blank, Blank, MonthStart[m] - 1)
                            /\ Same(Series(180)[6], "custom", Blank, end, end)

OverviewAgrees ==
  LET all == Report(Span(MonthStart[1], MonthStart[Len(MonthStart)] - 1)) IN
  /\ Overview.sales - Overview.purchases - Overview.expenses = all.net
  /\ Overview.outstanding = all.sales.due

\* The figures a business compares agree.  A series adds up to the sales report
\* over its days, whichever end is given first; its last days, months and weeks
\* are those of the presets; and the dashboard's totals are those of a report over
\* everything.  What they differ in is the end of a period's last day.
FiguresAgree ==
  Entered # {} => (\A days \in AllowedDays : SeriesAgrees(days)) /\ PresetsAgree /\ OverviewAgrees

=============================================================================
