------------------------------ MODULE PinnedViews ------------------------------
(***************************************************************************)
(* Pinning the list views of one object (patch_business_logic, 'listview') *)
(* and which view is shown when none is named (GetListviews).  A pin is    *)
(* several statements in autocommit; pinning one of the lists that every   *)
(* object has stores it, with the filters of that day.                     *)
(*                                                                         *)
(* The periods that filters name, such as last_month: the days that        *)
(* _resolve_relative_date (utils/helpers.py) reckons from today, and those *)
(* of the lists that every object has (get_dynamic_listview).  A day is    *)
(* its ordinal in Python's calendar; a moment is a day and whether it is   *)
(* that day's midnight.                                                    *)
(***************************************************************************)
EXTENDS Integers, Sequences, FiniteSets

CONSTANTS
  FirstYear, LastYear,  \* bounds: the years that days may be in
  Owner, Name,       \* users; names of views, dynamic ones among them
  Request,           \* requests to pin
  Start,             \* days that a behaviour may begin with
  MaxPins, MaxDays,  \* bounds: pins, days
  None

VARIABLES
  today,
  begin,             \* the day a behaviour began with
  rows,              \* stored views: their owner, name, the day of their filters, whether pinned
  request,           \* what each request does
  begun,             \* pins so far
  shown,             \* the last view shown
  overlapped         \* owners whose last pins overlapped (history)

Year == FirstYear..LastYear
Neighbours == {<<"yesterday", "today", "tomorrow">>, <<"last_week", "this_week", "next_week">>,
               <<"last_month", "this_month", "next_month">>,
               <<"last_quarter", "this_quarter", "next_quarter">>, <<"last_year", "this_year", "next_year">>}

Leap(y) == y % 4 = 0 /\ (y % 100 # 0 \/ y % 400 = 0)
Length(y, m) == IF m = 2 THEN IF Leap(y) THEN 29 ELSE 28 ELSE IF m \in {4, 6, 9, 11} THEN 30 ELSE 31

NewYear(y) == 365 * (y - 1) + (y - 1) \div 4 - (y - 1) \div 100 + (y - 1) \div 400 + 1

DaysBefore(y) == [m \in 1..12 |-> LET sum[k \in 0..12] == IF k = 0 THEN 0 ELSE sum[k - 1] + Length(y, k) IN sum[m - 1]]

\* date(y, m, d), and the parts of a day.
Day(y, m, d) == NewYear(y) + DaysBefore(y)[m] + d - 1
YearOf(n) == CHOOSE y \in Year : NewYear(y) <= n /\ n < NewYear(y + 1)
MonthOf(n) == LET y == YearOf(n) IN CHOOSE m \in 1..12 : Day(y, m, 1) <= n /\ n < Day(y, m, 1) + Length(y, m)

replace(n, d) == Day(YearOf(n), MonthOf(n), d)
weekday(n) == (n + 6) % 7

Days == Day(FirstYear + 1, 1, 1)..(Day(LastYear, 1, 1) - 1)

----------------------------------------------------------------------------
\* _resolve_relative_date: the first and the last day

\* Four days after the 28th it is the next month.
NextMonth(n) == replace(replace(n, 28) + 4, 1)

\* Mutant: the first month of a quarter is reckoned without the month's own shift.
QuarterFromMonth(n) == (MonthOf(n) \div 3) * 3 + 1

QuarterStart(n) == ((MonthOf(n) - 1) \div 3) * 3 + 1

this_quarter(n) ==
  [first |-> Day(YearOf(n), QuarterStart(n), 1),
   last  |-> replace(Day(YearOf(n), QuarterStart(n) + 2, 28) + 4, 1) - 1]

_resolve_relative_date(period) ==
  LET monday == today - weekday(today)
      first  == replace(today, 1)
      y      == YearOf(today)
      days(a, b) == [first |-> a, last |-> b]
      late   == MonthOf(today) > 3
      next   == this_quarter(today).last + 1
  IN  CASE period = "today"              -> days(today, today)
        [] period = "yesterday"          -> days(today - 1, today - 1)
        [] period = "tomorrow"           -> days(today + 1, today + 1)
        [] period = "this_week"      -> days(monday, monday + 6)
        [] period = "last_week"      -> days(monday - 7, monday - 1)
        [] period = "next_week"      -> days(monday + 7, monday + 13)
        [] period = "this_month"     -> days(first, NextMonth(today) - 1)
        [] period = "last_month"     -> days(replace(first - 1, 1), first - 1)
        [] period = "next_month"     -> days(NextMonth(today), NextMonth(NextMonth(today)) - 1)
        [] period = "this_quarter"    -> this_quarter(today)
        [] period = "last_quarter"    ->
             days(Day(IF late THEN y ELSE y - 1, IF late THEN QuarterStart(today) - 3 ELSE 10, 1),
                  Day(y, QuarterStart(today), 1) - 1)
        [] period = "next_quarter"    ->
             days(next, replace(Day(YearOf(next), MonthOf(next) + 2, 28) + 4, 1) - 1)
        [] period = "this_year"      -> days(Day(y, 1, 1), Day(y, 12, 31))
        [] period = "last_year"      -> days(Day(y - 1, 1, 1), Day(y - 1, 12, 31))
        [] period = "next_year"      -> days(Day(y + 1, 1, 1), Day(y + 1, 12, 31))

----------------------------------------------------------------------------
\* get_dynamic_listview: from midnight of the first day, until before midnight of a day; only
\* last_month ends with the midnight that its last day begins with.

Dynamic == {"today", "yesterday", "this_week", "last_week", "this_month", "last_month"}

get_dynamic_listview(name) ==
  LET monday == today - weekday(today)
      first  == replace(today, 1)
      until(a, b) == [from |-> a, to |-> b, upto |-> FALSE]
  IN  CASE name = "today"               -> until(today, today + 1)
        [] name = "yesterday"           -> until(today - 1, today)
        [] name = "this_week"       -> until(monday, today + 1)
        [] name = "last_week"       -> until(monday - 7, monday)
        [] name = "this_month"      -> until(first, today + 1)
        [] name = "last_month"      -> [from |-> replace(first - 1, 1), to |-> first - 1, upto |-> TRUE]

\* Whether a row created at a moment is in such a list.
Lists(filters, m) ==
  /\ filters.from <= m.day
  /\ \/ m.day < filters.to
     \/ filters.upto /\ m.day = filters.to /\ m.midnight

----------------------------------------------------------------------------
NextDay == today + 1 \in Days /\ today' = today + 1

----------------------------------------------------------------------------
\* Pins

PinsAssumption ==
  /\ {FirstYear, LastYear} \subseteq Nat \ {0} /\ FirstYear + 1 < LastYear
  /\ Start \subseteq Days /\ Name \cap Dynamic # {} /\ {MaxPins, MaxDays} \subseteq Nat
  /\ IsFiniteSet(Owner) /\ IsFiniteSet(Name)

vars == <<today, begin, rows, request, begun, shown, overlapped>>

Row == [id : Nat, owner : Owner, name : Name, day : Days \cup {None}, pinned : BOOLEAN]
\* at: the next step; id: of the stored view, or None; alone (history): no other pin of the
\* same owner ran meanwhile.
Idle == [at |-> "idle", owner |-> None, name |-> None, id |-> None, alone |-> TRUE]

TypeOK ==
  /\ {today, begin} \subseteq Days /\ rows \subseteq Row /\ begun \in 0..MaxPins
  /\ \A r \in Request : request[r].at \in {"idle", "unpin", "pin"}

Init ==
  /\ begin \in Start /\ today = begin /\ begun = 0 /\ shown = None /\ overlapped = {}
  /\ rows \in {{}, {[id |-> 0, owner |-> o, name |-> n, day |-> None, pinned |-> FALSE] : o \in Owner, n \in Name \ Dynamic}}
  /\ request = [r \in Request |-> Idle]

Midnight ==
  /\ today < begin + MaxDays /\ NextDay
  /\ shown' = None /\ UNCHANGED <<begin, rows, request, begun, overlapped>>

Running(o) == {r \in Request : request[r].at # "idle" /\ request[r].owner = o}

\* A stored view is pinned by its id, a dynamic one by its name; whether the owner has that one
\* stored is read first.
Pin(r, o, n) ==
  /\ request[r].at = "idle" /\ begun < MaxPins /\ begun' = begun + 1
  /\ LET stored == {v \in rows : v.owner = o /\ v.name = n}
     IN  \E id \in IF stored = {} THEN {None} ELSE {v.id : v \in stored} :
           /\ id # None \/ n \in Dynamic
           /\ request' = [q \in Request |->
                IF q = r THEN [at |-> "unpin", owner |-> o, name |-> n, id |-> id, alone |-> Running(o) = {}]
                ELSE IF q \in Running(o) THEN [request[q] EXCEPT !.alone = FALSE] ELSE request[q]]
  /\ shown' = None /\ UNCHANGED <<today, begin, rows, overlapped>>

Unpinned(v) == [v EXCEPT !.pinned = FALSE]

\* Mutant: a new view is pinned without taking the pin from the others.
KeepPins(r) ==
  /\ request[r].at = "unpin"
  /\ rows' = IF request[r].id = None THEN rows ELSE {IF v.owner = request[r].owner THEN Unpinned(v) ELSE v : v \in rows}
  /\ request' = [request EXCEPT ![r].at = "pin"] /\ UNCHANGED <<today, begin, begun, shown, overlapped>>

\* All views of the owner.
Unpin(r) ==
  /\ request[r].at = "unpin"
  /\ rows' = {IF v.owner = request[r].owner THEN Unpinned(v) ELSE v : v \in rows}
  /\ request' = [request EXCEPT ![r].at = "pin"] /\ UNCHANGED <<today, begin, begun, shown, overlapped>>

\* The patch of the stored row, or a new row with today's filters.  Either may fail, a patch
\* also because its logic does not pass, and the views stay unpinned.
Finish(r) ==
  /\ request[r].at = "pin"
  /\ LET q == request[r]
     IN  /\ \/ UNCHANGED rows
            \/ q.id # None /\ rows' = {IF v.id = q.id /\ v.name = q.name /\ v.owner = q.owner
                                       THEN [v EXCEPT !.pinned = TRUE] ELSE v : v \in rows}
            \/ q.id = None /\ rows' = rows \cup {[id |-> Cardinality(rows) + 1, owner |-> q.owner, name |-> q.name,
                                                 day |-> today, pinned |-> TRUE]}
         /\ overlapped' = IF q.alone THEN overlapped \ {q.owner} ELSE overlapped \cup {q.owner}
  /\ request' = [request EXCEPT ![r] = Idle] /\ UNCHANGED <<today, begin, begun, shown>>

\* The first row that has the name, whoever owns it, or the day's filters; a view that is not
\* named is the first that is pinned, whoever pinned it, or 'all'.
get_listview_for_object(n) ==
  LET stored == {v \in rows : v.name = n}
  IN  IF stored # {} THEN {v.day : v \in stored} ELSE IF n \in Dynamic THEN {today} ELSE {}

Show(o) ==
  /\ \/ \E n \in Name : \E d \in get_listview_for_object(n) : shown' = [name |-> n, day |-> d]
     \/ \E v \in {w \in rows : w.pinned} : \E d \in get_listview_for_object(v.name) : shown' = [name |-> v.name, day |-> d]
     \/ (\A v \in rows : ~v.pinned) /\ shown' = [name |-> "all", day |-> None]
  /\ UNCHANGED <<today, begin, rows, request, begun, overlapped>>

Next ==
  \/ Midnight
  \/ \E r \in Request : Unpin(r) \/ Finish(r) \/ \E o \in Owner, n \in Name : Pin(r, o, n)
  \/ \E o \in Owner : Show(o)

----------------------------------------------------------------------------
\* Properties

\* Of an owner's views one is pinned at most, through days, failures and other owners' pins,
\* unless the owner's last pins overlapped.
OnePinnedView ==
  \A o \in Owner \ overlapped : Cardinality({v \in rows : v.owner = o /\ v.pinned}) <= 1

\* A view shows the rows of a past day only if somebody pinned that view on that day.
StaleOnlyWherePinned ==
  shown # None /\ shown.name \in Dynamic /\ shown.day # today =>
    \E v \in rows : v.name = shown.name /\ v.day = shown.day

\* On every day: the day before and after, and the week, month, quarter and year that hold the
\* day: the last, this and the next follow one another without a gap and without an overlap.
PeriodsAdjoin ==
  \A p \in Neighbours :
    LET of(i) == _resolve_relative_date(p[i]) IN
      /\ of(2).first <= today /\ today <= of(2).last
      /\ of(1).first <= of(1).last /\ of(1).last + 1 = of(2).first
      /\ of(2).last + 1 = of(3).first /\ of(3).first <= of(3).last

\* A list of created rows agrees with the period of its name up to the day itself; of last
\* month's last day it has the midnight alone.
ListsAgreeWithPeriods ==
  \A name \in Dynamic :
    LET period == _resolve_relative_date(name)
        listed == get_dynamic_listview(name)
    IN  \A d \in {period.first - 1, period.first, period.last, period.last + 1, today, today + 1}, midnight \in BOOLEAN :
          Lists(listed, [day |-> d, midnight |-> midnight])
            <=> /\ period.first <= d /\ d <= period.last /\ d <= today
                /\ name = "last_month" /\ d = period.last => midnight
=============================================================================
