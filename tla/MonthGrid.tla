----------------------------- MODULE MonthGrid -----------------------------
(* The calendar popup of the clock module (modules/clock.rs): six weeks of   *)
(* day cells around a month, paged by its chevrons, and the card that shows  *)
(* today's month on hover.  Days are counted through a few months of given   *)
(* lengths; day 0 is the first of month 1 and falls on any weekday.          *)
EXTENDS Integers, Sequences

CONSTANTS
  Lengths,       \* the months' days
  MaxSteps       \* bound: messages and midnights

ASSUME MonthAssumption == Lengths \in Seq(28..31) /\ Len(Lengths) >= 3

VARIABLES
  trigger,       \* "hover", "click" or "off"
  sunday_first,
  weekday,       \* the weekday of day 0, Monday 0
  today,
  shown_month,   \* a month; the code keeps its first day
  open,
  steps

monthVars == <<trigger, sunday_first, weekday, today, shown_month, open, steps>>

Months == 1..Len(Lengths)
FirstDay[m \in 1..Len(Lengths)+1] == IF m = 1 THEN 0 ELSE FirstDay[m - 1] + Lengths[m - 1]
Days(m) == FirstDay[m]..FirstDay[m + 1] - 1
MonthOf(day) == CHOOSE m \in Months : day \in Days(m)
Weekday(day) == (day + weekday) % 7

-----------------------------------------------------------------------------
(* month_grid: from the first day of the week the month begins in. *)
Back(m) == IF sunday_first THEN (Weekday(FirstDay[m]) + 1) % 7 ELSE Weekday(FirstDay[m])
GridStart(m) == FirstDay[m] - Back(m)
Cell(m, r, c) == GridStart(m) + 7 * r + c

(* weekday_order, the header; days_to_monday, the week of a row. *)
WeekdayOrder(c) == IF sunday_first THEN (c + 6) % 7 ELSE c
DaysToMonday(day) == (7 - Weekday(day)) % 7
WeekMonday(m, r) == Cell(m, r, 0) + DaysToMonday(Cell(m, r, 0))

(* day_cell: today in a disc; days of other months and weekends recede. *)
DayCell(m, day) ==
  IF day = today THEN "disc"
  ELSE IF day \notin Days(m) THEN "ghost" ELSE IF Weekday(day) \in {5, 6} THEN "dim" ELSE "full"

(* What the popup shows: month_view's month, or glance's. *)
Page == IF trigger = "click" THEN shown_month ELSE MonthOf(today)

-----------------------------------------------------------------------------
MonthInit ==
  /\ trigger \in {"hover", "click", "off"} /\ sunday_first \in BOOLEAN /\ weekday \in 0..6
  /\ today \in {FirstDay[2], FirstDay[3] - 1} /\ shown_month = MonthOf(today)
  /\ open = FALSE /\ steps = 0

Step == steps < MaxSteps /\ steps' = steps + 1

Midnight ==
  /\ Step /\ today + 1 < FirstDay[Len(Lengths) + 1] /\ today' = today + 1
  /\ UNCHANGED <<trigger, sunday_first, weekday, shown_month, open>>

(* update: HoverEnter, Open (a fresh start on this month), and what closes it. *)
(* Faulty variant: the month of the last visit lingers. *)
OpenAt_Lingers == shown_month
OpenAt == IF trigger = "click" THEN MonthOf(today) ELSE shown_month
Open ==
  /\ Step /\ ~open /\ trigger # "off"
  /\ open' = TRUE /\ shown_month' = OpenAt
  /\ UNCHANGED <<trigger, sunday_first, weekday, today>>
(* A click on the chip closes the popup too, by way of Open; a click beside  *)
(* it does not.                                                              *)
Close ==
  /\ Step /\ open /\ open' = FALSE
  /\ shown_month' \in {shown_month, OpenAt}
  /\ UNCHANGED <<trigger, sunday_first, weekday, today>>

(* The chevrons page by a month, the label goes to today's. *)
Turn ==
  /\ Step /\ open /\ trigger = "click"
  /\ shown_month' \in {MonthOf(today), shown_month - 1, shown_month + 1} \cap Months
  /\ UNCHANGED <<trigger, sunday_first, weekday, today, open>>

MonthNext == Midnight \/ Open \/ Close \/ Turn
MonthSpec == MonthInit /\ [][MonthNext]_monthVars

-----------------------------------------------------------------------------
(* Every day of the month shown stands in one cell, under its weekday, in   *)
(* the row of its week; today is marked wherever it is in sight.            *)
GridTells ==
  open =>
    /\ \A day \in Days(Page) : \E r \in 0..5, c \in 0..6 :
         /\ Cell(Page, r, c) = day /\ WeekdayOrder(c) = Weekday(day)
         /\ \A r2 \in 0..5, c2 \in 0..6 : Cell(Page, r2, c2) = day => r2 = r /\ c2 = c
         /\ ~sunday_first => WeekMonday(Page, r) = day - Weekday(day)
    /\ today \in Days(Page) => DayCell(Page, today) = "disc"

(* A fresh popup has today in sight. *)
FreshOpen == [][~open /\ open' => (today \in Days(Page))']_monthVars

(* The month that is shown is the calendar's, and today's when it opens.    *)
CalendarTells == []GridTells /\ FreshOpen
=============================================================================
