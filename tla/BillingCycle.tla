---------------------------- MODULE BillingCycle ----------------------------
(****************************************************************************)
(* The billing cycle of a user on a given day                               *)
(* (computeBillingCycle of                                                  *)
(* api/pkg/repositories/gorm_billing_usage_repository.go), on the calendar  *)
(* of Go's time package.  Dates are records of a year, a month and a day;   *)
(* the time of day plays no part.                                           *)
(****************************************************************************)
EXTENDS Integers

Date(y, m, d) == [y |-> y, m |-> m, d |-> d]

IsLeap(y) == y % 4 = 0 /\ (y % 100 # 0 \/ y % 400 = 0)

daysInMonth(y, m) ==
    IF m = 2 THEN (IF IsLeap(y) THEN 29 ELSE 28)
    ELSE IF m \in {4, 6, 9, 11} THEN 30 ELSE 31

\* The order of dates: a month takes up 31 numbers.
Ordinal(date) == (date.y * 12 + date.m - 1) * 31 + date.d

NextMonth(y, m) == IF m = 12 THEN Date(y + 1, 1, 1) ELSE Date(y, m + 1, 1)
PrevMonth(y, m) == IF m = 1 THEN Date(y - 1, 12, 1) ELSE Date(y, m - 1, 1)

\* time.AddDate(0, -1, 0): a day that the month before does not have runs over
\* into the month after it.
MonthBefore(now) ==
    LET prev == PrevMonth(now.y, now.m)
        over == now.d - daysInMonth(prev.y, prev.m)
    IN  IF over > 0 THEN Date(now.y, now.m, over) ELSE Date(prev.y, prev.m, now.d)

\* The anchor day, clamped to the days of the month.
Clamped(anchorDay, y, m) ==
    IF anchorDay <= daysInMonth(y, m) THEN anchorDay ELSE daysInMonth(y, m)

CycleStart(now, anchorDay) ==
    LET prev == MonthBefore(now)
    IN  IF now.d >= Clamped(anchorDay, now.y, now.m)
        THEN Date(now.y, now.m, Clamped(anchorDay, now.y, now.m))
        ELSE Date(prev.y, prev.m, Clamped(anchorDay, prev.y, prev.m))

\* The day that starts the next cycle; the cycle ends a second before it.
NextCycleStart(now, anchorDay) ==
    LET start == CycleStart(now, anchorDay)
        next  == NextMonth(start.y, start.m)
    IN  Date(next.y, next.m, Clamped(anchorDay, next.y, next.m))

computeBillingCycle(now, anchorDay) ==
    [start |-> CycleStart(now, anchorDay), next |-> NextCycleStart(now, anchorDay)]

Contains(cycle, now) ==
    /\ Ordinal(cycle.start) <= Ordinal(now)
    /\ Ordinal(now) < Ordinal(cycle.next)
=============================================================================
