---------------------------- MODULE SendWindows ----------------------------
(****************************************************************************)
(* A message send schedule: the windows of the week in which a phone may    *)
(* send, the search for the next allowed moment, and what the heartbeat     *)
(* monitor makes of the time outside the windows (quiet hours).             *)
(*                                                                          *)
(* Moments are seconds of the schedule's local time, counted from some      *)
(* midnight before a day 0.  Every day has the same length: time zones are  *)
(* an offset that cancels out, and the days on which the clocks change are  *)
(* left out.  60 and 1440 are parameters so that TLC can use a short week.  *)
(****************************************************************************)
EXTENDS Integers, FiniteSetsExt

CONSTANTS SecondsPerMinute, MinutesPerDay

ASSUME ClockAssumption ==
    /\ SecondsPerMinute \in Nat \ {0}
    /\ MinutesPerDay \in Nat \ {0}

SecondsPerDay == MinutesPerDay * SecondsPerMinute

\* A window as the validator lets it in.
Window == { w \in [DayOfWeek : 0..6, StartMinute : 0..(MinutesPerDay - 1),
                   EndMinute : 1..MinutesPerDay] : w.StartMinute < w.EndMinute }

\* The windows of a schedule, which do not overlap (validateOverlappingWindows).
\* A phone without a schedule has none.
IsSchedule(windows) ==
    /\ windows \subseteq Window
    /\ \A v, w \in windows : \/ v = w
                             \/ v.DayOfWeek # w.DayOfWeek
                             \/ v.EndMinute <= w.StartMinute
                             \/ w.EndMinute <= v.StartMinute

Today(t) == t \div SecondsPerDay

\* When w starts and ends on a day, and whether it is a window of that day.
Start(w, day)  == day * SecondsPerDay + w.StartMinute * SecondsPerMinute
End(w, day)    == day * SecondsPerDay + w.EndMinute * SecondsPerMinute
IsOn(w, day)   == w.DayOfWeek = day % 7

----------------------------------------------------------------------------
(* MessageSendSchedule.ResolveScheduledAt. *)

\* Mutant: a window that has closed for today is still taken.
CandidatesClosedToo(windows, t, dayOffset) ==
    LET day == Today(t) + dayOffset
    IN  { IF t < Start(w, day) THEN Start(w, day) ELSE t :
              w \in { v \in windows : IsOn(v, day) } }

\* What the windows of the day dayOffset days from t offer: t itself inside a
\* window, the start of a window still to come, nothing once it has closed.
Candidates(windows, t, dayOffset) ==
    LET day == Today(t) + dayOffset
    IN  { IF t < Start(w, day) THEN Start(w, day) ELSE t :
              w \in { v \in windows : IsOn(v, day) /\ t < End(v, day) } }

\* The days are tried in order, up to the same day of next week.
ResolveScheduledAt(windows, t) ==
    LET days == { d \in 0..7 : Candidates(windows, t, d) # {} }
    IN  IF days = {} THEN t ELSE Min(Candidates(windows, t, Min(days)))

\* What it is meant to find: the first moment from t on that is in a window.
Allowed(windows, t) ==
    \E w \in windows : LET day == Today(t)
                       IN  /\ IsOn(w, day)
                           /\ Start(w, day) <= t /\ t < End(w, day)

\* The moment found is not in the past, is in a window, and no earlier moment
\* would have been.  A phone that has no windows is always allowed to send.
IsNextAllowed(windows, t, found) ==
    /\ found \in Nat /\ found >= t
    /\ windows # {} => Allowed(windows, found)
    /\ \A u \in t..(found - 1) : windows # {} /\ ~Allowed(windows, u)

----------------------------------------------------------------------------
(* Quiet hours: the time a phone with windows spends outside them. *)

Quiet(windows, now) == ResolveScheduledAt(windows, now) > now

\* Mutant: the start of any window of the day.
CurrentWindowStartsOfTheDay(windows, now) ==
    LET day == Today(now)
    IN  { Start(w, day) : w \in { v \in windows : IsOn(v, day) } }

\* quietCurrentWindowStartCustom: the start of the window now is in, if any.
CurrentWindowStarts(windows, now) ==
    LET day == Today(now)
    IN  { Start(w, day) : w \in { v \in windows :
              IsOn(v, day) /\ Start(v, day) <= now /\ now < End(v, day) } }

\* quietMonitorCustom, outside quiet hours: the timestamp the last heartbeat is
\* taken to have, at the earliest the start of the current window.
MonitoredTimestamp(windows, now, timestamp) ==
    LET starts == CurrentWindowStarts(windows, now)
    IN  IF starts # {} /\ timestamp < Min(starts) THEN Min(starts)
                                                  ELSE timestamp

\* QuietHoursCustom.millisUntilOpen, the app's own version of the search: how
\* long until a window opens, 0 inside one or without any.  The first day that
\* has a window still to come decides.
StartsAhead(windows, now, dayOffset) ==
    LET day == Today(now) + dayOffset
    IN  { Start(w, day) : w \in { v \in windows :
              IsOn(v, day) /\ (dayOffset = 0 => now < Start(v, day)) } }

MillisUntilOpen(windows, now) ==
    LET days == { d \in 0..7 : StartsAhead(windows, now, d) # {} }
    IN  IF CurrentWindowStarts(windows, now) # {} \/ days = {}
        THEN 0 ELSE Min(StartsAhead(windows, now, Min(days))) - now

\* The silence the monitor measures is no longer than the real one, and all of
\* it was in a time when the phone was meant to be heard.
MeasuresOpenSilence(windows, now, timestamp) ==
    LET measured == MonitoredTimestamp(windows, now, timestamp)
    IN  /\ timestamp <= measured /\ measured <= now
        /\ windows # {} => \A u \in measured..now : Allowed(windows, u)
============================================================================
