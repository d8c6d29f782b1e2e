---------------------- MODULE PhoneNotificationsProofs ----------------------
(****************************************************************************)
(* The windows: ResolveScheduledAt finds the first moment they allow, for   *)
(* every set of windows, every moment and every length of minute and day,   *)
(* and the app's own search for it finds the same one.                      *)
(*                                                                          *)
(* Then type correctness, the rate limit and the send windows of the        *)
(* phone's notifications, for any number of messages and handlers, any      *)
(* rates and windows, and any number of faults.                             *)
(*                                                                          *)
(* A handler between the two statements of its transaction keeps its        *)
(* distance from every row that was there at the first, among them all that *)
(* it inserted itself (Kept below): so rows that are too close to one       *)
(* another are of different handlers, and the handlers bound their number.  *)
(* That the rate limit's moment is moved later, never earlier, and into a   *)
(* window is ResolvesToNextAllowed.                                         *)
(****************************************************************************)
EXTENDS PhoneNotifications, FiniteSetTheorems, WellFoundedInduction, TLAPS

LEMMA DayLength == SecondsPerDay \in Nat \ {0}
<1>1. SecondsPerDay \in Nat
  BY ClockAssumption DEF SecondsPerDay
<1>2. SecondsPerDay >= 1
  BY ClockAssumption DEF SecondsPerDay
<1> QED
  BY <1>1, <1>2

\* A moment lies in the day Today names ...
LEMMA InToday ==
    ASSUME NEW t \in Nat
    PROVE  /\ Today(t) \in Nat
           /\ Today(t) * SecondsPerDay <= t
           /\ t < (Today(t) + 1) * SecondsPerDay
BY DayLength DEF Today

\* ... and in no other one.
LEMMA OnlyToday ==
    ASSUME NEW t \in Nat, NEW day \in Nat,
           day * SecondsPerDay <= t, t < (day + 1) * SecondsPerDay
    PROVE  Today(t) = day
BY DayLength DEF Today

LEMMA NatMinimum ==
    ASSUME NEW S \in SUBSET Nat, S # {}
    PROVE  /\ Min(S) \in S
           /\ \A x \in S : Min(S) <= x
<1> DEFINE R == { ss \in Nat \X Nat : ss[1] < ss[2] }
<1>1. IsWellFoundedOn(R, Nat)
  BY NatLessThanWellFounded DEF OpToRel
<1> HIDE DEF R
<1>2. PICK m \in S : \A x \in S : ~(<<x, m>> \in R)
  BY <1>1, WFMin
<1>3. ASSUME NEW x \in S PROVE m <= x
  <2>1. x \in Nat /\ m \in Nat
    OBVIOUS
  <2>2. x < m => <<x, m>> \in R
    BY <2>1 DEF R
  <2> QED
    BY <1>2, <2>1, <2>2
<1> QED
  BY <1>3 DEF Min

\* A later moment is not on an earlier day.
LEMMA TodayIsMonotone ==
    ASSUME NEW t \in Nat, NEW u \in Nat, t <= u
    PROVE  Today(t) <= Today(u)
<1> SUFFICES ASSUME Today(u) + 1 <= Today(t) PROVE FALSE
  BY InToday
<1>1. (Today(u) + 1) * SecondsPerDay <= Today(t) * SecondsPerDay
  BY InToday, DayLength
<1> QED
  BY <1>1, InToday, DayLength

\* A window of a day starts and ends within the day.
LEMMA WithinDay ==
    ASSUME NEW w \in Window, NEW day \in Nat
    PROVE  /\ Start(w, day) \in Nat
           /\ End(w, day) \in Nat
           /\ day * SecondsPerDay <= Start(w, day)
           /\ Start(w, day) < End(w, day)
           /\ End(w, day) <= (day + 1) * SecondsPerDay
<1>1. /\ w.StartMinute \in Nat /\ w.EndMinute \in Nat
      /\ w.StartMinute < w.EndMinute /\ w.EndMinute <= MinutesPerDay
      /\ MinutesPerDay \in Nat /\ SecondsPerMinute \in Nat \ {0}
  BY ClockAssumption DEF Window
<1> DEFINE from == w.StartMinute * SecondsPerMinute
           to   == w.EndMinute * SecondsPerMinute
<1>2. from \in Nat /\ to \in Nat /\ from < to
  BY <1>1
<1>3. to <= SecondsPerDay
  BY <1>1 DEF SecondsPerDay
<1>4. day * SecondsPerDay \in Nat
      /\ (day + 1) * SecondsPerDay = day * SecondsPerDay + SecondsPerDay
  BY DayLength
<1> QED
  BY <1>2, <1>3, <1>4, DayLength DEF Start, End

\* What the search offers on a day is allowed, is on that day, and is not past.
LEMMA CandidateIsAllowed ==
    ASSUME NEW windows \in SUBSET Window, NEW t \in Nat, NEW d \in 0..7,
           NEW c \in Candidates(windows, t, d)
    PROVE  /\ c \in Nat /\ c >= t
           /\ Today(c) = Today(t) + d
           /\ Allowed(windows, c)
<1> DEFINE day == Today(t) + d
<1>1. day \in Nat
  BY InToday
<1>2. PICK w \in windows : /\ IsOn(w, day) /\ t < End(w, day)
                           /\ c = IF t < Start(w, day) THEN Start(w, day) ELSE t
  BY DEF Candidates
<1> HIDE DEF day
<1>3. /\ c \in Nat /\ c >= t /\ Start(w, day) <= c /\ c < End(w, day)
  BY <1>1, <1>2, WithinDay
<1>4. Today(c) = day
  <2>1. day * SecondsPerDay <= c /\ c < (day + 1) * SecondsPerDay
    BY <1>1, <1>3, WithinDay, DayLength
  <2> QED
    BY <1>1, <1>3, <2>1, OnlyToday
<1> QED
  BY <1>2, <1>3, <1>4 DEF Allowed, day

\* An allowed moment is matched by a candidate of its day.
LEMMA AllowedHasCandidate ==
    ASSUME NEW windows \in SUBSET Window, NEW t \in Nat, NEW d \in 0..7,
           NEW u \in Nat, t <= u, Today(u) = Today(t) + d, Allowed(windows, u)
    PROVE  \E c \in Candidates(windows, t, d) : c <= u
<1> DEFINE day == Today(t) + d
<1>1. PICK w \in windows : /\ IsOn(w, day)
                           /\ Start(w, day) <= u /\ u < End(w, day)
  BY DEF Allowed
<1>2. day \in Nat
  BY InToday
<1> DEFINE c == IF t < Start(w, day) THEN Start(w, day) ELSE t
<1>3. t < End(w, day) /\ c <= u
  BY <1>1, <1>2, WithinDay
<1>4. c \in Candidates(windows, t, d)
  BY <1>1, <1>3 DEF Candidates
<1> QED
  BY <1>3, <1>4

\* Within a week, every window comes round.
LEMMA SomeDayHasCandidate ==
    ASSUME NEW windows \in SUBSET Window, NEW t \in Nat, windows # {}
    PROVE  \E d \in 0..7 : Candidates(windows, t, d) # {}
<1>1. PICK w \in windows : TRUE
  OBVIOUS
<1>2. w.DayOfWeek \in 0..6
  BY DEF Window
<1>3. PICK d \in 1..7 : w.DayOfWeek = (Today(t) + d) % 7
  <2>1. Today(t) \in Nat
    BY InToday
  <2> QED
    BY <1>2, <2>1
<1> DEFINE day == Today(t) + d
<1>4. day \in Nat /\ Today(t) + 1 <= day
  BY InToday
<1>5. t < End(w, day)
  <2>1. (Today(t) + 1) * SecondsPerDay <= day * SecondsPerDay
    BY <1>4, InToday, DayLength
  <2>2. t < day * SecondsPerDay
    BY <1>4, <2>1, InToday, DayLength
  <2> QED
    BY <1>4, <2>2, WithinDay, DayLength
<1>6. Candidates(windows, t, d) # {}
  BY <1>3, <1>5 DEF Candidates, IsOn
<1> QED
  BY <1>6

\* ResolveScheduledAt returns the first allowed moment from t on: it never
\* schedules into the past or into quiet hours, and never skips a window.
THEOREM ResolvesToNextAllowed ==
    ASSUME NEW windows \in SUBSET Window, NEW t \in Nat
    PROVE  IsNextAllowed(windows, t, ResolveScheduledAt(windows, t))
<1> DEFINE days == { d \in 0..7 : Candidates(windows, t, d) # {} }
           found == ResolveScheduledAt(windows, t)
<1>1. CASE windows = {}
  <2>1. days = {}
    BY <1>1 DEF Candidates
  <2>2. found = t
    BY <2>1 DEF ResolveScheduledAt
  <2> QED
    BY <1>1, <2>2 DEF IsNextAllowed
<1>2. CASE windows # {}
  <2> DEFINE first == Min(days)
  <2>1. days # {} /\ days \in SUBSET Nat
    BY <1>2, SomeDayHasCandidate
  <2>2. first \in days /\ \A d \in days : first <= d
    <3> HIDE DEF days
    <3> QED
      BY <2>1, NatMinimum
  <2>3. found = Min(Candidates(windows, t, first))
    BY <2>1 DEF ResolveScheduledAt
  <2> DEFINE C == Candidates(windows, t, first)
  <2>4. C # {} /\ C \in SUBSET Nat
    BY <2>2, CandidateIsAllowed
  <2>5. found \in C /\ \A c \in C : found <= c
    <3> HIDE DEF C
    <3> QED
      BY <2>3, <2>4, NatMinimum DEF C
  <2>6. /\ found \in Nat /\ found >= t
        /\ Today(found) = Today(t) + first
        /\ Allowed(windows, found)
    BY <2>2, <2>5, CandidateIsAllowed
  <2>7. ASSUME NEW u \in t..(found - 1), Allowed(windows, u) PROVE FALSE
    <3> DEFINE d == Today(u) - Today(t)
    <3>1. u \in Nat /\ t <= u /\ u < found
      BY <2>6
    <3>2. Today(t) <= Today(u) /\ Today(u) <= Today(found)
      BY <2>6, <3>1, TodayIsMonotone
    <3>3. d \in 0..7 /\ d <= first /\ Today(u) = Today(t) + d
      BY <2>2, <2>6, <3>1, <3>2, InToday
    <3>4. PICK c \in Candidates(windows, t, d) : c <= u
      <4> HIDE DEF d
      <4> QED
        BY <2>7, <3>1, <3>3, AllowedHasCandidate
    <3>5. d = first
      BY <2>2, <3>3, <3>4
    <3>6. c \in C
      BY <3>4, <3>5
    <3>7. found <= c /\ c \in Nat
      <4> HIDE DEF C, d
      <4> QED
        BY <2>4, <2>5, <3>6
    <3> HIDE DEF found, C, d
    <3> QED
      BY <2>6, <3>1, <3>4, <3>7
  <2> QED
    BY <1>2, <2>6, <2>7 DEF IsNextAllowed
<1> QED
  BY <1>1, <1>2

\* Outside quiet hours, the silence the heartbeat monitor measures is never
\* longer than the real one and lies in a window from end to end: a quiet night
\* is not taken for an outage.
THEOREM MeasuresOnlyOpenSilence ==
    ASSUME NEW windows \in SUBSET Window, NEW at \in Nat,
           NEW timestamp \in 0..at, ~Quiet(windows, at)
    PROVE  MeasuresOpenSilence(windows, at, timestamp)
<1> DEFINE starts == CurrentWindowStarts(windows, at)
           measured == MonitoredTimestamp(windows, at, timestamp)
<1>1. windows # {} => Allowed(windows, at)
  <2>1. ResolveScheduledAt(windows, at) = at
    BY ResolvesToNextAllowed DEF IsNextAllowed, Quiet
  <2>2. windows # {} => Allowed(windows, ResolveScheduledAt(windows, at))
    BY ResolvesToNextAllowed DEF IsNextAllowed
  <2> QED
    BY <2>1, <2>2
<1>2. ASSUME NEW s \in starts
      PROVE  /\ s \in Nat /\ s <= at
             /\ \A u \in s..at : Allowed(windows, u)
  <2>1. PICK w \in windows : /\ IsOn(w, Today(at)) /\ at < End(w, Today(at))
                             /\ s = Start(w, Today(at)) /\ s <= at
    BY <1>2 DEF CurrentWindowStarts
  <2>2. s \in Nat /\ Today(at) * SecondsPerDay <= s
    BY <2>1, InToday, WithinDay
  <2>3. ASSUME NEW u \in s..at PROVE Allowed(windows, u)
    <3>1. u \in Nat /\ s <= u /\ u <= at
      BY <2>2
    <3>2. Today(u) = Today(at)
      <4>1. /\ Today(at) * SecondsPerDay <= u
            /\ u < (Today(at) + 1) * SecondsPerDay
        BY <2>2, <3>1, InToday, DayLength
      <4> QED
        BY <3>1, <4>1, InToday, OnlyToday
    <3>3. u < End(w, Today(at))
      BY <2>1, <3>1, WithinDay, InToday
    <3> QED
      BY <2>1, <3>1, <3>2, <3>3 DEF Allowed
  <2> QED
    BY <2>1, <2>2, <2>3
<1>3. CASE starts = {}
  <2>1. windows = {}
    BY <1>1, <1>3 DEF CurrentWindowStarts, Allowed
  <2> QED
    BY <1>3, <2>1 DEF MeasuresOpenSilence, MonitoredTimestamp
<1>4. CASE starts # {}
  <2>1. starts \in SUBSET Nat
    BY <1>2
  <2>2. Min(starts) \in starts
    <3> HIDE DEF starts
    <3> QED
      BY <1>4, <2>1, NatMinimum
  <2>3. /\ measured = IF timestamp < Min(starts) THEN Min(starts) ELSE timestamp
        /\ Min(starts) \in Nat /\ Min(starts) <= at
        /\ \A u \in Min(starts)..at : Allowed(windows, u)
    BY <1>2, <1>4, <2>2 DEF MonitoredTimestamp
  <2>4. /\ measured \in Nat /\ measured >= Min(starts)
        /\ timestamp <= measured /\ measured <= at
    BY <2>3
  <2>5. \A u \in measured..at : Allowed(windows, u)
    BY <2>3, <2>4
  <2> QED
    BY <2>4, <2>5 DEF MeasuresOpenSilence
<1> QED
  BY <1>3, <1>4

\* Outside every window, what is ahead on a day is what the server would take.
LEMMA AheadAreCandidates ==
    ASSUME NEW windows \in SUBSET Window, NEW at \in Nat, NEW d \in 0..7,
           CurrentWindowStarts(windows, at) = {}
    PROVE  StartsAhead(windows, at, d) = Candidates(windows, at, d)
<1> DEFINE day == Today(at) + d
<1>1. day \in Nat /\ Today(at) \in Nat
  BY InToday
<1>2. ASSUME NEW w \in windows, IsOn(w, day)
      PROVE  at < End(w, day) <=> (d = 0 => at < Start(w, day))
  <2>1. Start(w, day) \in Nat /\ End(w, day) \in Nat /\ Start(w, day) < End(w, day)
    BY <1>1, WithinDay
  <2>2. CASE d = 0
    <3>1. day = Today(at)
      BY <1>1, <2>2
    <3>2. ~(Start(w, day) <= at /\ at < End(w, day))
      BY <1>2, <3>1 DEF CurrentWindowStarts
    <3> QED
      BY <2>1, <2>2, <3>2
  <2>3. CASE d # 0
    <3>1. (Today(at) + 1) * SecondsPerDay <= day * SecondsPerDay
      BY <1>1, <2>3, DayLength
    <3>2. at < day * SecondsPerDay /\ day * SecondsPerDay <= Start(w, day)
      BY <1>1, <3>1, InToday, WithinDay, DayLength
    <3> QED
      BY <2>1, <2>3, <3>2, DayLength, <1>1
  <2> QED
    BY <2>2, <2>3
<1>3. ASSUME NEW w \in windows, IsOn(w, day), at < End(w, day)
      PROVE  at < Start(w, day)
  <2>1. Start(w, day) \in Nat
    BY <1>1, WithinDay
  <2>2. CASE d = 0
    BY <1>2, <1>3, <2>2
  <2>3. CASE d # 0
    <3>1. (Today(at) + 1) * SecondsPerDay <= day * SecondsPerDay
      BY <1>1, <2>3, DayLength
    <3> QED
      BY <1>1, <3>1, <2>1, InToday, WithinDay, DayLength
  <2> QED
    BY <2>2, <2>3
<1>4. StartsAhead(windows, at, d) =
          { Start(w, day) : w \in { v \in windows :
                IsOn(v, day) /\ (d = 0 => at < Start(v, day)) } }
  BY DEF StartsAhead
<1>5. Candidates(windows, at, d) =
          { IF at < Start(w, day) THEN Start(w, day) ELSE at :
                w \in { v \in windows : IsOn(v, day) /\ at < End(v, day) } }
  BY DEF Candidates
<1> HIDE DEF day
<1> QED
  BY <1>2, <1>3, <1>4, <1>5

LEMMA MomentsAreNat == Moments \subseteq Nat
<1>1. 8 * SecondsPerDay \in Nat
  BY DayLength
<1> QED
  BY <1>1 DEF Moments

\* For a schedule of two windows, as for any other, the search finds the first
\* moment that the schedule allows, whatever the lengths of minutes and days.
THEOREM EarliestFound == Spec => []EarliestAllowed
<1>1. EarliestAllowed
  <2> SUFFICES ASSUME NEW windows \in SmallSchedules, NEW moment \in Moments
               PROVE  IsNextAllowed(windows, moment, ResolveScheduledAt(windows, moment))
    BY DEF EarliestAllowed
  <2>1. windows \in SUBSET Window /\ moment \in Nat
    BY MomentsAreNat DEF SmallSchedules, IsSchedule
  <2> QED
    BY <2>1, ResolvesToNextAllowed
<1> QED
  BY <1>1, PTL

\* And the monitor never counts a silence in which the phone was not meant to
\* be heard.
THEOREM SilenceIsMeasuredOpen == Spec => []SilenceIsOpen
<1>1. SilenceIsOpen
  <2> SUFFICES ASSUME NEW windows \in SmallSchedules, NEW moment \in Moments,
                      ~Quiet(windows, moment), NEW timestamp \in 0..moment
               PROVE  MeasuresOpenSilence(windows, moment, timestamp)
    BY DEF SilenceIsOpen
  <2>1. windows \in SUBSET Window /\ moment \in Nat
    BY MomentsAreNat DEF SmallSchedules, IsSchedule
  <2> QED
    BY <2>1, MeasuresOnlyOpenSilence
<1> QED
  BY <1>1, PTL

\* The app and the server agree, at every moment and for all windows, on when
\* the phone's window opens: the app's millisUntilOpen is the delay to the
\* moment the server's ResolveScheduledAt finds.
THEOREM PhoneAgreesWithServer ==
    ASSUME NEW windows \in SUBSET Window, NEW at \in Nat
    PROVE  MillisUntilOpen(windows, at) = ResolveScheduledAt(windows, at) - at
<1> DEFINE found == ResolveScheduledAt(windows, at)
<1>1. CASE CurrentWindowStarts(windows, at) # {}
  <2>1. Allowed(windows, at)
    BY <1>1 DEF CurrentWindowStarts, Allowed
  <2>2. /\ found \in Nat /\ found >= at
        /\ \A u \in at..(found - 1) : ~Allowed(windows, u)
    BY ResolvesToNextAllowed DEF IsNextAllowed
  <2> HIDE DEF found
  <2>3. found = at
    BY <2>1, <2>2
  <2>4. MillisUntilOpen(windows, at) = 0
    BY <1>1 DEF MillisUntilOpen
  <2> QED
    BY <2>3, <2>4 DEF found
<1>2. CASE CurrentWindowStarts(windows, at) = {}
  <2> DEFINE ahead == { d \in 0..7 : StartsAhead(windows, at, d) # {} }
             days  == { d \in 0..7 : Candidates(windows, at, d) # {} }
  <2>1. ahead = days
    BY <1>2, AheadAreCandidates
  <2>2. CASE days = {}
    <3>1. MillisUntilOpen(windows, at) = 0 /\ found = at
      BY <2>1, <2>2 DEF MillisUntilOpen, ResolveScheduledAt
    <3> QED
      BY <3>1
  <2>3. CASE days # {}
    <3>1. Min(days) \in 0..7
      <4>1. days \in SUBSET Nat /\ days \subseteq 0..7
        OBVIOUS
      <4> HIDE DEF days
      <4> QED
        BY <2>3, <4>1, NatMinimum
    <3>2. StartsAhead(windows, at, Min(days)) = Candidates(windows, at, Min(days))
      BY <1>2, <3>1, AheadAreCandidates
    <3>3. found = Min(Candidates(windows, at, Min(days)))
      BY <2>3 DEF ResolveScheduledAt
    <3>4. MillisUntilOpen(windows, at)
              = Min(StartsAhead(windows, at, Min(ahead))) - at
      BY <1>2, <2>1, <2>3 DEF MillisUntilOpen
    <3> QED
      BY <2>1, <3>2, <3>3, <3>4
  <2> QED
    BY <2>2, <2>3
<1> QED
  BY <1>1, <1>2

----------------------------------------------------------------------------
(* The notifications. *)

USE NotificationAssumption

\* A set of natural numbers that has a bound has a largest element.
LEMMA NatMaximum ==
    ASSUME NEW S \in SUBSET Nat, S # {}, NEW b \in Nat, \A x \in S : x <= b
    PROVE  /\ Max(S) \in S
           /\ \A x \in S : x <= Max(S)
<1> DEFINE Bounds == { c \in Nat : \A x \in S : x <= c }
           m == Min(Bounds)
<1>1. m \in Bounds /\ \A c \in Bounds : m <= c
  <2>1. Bounds \in SUBSET Nat /\ b \in Bounds
    OBVIOUS
  <2> HIDE DEF Bounds
  <2> QED
    BY <2>1, NatMinimum
<1> HIDE DEF m
<1>2. m \in Nat /\ \A x \in S : x <= m
  BY <1>1
<1>3. m \in S
  <2> SUFFICES ASSUME m \notin S PROVE FALSE
    OBVIOUS
  <2>1. \A x \in S : x < m
    BY <1>2
  <2>2. m - 1 \in Nat
    <3>1. PICK x \in S : x \in Nat
      OBVIOUS
    <3> QED
      BY <1>2, <2>1, <3>1
  <2>3. m - 1 \in Bounds
    BY <1>2, <2>1, <2>2
  <2> QED
    BY <1>1, <1>2, <2>3
<1> QED
  BY <1>2, <1>3 DEF Max

\* The moments a handler computes.
Bounded(rows) ==
    \E b \in Nat : \A n \in rows : n.ScheduledAt <= b

LEMMA IntervalType ==
    ASSUME NEW rate \in Nat \ {0}
    PROVE  Interval(rate) \in Nat
BY ClockAssumption DEF Interval

LEMMA ResolveType ==
    ASSUME NEW windows \in Schedules \cup {{}}, NEW t \in Nat
    PROVE  /\ ResolveScheduledAt(windows, t) \in Nat
           /\ ResolveScheduledAt(windows, t) >= t
           /\ windows # {} => Allowed(windows, ResolveScheduledAt(windows, t))
BY ResolvesToNextAllowed DEF IsNextAllowed

\* The moment the transaction of repository.Schedule gives a notification.
LEMMA SlotIsLate ==
    ASSUME NEW task \in Tasks \ {Idle}, NEW rows \in SUBSET Notifications,
           Bounded(rows), task.settings.MessagesPerMinute # 0
    PROVE  /\ Slot(task, rows) \in Nat
           /\ Slot(task, rows) >= task.now
           /\ task.settings.windows # {} =>
                  Allowed(task.settings.windows, Slot(task, rows))
           /\ \A n \in rows :
                  Slot(task, rows) >=
                      n.ScheduledAt + Interval(task.settings.MessagesPerMinute)
<1> DEFINE rate     == task.settings.MessagesPerMinute
           windows  == task.settings.windows
           resolved == ResolveScheduledAt(windows, task.now)
           moments  == { n.ScheduledAt : n \in rows }
           last     == Max(moments)
<1>1. rate \in Nat /\ windows \in Schedules \cup {{}} /\ task.now \in Nat
  BY DEF Tasks, Settings, Idle
<1>2. /\ resolved \in Nat /\ resolved >= task.now
      /\ windows # {} => Allowed(windows, resolved)
  BY <1>1, ResolveType
<1>3. CASE rows = {}
  BY <1>2, <1>3 DEF Slot
<1>4. CASE rows # {}
  <2>1. PICK b \in Nat : \A n \in rows : n.ScheduledAt <= b
    BY DEF Bounded
  <2>2. moments \in SUBSET Nat /\ moments # {} /\ \A x \in moments : x <= b
    BY <1>4, <2>1 DEF Notifications
  <2>3. last \in moments /\ \A x \in moments : x <= last
    <3> HIDE DEF moments
    <3> QED
      BY <2>2, NatMaximum
  <2>4. last \in Nat /\ \A n \in rows : n.ScheduledAt <= last
    BY <2>2, <2>3
  <2> DEFINE next == Larger(resolved, last + Interval(rate))
  <2>5. Interval(rate) \in Nat
    BY <1>1, <1>4, IntervalType
  <2> HIDE DEF last, resolved
  <2>6. next \in Nat /\ next >= resolved /\ next >= last + Interval(rate)
    BY <1>2, <2>4, <2>5 DEF Larger
  <2>7. Slot(task, rows) = ResolveScheduledAt(windows, next)
    BY <1>4 DEF Slot, last, resolved
  <2> HIDE DEF next
  <2>8. /\ Slot(task, rows) \in Nat /\ Slot(task, rows) >= next
        /\ windows # {} => Allowed(windows, Slot(task, rows))
    BY <1>1, <2>6, <2>7, ResolveType
  <2>9. \A n \in rows : n.ScheduledAt \in Nat
    BY DEF Notifications
  <2> QED
    BY <1>1, <1>2, <2>4, <2>5, <2>6, <2>8, <2>9
<1> QED
  BY <1>3, <1>4

----------------------------------------------------------------------------
\* The rows: a latest moment, ids given in order and once, a rate's distance from
\* what each saw, and each saw what its own handler had inserted before it.
LatestExists == Bounded(notifications)
IdsInOrder   == \A n \in notifications : n.id <= inserted
IdsDiffer    == \A n, p \in notifications : n.id = p.id => n = p
Spaced ==
    \A n, p \in notifications :
        n.id <= p.after /\ IsLimited(p) => ~TooClose(n, p)
OwnIsSeen ==
    \A n, p \in notifications :
        n.by = p.by /\ n.id < p.id /\ IsLimited(p) => n.id <= p.after

SeenIsThere ==
    \A n \in notifications : IsLimited(n) => n.after <= inserted

RowsInv ==
    /\ LatestExists /\ IdsInOrder /\ IdsDiffer
    /\ SeenIsThere /\ Spaced /\ OwnIsSeen
    /\ DueWhenAllowed

\* Only a notification with a send_at is looked up before it is inserted.
CountedIsExact ==
    \A h \in Handlers : handler[h].step = "counted" => IsExact(handler[h])

\* What task t of handler h has computed in its transaction still holds of the
\* rows it saw.
Kept(t, h) ==
    /\ t.settings.MessagesPerMinute # 0
    /\ t.ScheduledAt >= t.now
    /\ t.settings.windows # {} => Allowed(t.settings.windows, t.ScheduledAt)
    /\ t.after <= inserted
    /\ \A n \in notifications : n.id <= t.after =>
           t.ScheduledAt >= n.ScheduledAt + Interval(t.settings.MessagesPerMinute)
    /\ \A n \in notifications : n.by = h => n.id <= t.after

LimitedKeep ==
    \A h \in Handlers : handler[h].step = "limited" => Kept(handler[h], h)

Inv == TypeOK /\ CountedIsExact /\ LimitedKeep /\ RowsInv

LEMMA TaskType ==
    ASSUME NEW task \in Tasks, task.step # "idle"
    PROVE  /\ task # Idle
           /\ task.settings.MessagesPerMinute \in Nat
           /\ task.settings.MessagesPerMinute \in Rates
           /\ task.settings.windows \in Schedules \cup {{}}
           /\ task.now \in Nat
           /\ task.event.message \in Messages
           /\ task.event.sendAt \in SendTimes \cup {NoTime}
           /\ task.id \in Nat
           /\ task.ScheduledAt \in Nat
           /\ task.after \in Nat
<1>1. task # Idle
  BY DEF Idle
<1> QED
  BY <1>1 DEF Tasks, Settings, Events

\* A task that has found its moment, or inserted its row, or found that it need
\* not.
LEMMA DispatchTask ==
    ASSUME NEW task \in Tasks \ {Idle}, NEW id \in Nat, NEW at \in Nat
    PROVE  /\ [task EXCEPT !.step = "dispatch", !.id = id,
                           !.ScheduledAt = at] \in Tasks
           /\ [task EXCEPT !.step = "dispatch", !.ScheduledAt = at] \in Tasks
           /\ [task EXCEPT !.step = "limited", !.ScheduledAt = at,
                           !.after = id] \in Tasks
<1> DEFINE Busy == [step : {"loaded", "limited", "counted", "dispatch"},
                    event : Events, settings : Settings, now : Nat,
                    duplicate : BOOLEAN, id : Nat, ScheduledAt : Nat, after : Nat]
<1>1. task \in Busy
  BY DEF Tasks
<1>2. /\ [task EXCEPT !.step = "dispatch", !.id = id,
                      !.ScheduledAt = at] \in Busy
      /\ [task EXCEPT !.step = "dispatch", !.ScheduledAt = at] \in Busy
      /\ [task EXCEPT !.step = "limited", !.ScheduledAt = at,
                      !.after = id] \in Busy
  BY <1>1
<1>3. Busy \subseteq Tasks
  BY DEF Tasks
<1> QED
  BY <1>2, <1>3

\* What other handlers have computed stands, whichever rows come or go: a new one
\* has an id they have not seen.
LEMMA KeptStays ==
    ASSUME NEW t, NEW h, Kept(t, h), inserted \in Nat, inserted' \in Nat,
           inserted <= inserted', t.after \in Nat,
           \A x \in notifications' :
               \/ x.id = inserted + 1 /\ x.by # h
               \/ \E n \in notifications :
                      x.id = n.id /\ x.ScheduledAt = n.ScheduledAt /\ x.by = n.by
    PROVE  /\ t.settings.MessagesPerMinute # 0
           /\ t.ScheduledAt >= t.now
           /\ t.settings.windows # {} => Allowed(t.settings.windows, t.ScheduledAt)
           /\ t.after <= inserted'
           /\ \A n \in notifications' : n.id <= t.after =>
                  t.ScheduledAt >= n.ScheduledAt + Interval(t.settings.MessagesPerMinute)
           /\ \A n \in notifications' : n.by = h => n.id <= t.after
BY DEF Kept

\* A row is inserted: late enough, allowed, and at the rate's distance from what
\* its transaction saw.
LEMMA InsertKeeps ==
    ASSUME Inv, NEW h \in Handlers, handler[h].step # "idle",
           NEW at \in Nat, NEW exact \in BOOLEAN, NEW notBefore \in Nat,
           at >= notBefore,
           handler[h].settings.windows # {} =>
               Allowed(handler[h].settings.windows, at),
           ~exact /\ handler[h].settings.MessagesPerMinute # 0 =>
               /\ at = handler[h].ScheduledAt
               /\ Kept(handler[h], h),
           Insert(h, at, exact, notBefore)
    PROVE  /\ notifications' \subseteq Notifications
           /\ inserted' \in Nat
           /\ handler' \in [Handlers -> Tasks]
           /\ CountedIsExact'
           /\ LimitedKeep'
           /\ RowsInv'
<1> DEFINE rate    == handler[h].settings.MessagesPerMinute
           windows == handler[h].settings.windows
           seen    == handler[h].after
           new     == [id |-> inserted + 1, message |-> handler[h].event.message,
                       status |-> "pending", ScheduledAt |-> at, rate |-> rate,
                       exact |-> exact, windows |-> windows,
                       notBefore |-> notBefore, by |-> h, after |-> seen]
<1>1. /\ handler[h] \in Tasks /\ handler[h] # Idle
      /\ rate \in Rates /\ rate \in Nat /\ windows \in Schedules \cup {{}}
      /\ handler[h].event.message \in Messages /\ seen \in Nat
  BY TaskType DEF Inv, TypeOK
<1>2. inserted \in Nat /\ notifications \subseteq Notifications
  BY DEF Inv, TypeOK
<1>3. new \in Notifications
  BY <1>1, <1>2 DEF Notifications
<1>4. notifications' = notifications \cup {new} /\ inserted' = inserted + 1
  BY DEF Insert
<1>5. new.id = inserted + 1 /\ new.ScheduledAt = at /\ new.rate = rate
      /\ new.exact = exact /\ new.windows = windows /\ new.notBefore = notBefore
      /\ new.by = h /\ new.after = seen
  OBVIOUS
<1> HIDE DEF new
<1>6. \A n \in notifications : n.ScheduledAt \in Nat /\ n.id \in Nat
  BY <1>2 DEF Notifications
<1>7. \A n \in notifications : n.id < new.id
  BY <1>2, <1>5, <1>6 DEF Inv, RowsInv, IdsInOrder
<1>8. handler' = [handler EXCEPT ![h] =
          [handler[h] EXCEPT !.step = "dispatch", !.id = inserted + 1,
                             !.ScheduledAt = at]]
  BY DEF Insert
<1>9. handler' \in [Handlers -> Tasks] /\ handler'[h].step = "dispatch"
  <2>1. [handler[h] EXCEPT !.step = "dispatch", !.id = inserted + 1,
                           !.ScheduledAt = at] \in Tasks
    <3>1. handler[h] \in Tasks \ {Idle} /\ inserted + 1 \in Nat
      BY <1>1, <1>2
    <3> QED
      BY <3>1, DispatchTask, Zenon
  <2>2. handler' \in [Handlers -> Tasks]
    BY <1>8, <2>1 DEF Inv, TypeOK
  <2>3. handler[h] \in [step : {"loaded", "limited", "counted", "dispatch"},
            event : Events, settings : Settings, now : Nat,
            duplicate : BOOLEAN, id : Nat, ScheduledAt : Nat, after : Nat]
    BY <1>1 DEF Tasks
  <2>4. handler'[h].step = "dispatch"
    BY <1>8, <2>3 DEF Inv, TypeOK
  <2> QED
    BY <2>2, <2>4
<1>10. CountedIsExact'
  BY <1>8, <1>9 DEF Inv, TypeOK, CountedIsExact, IsExact
<1>11. LimitedKeep'
  <2> SUFFICES ASSUME NEW g \in Handlers, handler'[g].step = "limited"
               PROVE  Kept(handler[g], g)'
    BY DEF LimitedKeep
  <2>1. g # h /\ handler'[g] = handler[g]
    BY <1>8, <1>9 DEF Inv, TypeOK
  <2>2. Kept(handler[g], g) /\ handler[g].after \in Nat
    BY <2>1, TaskType DEF Inv, TypeOK, LimitedKeep
  <2>3. \A x \in notifications' :
            \/ x.id = inserted + 1 /\ x.by # g
            \/ \E n \in notifications :
                   x.id = n.id /\ x.ScheduledAt = n.ScheduledAt /\ x.by = n.by
    BY <1>4, <1>5, <2>1
  <2> QED
    BY <1>2, <1>4, <2>1, <2>2, <2>3, KeptStays DEF Kept
<1>12. LatestExists'
  <2>1. PICK b \in Nat : \A n \in notifications : n.ScheduledAt <= b
    BY DEF Inv, RowsInv, LatestExists, Bounded
  <2>2. b + at \in Nat /\ \A n \in notifications' : n.ScheduledAt <= b + at
    BY <1>4, <1>5, <1>6, <2>1
  <2> QED
    BY <2>2 DEF LatestExists, Bounded
<1>13. IdsInOrder' /\ IdsDiffer'
  BY <1>2, <1>4, <1>5, <1>6, <1>7 DEF Inv, RowsInv, IdsInOrder, IdsDiffer
<1>14. IsLimited(new) =>
           /\ seen <= inserted
           /\ \A n \in notifications : n.id <= seen => ~TooClose(n, new)
           /\ \A n \in notifications : n.by = h => n.id <= seen
  <2> SUFFICES ASSUME IsLimited(new)
               PROVE  /\ seen <= inserted
                      /\ \A n \in notifications : n.id <= seen => ~TooClose(n, new)
                      /\ \A n \in notifications : n.by = h => n.id <= seen
    OBVIOUS
  <2>1. ~exact /\ rate # 0
    BY <1>5 DEF IsLimited
  <2>2. Kept(handler[h], h) /\ at = handler[h].ScheduledAt
    BY <2>1
  <2>3. Interval(rate) \in Nat
    BY <1>1, <2>1, IntervalType
  <2> QED
    BY <1>5, <1>6, <2>2, <2>3 DEF Kept, TooClose
<1>15. Spaced'
  <2> SUFFICES ASSUME NEW n \in notifications', NEW p \in notifications',
                      n.id <= p.after, IsLimited(p)
               PROVE  ~TooClose(n, p)
    BY DEF Spaced
  <2>1. CASE p \in notifications
    <3>1. p.after \in Nat /\ p.after <= inserted
      BY <1>2, <2>1 DEF Inv, RowsInv, SeenIsThere, Notifications
    <3>2. n \in notifications
      BY <1>2, <1>4, <1>5, <3>1
    <3> QED
      BY <2>1, <3>2 DEF Inv, RowsInv, Spaced
  <2>2. CASE p = new
    <3>1. n \in notifications
      BY <1>1, <1>2, <1>4, <1>5, <1>14, <2>2
    <3> QED
      BY <1>5, <1>14, <2>2, <3>1
  <2> QED
    BY <1>4, <2>1, <2>2
<1>16. SeenIsThere'
  <2>1. IsLimited(new) => new.after <= inserted + 1
    BY <1>1, <1>2, <1>5, <1>14
  <2>2. \A p \in notifications : IsLimited(p) => p.after <= inserted + 1
    BY <1>2 DEF Inv, RowsInv, SeenIsThere, Notifications
  <2> QED
    BY <1>4, <2>1, <2>2 DEF SeenIsThere
<1>17. OwnIsSeen'
  <2> SUFFICES ASSUME NEW n \in notifications', NEW p \in notifications',
                      n.by = p.by, n.id < p.id, IsLimited(p)
               PROVE  n.id <= p.after
    BY DEF OwnIsSeen
  <2>1. CASE p \in notifications
    <3>1. n \in notifications
      BY <1>2, <1>4, <1>5, <1>6, <1>7, <2>1
    <3> QED
      BY <2>1, <3>1 DEF Inv, RowsInv, OwnIsSeen
  <2>2. CASE p = new
    <3>1. n \in notifications
      BY <1>2, <1>4, <1>5, <2>2
    <3> QED
      BY <1>5, <1>14, <2>2, <3>1
  <2> QED
    BY <1>4, <2>1, <2>2
<1>18. DueWhenAllowed'
  <2> SUFFICES ASSUME NEW n \in notifications'
               PROVE  /\ n.ScheduledAt >= n.notBefore
                      /\ n.windows # {} => Allowed(n.windows, n.ScheduledAt)
    BY DEF DueWhenAllowed
  <2>1. CASE n \in notifications
    BY <2>1 DEF Inv, RowsInv, DueWhenAllowed
  <2>2. CASE n = new
    BY <1>5, <2>2
  <2> QED
    BY <1>4, <2>1, <2>2
<1> QED
  BY <1>2, <1>3, <1>4, <1>9, <1>10, <1>11, <1>12, <1>13, <1>15, <1>16, <1>17,
     <1>18 DEF RowsInv

\* Rows lose nothing of this when they are removed or their status changes.
LEMMA FewerRowsKeep ==
    ASSUME Inv, UNCHANGED <<inserted, handler>>, IdsDiffer',
           \A x \in notifications' : \E n \in notifications :
               /\ x.id = n.id /\ x.ScheduledAt = n.ScheduledAt /\ x.rate = n.rate
               /\ x.exact = n.exact /\ x.windows = n.windows
               /\ x.notBefore = n.notBefore /\ x.by = n.by /\ x.after = n.after
    PROVE  RowsInv' /\ LimitedKeep'
<1>1. LatestExists'
  BY DEF Inv, RowsInv, LatestExists, Bounded
<1>2. IdsInOrder' /\ SeenIsThere'
  BY DEF Inv, RowsInv, IdsInOrder, SeenIsThere, IsLimited
<1>3. Spaced'
  BY DEF Inv, RowsInv, Spaced, IsLimited, TooClose
<1>4. OwnIsSeen'
  BY DEF Inv, RowsInv, OwnIsSeen, IsLimited
<1>5. DueWhenAllowed'
  BY DEF Inv, RowsInv, DueWhenAllowed
<1>6. LimitedKeep'
  <2> SUFFICES ASSUME NEW h \in Handlers, handler[h].step = "limited"
               PROVE  Kept(handler[h], h)'
    BY DEF LimitedKeep
  <2>1. Kept(handler[h], h) /\ handler[h].after \in Nat /\ inserted \in Nat
    BY TaskType DEF Inv, TypeOK, LimitedKeep
  <2>2. \A x \in notifications' : \E n \in notifications :
            x.id = n.id /\ x.ScheduledAt = n.ScheduledAt /\ x.by = n.by
    OBVIOUS
  <2> QED
    BY <2>1, <2>2, KeptStays DEF Kept
<1> QED
  BY <1>1, <1>2, <1>3, <1>4, <1>5, <1>6 DEF RowsInv

LEMMA UpdateStatusKeeps ==
    ASSUME Inv, UNCHANGED <<inserted, handler>>, NEW id \in Nat,
           NEW status \in {"sent", "failed"}, UpdateStatus(id, status)
    PROVE  notifications' \subseteq Notifications /\ RowsInv' /\ LimitedKeep'
<1> DEFINE Set(n) == IF n.id = id THEN [n EXCEPT !.status = status] ELSE n
<1>1. notifications \subseteq Notifications
  BY DEF Inv, TypeOK
<1>2. \A n \in notifications :
          LET x == Set(n)
          IN  /\ x \in Notifications
              /\ x.id = n.id /\ x.ScheduledAt = n.ScheduledAt /\ x.rate = n.rate
              /\ x.exact = n.exact /\ x.windows = n.windows
              /\ x.notBefore = n.notBefore /\ x.by = n.by /\ x.after = n.after
  BY <1>1 DEF Notifications
<1>3. notifications' = { Set(n) : n \in notifications }
  BY DEF UpdateStatus
<1> HIDE DEF Set
<1>4. IdsDiffer'
  BY <1>2, <1>3 DEF Inv, RowsInv, IdsDiffer
<1>5. RowsInv' /\ LimitedKeep'
  BY <1>2, <1>3, <1>4, FewerRowsKeep
<1> QED
  BY <1>2, <1>3, <1>5

----------------------------------------------------------------------------
\* Events, and the times they are queued for.
LEMMA EventType ==
    ASSUME NEW type \in ScheduleEvents \cup
                            {NotificationSend, "message.api.deleted"},
           NEW m \in Messages, NEW sendAt \in SendTimes \cup {NoTime},
           NEW id \in Nat, NEW due \in Nat
    PROVE  Event(type, m, sendAt, id, due) \in Events
BY DEF Event, Events

LEMMA EventFields ==
    ASSUME NEW e \in Events
    PROVE  e.message \in Messages /\ e.id \in Nat /\ e.due \in Nat
BY DEF Events

LEMMA SendDelayType ==
    ASSUME TypeOK, NEW sendAt \in SendTimes \cup {NoTime}, NEW index \in 0..MaxIndex
    PROVE  SendDelay(sendAt, index) \in Nat
<1>1. now \in Nat /\ settings.MessagesPerMinute \in Nat
  BY DEF TypeOK, Settings
<1>2. CASE sendAt # NoTime /\ sendAt > now
  BY <1>1, <1>2 DEF SendDelay, NoTime
<1>3. CASE sendAt = NoTime /\ settings.MessagesPerMinute > 0
  <2>1. index * SecondsPerMinute \in Nat
    BY ClockAssumption
  <2>2. (index * SecondsPerMinute) \div settings.MessagesPerMinute \in Nat
    <3> DEFINE n == index * SecondsPerMinute
               d == settings.MessagesPerMinute
    <3>1. n \in Nat /\ d \in Nat /\ d > 0
      BY <1>1, <1>3, <2>1
    <3> HIDE DEF n, d
    <3>2. n \div d \in Nat
      BY <3>1
    <3> QED
      BY <3>2 DEF n, d
  <2>3. SendDelay(sendAt, index) =
            (index * SecondsPerMinute) \div settings.MessagesPerMinute
    BY <1>3 DEF SendDelay
  <2> QED
    BY <2>2, <2>3
<1>4. CASE ~(sendAt # NoTime /\ sendAt > now)
           /\ ~(sendAt = NoTime /\ settings.MessagesPerMinute > 0)
  BY <1>4 DEF SendDelay
<1> QED
  BY <1>2, <1>3, <1>4

LEMMA TakeType ==
    ASSUME TypeOK, NEW e \in queue, Take(e)
    PROVE  queue' \subseteq Events /\ faults' \in Nat
BY DEF TypeOK, Take, Fault

\* The other two invariants depend on the handlers and the rows only.
LEMMA SameHandlersKeep ==
    ASSUME CountedIsExact, UNCHANGED handler
    PROVE  CountedIsExact'
BY DEF CountedIsExact, IsExact

LEMMA SameRowsKeep ==
    ASSUME RowsInv, UNCHANGED <<notifications, inserted>>
    PROVE  RowsInv'
BY DEF RowsInv, LatestExists, Bounded, IdsInOrder, IdsDiffer, SeenIsThere, Spaced,
       OwnIsSeen, DueWhenAllowed, IsLimited, TooClose

LEMMA SameTasksKeep ==
    ASSUME LimitedKeep, UNCHANGED <<notifications, inserted>>,
           \A h \in Handlers : handler'[h].step = "limited" => handler'[h] = handler[h]
    PROVE  LimitedKeep'
BY DEF LimitedKeep, Kept

----------------------------------------------------------------------------
\* What a phone can be given is a setting like those handlers read.
LEMMA PhoneSettings ==
    [MessagesPerMinute : Rates, windows : Schedules] \subseteq Settings
BY DEF Settings

LEMMA Initially == Init => Inv
<1> SUFFICES ASSUME Init PROVE Inv
  OBVIOUS
<1>1. TypeOK
  BY PhoneSettings DEF Init, TypeOK, Tasks
<1>2. RowsInv
  BY DEF Init, RowsInv, LatestExists, Bounded, IdsInOrder, IdsDiffer,
         SeenIsThere, Spaced, OwnIsSeen, DueWhenAllowed
<1>3. CountedIsExact /\ LimitedKeep
  BY DEF Init, CountedIsExact, LimitedKeep, Idle
<1> QED
  BY <1>1, <1>2, <1>3 DEF Inv

LEMMA UserStep ==
    ASSUME Inv,
           \/ Tick \/ UpdateSettings
           \/ \E m \in Messages :
                  SendMessage(m) \/ RetryMessage(m) \/ DeleteMessage(m)
    PROVE  Inv'
<1> USE DEF Inv
<1>1. CASE Tick
  <2>1. TypeOK'
    BY <1>1 DEF Tick, TypeOK
  <2>2. CountedIsExact' /\ RowsInv' /\ LimitedKeep'
    BY <1>1, SameRowsKeep, SameHandlersKeep, SameTasksKeep DEF Tick
  <2> QED
    BY <2>1, <2>2
<1>2. CASE UpdateSettings
  <2>1. TypeOK'
    BY <1>2, PhoneSettings DEF UpdateSettings, TypeOK
  <2>2. CountedIsExact' /\ RowsInv' /\ LimitedKeep'
    BY <1>2, SameRowsKeep, SameHandlersKeep, SameTasksKeep DEF UpdateSettings
  <2> QED
    BY <2>1, <2>2
<1>3. ASSUME NEW m \in Messages, SendMessage(m) PROVE Inv'
  <2>1. PICK sendAt \in SendTimes \cup {NoTime}, index \in 0..MaxIndex :
            queue' = queue \cup {Event("message.api.sent", m, sendAt, NoRow,
                                       now + SendDelay(sendAt, index))}
    BY <1>3 DEF SendMessage
  <2>2. now + SendDelay(sendAt, index) \in Nat
    BY SendDelayType DEF TypeOK
  <2>3. queue' \subseteq Events
    <3>1. Event("message.api.sent", m, sendAt, NoRow,
                now + SendDelay(sendAt, index)) \in Events
      BY <2>2, EventType DEF NoRow, ScheduleEvents
    <3> QED
      BY <2>1, <3>1 DEF TypeOK
  <2>4. TypeOK'
    BY <1>3, <2>3 DEF SendMessage, TypeOK
  <2>5. CountedIsExact' /\ RowsInv' /\ LimitedKeep'
    BY <1>3, SameRowsKeep, SameHandlersKeep, SameTasksKeep DEF SendMessage
  <2> QED
    BY <2>4, <2>5
<1>4. ASSUME NEW m \in Messages, RetryMessage(m) PROVE Inv'
  <2>1. queue' \subseteq Events
    <3>1. Event("message.send.retry", m, NoTime, NoRow, now) \in Events
      BY EventType DEF TypeOK, NoRow, ScheduleEvents
    <3> QED
      BY <1>4, <3>1 DEF RetryMessage, TypeOK
  <2>2. TypeOK'
    BY <1>4, <2>1 DEF RetryMessage, TypeOK
  <2>3. CountedIsExact' /\ RowsInv' /\ LimitedKeep'
    BY <1>4, SameRowsKeep, SameHandlersKeep, SameTasksKeep DEF RetryMessage
  <2> QED
    BY <2>2, <2>3
<1>5. ASSUME NEW m \in Messages, DeleteMessage(m) PROVE Inv'
  <2>1. queue' \subseteq Events
    <3>1. Event("message.api.deleted", m, NoTime, NoRow, now) \in Events
      BY EventType DEF TypeOK, NoRow
    <3> QED
      BY <1>5, <3>1 DEF DeleteMessage, TypeOK
  <2>2. TypeOK'
    BY <1>5, <2>1 DEF DeleteMessage, TypeOK
  <2>3. CountedIsExact' /\ RowsInv' /\ LimitedKeep'
    BY <1>5, SameRowsKeep, SameHandlersKeep, SameTasksKeep DEF DeleteMessage
  <2> QED
    BY <2>2, <2>3
<1> QED
  BY <1>1, <1>2, <1>3, <1>4, <1>5

\* The steps of a handler that inserts nothing.
LEMMA HandlerStep ==
    ASSUME Inv, NEW h \in Handlers,
           \/ LoadPhone(h) \/ LoadPhoneWithoutWindows(h)
           \/ CountPending(h) \/ DispatchSend(h) \/ Abandon(h)
    PROVE  Inv'
<1> USE DEF Inv
<1>1. CASE LoadPhone(h)
  <2>1. PICK e \in queue :
            /\ Take(e) /\ e.type \in ScheduleEvents
            /\ handler' = [handler EXCEPT ![h] =
                   [step |-> "loaded", event |-> e, settings |-> settings,
                    now |-> now, duplicate |-> FALSE, id |-> NoRow,
                    ScheduledAt |-> 0, after |-> NoRow]]
    BY <1>1 DEF LoadPhone, Due
  <2>2. handler' \in [Handlers -> Tasks]
    BY <2>1 DEF TypeOK, Tasks, NoRow
  <2>3. TypeOK'
    BY <1>1, <2>1, <2>2, TakeType DEF LoadPhone, TypeOK
  <2>4. RowsInv' /\ LimitedKeep'
    BY <1>1, SameRowsKeep, SameTasksKeep DEF LoadPhone, TypeOK, Idle
  <2>5. CountedIsExact'
    BY <1>1 DEF LoadPhone, TypeOK, CountedIsExact, IsExact, Idle
  <2> QED
    BY <2>3, <2>4, <2>5
<1>2. CASE CountPending(h)
  <2>1. handler[h] \in Tasks /\ handler[h] # Idle
    BY <1>2, TaskType DEF CountPending, TypeOK, IsExact
  <2>2. \A d \in BOOLEAN : [handler[h] EXCEPT !.step = "counted",
                                              !.duplicate = d] \in Tasks
    BY <2>1 DEF Tasks
  <2>3. handler' \in [Handlers -> Tasks]
    BY <1>2, <2>2 DEF CountPending, TypeOK
  <2>4. TypeOK'
    BY <1>2, <2>3 DEF CountPending, TypeOK
  <2>5. RowsInv' /\ LimitedKeep'
    <3>1. handler[h] \in [step : {"loaded", "limited", "counted", "dispatch"},
              event : Events, settings : Settings, now : Nat,
              duplicate : BOOLEAN, id : Nat, ScheduledAt : Nat, after : Nat]
      BY <2>1 DEF Tasks
    <3>2. \A g \in Handlers :
              handler'[g].step = "limited" => handler'[g] = handler[g]
      BY <1>2, <3>1 DEF CountPending, TypeOK
    <3> QED
      BY <1>2, <3>2, SameRowsKeep, SameTasksKeep DEF CountPending
  <2>6. CountedIsExact'
    BY <1>2 DEF CountPending, TypeOK, CountedIsExact, IsExact, Idle
  <2> QED
    BY <2>4, <2>5, <2>6
<1>3. CASE DispatchSend(h)
  <2>1. /\ handler[h].event.message \in Messages
        /\ handler[h].id \in Nat /\ handler[h].ScheduledAt \in Nat
    BY <1>3, TaskType DEF DispatchSend, TypeOK
  <2>2. queue' \subseteq Events
    <3>1. Event(NotificationSend, handler[h].event.message, NoTime,
                handler[h].id, handler[h].ScheduledAt) \in Events
      BY <2>1, EventType
    <3> QED
      BY <1>3, <3>1 DEF DispatchSend, TypeOK
  <2>3. TypeOK'
    BY <1>3, <2>2 DEF DispatchSend, TypeOK, Tasks
  <2>4. RowsInv' /\ LimitedKeep'
    BY <1>3, SameRowsKeep, SameTasksKeep DEF DispatchSend, TypeOK, Idle
  <2>5. CountedIsExact'
    BY <1>3 DEF DispatchSend, TypeOK, CountedIsExact, IsExact, Idle
  <2> QED
    BY <2>3, <2>4, <2>5
<1>4. CASE Abandon(h)
  <2>1. TypeOK'
    BY <1>4 DEF Abandon, Fault, TypeOK, Tasks
  <2>2. RowsInv' /\ LimitedKeep'
    BY <1>4, SameRowsKeep, SameTasksKeep DEF Abandon, TypeOK, Idle
  <2>3. CountedIsExact'
    BY <1>4 DEF Abandon, TypeOK, CountedIsExact, IsExact, Idle
  <2> QED
    BY <2>1, <2>2, <2>3
<1>5. CASE LoadPhoneWithoutWindows(h)
  <2>1. PICK e \in queue :
            /\ queue' = queue \ {e}
            /\ handler' = [handler EXCEPT ![h] =
                   [step |-> "loaded", event |-> e,
                    settings |-> [settings EXCEPT !.windows = {}],
                    now |-> now, duplicate |-> FALSE, id |-> NoRow,
                    ScheduledAt |-> 0, after |-> NoRow]]
    BY <1>5 DEF LoadPhoneWithoutWindows
  <2>2. [settings EXCEPT !.windows = {}] \in Settings
    BY DEF TypeOK, Settings
  <2>3. handler' \in [Handlers -> Tasks]
    BY <2>1, <2>2 DEF TypeOK, Tasks, NoRow
  <2>4. TypeOK'
    BY <1>5, <2>1, <2>3 DEF LoadPhoneWithoutWindows, Fault, TypeOK
  <2>5. RowsInv' /\ LimitedKeep'
    BY <1>5, SameRowsKeep, SameTasksKeep DEF LoadPhoneWithoutWindows, TypeOK, Idle
  <2>6. CountedIsExact'
    BY <1>5 DEF LoadPhoneWithoutWindows, TypeOK, CountedIsExact, IsExact, Idle
  <2> QED
    BY <2>4, <2>5, <2>6
<1> QED
  BY <1>1, <1>2, <1>3, <1>4, <1>5

\* Without a rate the row only has to be allowed.
LEMMA ScheduleUnlimitedStep ==
    ASSUME Inv, NEW h \in Handlers, ScheduleUnlimited(h)
    PROVE  Inv'
<1>1. TypeOK
  BY DEF Inv
<1>2. /\ handler[h] \in Tasks \ {Idle} /\ handler[h].now \in Nat
      /\ handler[h].step # "idle" /\ handler[h].settings.MessagesPerMinute = 0
      /\ handler[h].settings.windows \in Schedules \cup {{}}
  BY <1>1, TaskType DEF ScheduleUnlimited, IsLimitedTask, TypeOK
<1> DEFINE at == ResolveScheduledAt(handler[h].settings.windows, handler[h].now)
<1>3. /\ at \in Nat /\ at >= handler[h].now
      /\ handler[h].settings.windows # {} =>
             Allowed(handler[h].settings.windows, at)
  BY <1>2, ResolveType
<1>4. Insert(h, at, FALSE, handler[h].now)
  BY DEF ScheduleUnlimited
<1> HIDE DEF at
<1>5. /\ notifications' \subseteq Notifications /\ inserted' \in Nat
      /\ handler' \in [Handlers -> Tasks] /\ CountedIsExact' /\ LimitedKeep'
      /\ RowsInv'
  BY <1>2, <1>3, <1>4, InsertKeeps
<1>6. TypeOK'
  BY <1>1, <1>5 DEF ScheduleUnlimited, TypeOK
<1> QED
  BY <1>5, <1>6 DEF Inv

\* The transaction has read the last row: SlotIsLate says its moment keeps the
\* distance from all there are.
LEMMA LoadLastNotificationStep ==
    ASSUME Inv, NEW h \in Handlers, LoadLastNotification(h)
    PROVE  Inv'
<1>1. TypeOK /\ RowsInv /\ CountedIsExact /\ LimitedKeep
  BY DEF Inv
<1>2. /\ handler[h] \in Tasks \ {Idle} /\ handler[h].now \in Nat
      /\ handler[h].settings.MessagesPerMinute # 0 /\ inserted \in Nat
  BY <1>1, TaskType DEF LoadLastNotification, IsLimitedTask, TypeOK
<1> DEFINE at   == Slot(handler[h], notifications)
           task == [handler[h] EXCEPT !.step = "limited", !.ScheduledAt = at,
                                      !.after = inserted]
<1>3. /\ at \in Nat /\ at >= handler[h].now
      /\ handler[h].settings.windows # {} =>
             Allowed(handler[h].settings.windows, at)
      /\ \A n \in notifications :
             at >= n.ScheduledAt + Interval(handler[h].settings.MessagesPerMinute)
  BY <1>1, <1>2, SlotIsLate DEF TypeOK, RowsInv, LatestExists
<1>4. handler' = [handler EXCEPT ![h] = task]
  BY DEF LoadLastNotification
<1>5. /\ task.settings = handler[h].settings /\ task.now = handler[h].now
      /\ task.ScheduledAt = at /\ task.after = inserted /\ task.step = "limited"
  <2>1. handler[h] \in [step : {"loaded", "limited", "counted", "dispatch"},
            event : Events, settings : Settings, now : Nat,
            duplicate : BOOLEAN, id : Nat, ScheduledAt : Nat, after : Nat]
    BY <1>2 DEF Tasks
  <2> HIDE DEF at
  <2> QED
    BY <2>1
<1>6. task \in Tasks
  <2> HIDE DEF at
  <2> QED
    BY <1>2, <1>3, DispatchTask, Zenon
<1> HIDE DEF at, task
<1>7. TypeOK'
  BY <1>1, <1>4, <1>6 DEF LoadLastNotification, TypeOK
<1>8. CountedIsExact'
  BY <1>1, <1>4, <1>5 DEF TypeOK, CountedIsExact, IsExact
<1>9. RowsInv'
  BY <1>1, SameRowsKeep DEF LoadLastNotification
<1>10. LimitedKeep'
  <2> SUFFICES ASSUME NEW g \in Handlers, handler'[g].step = "limited"
               PROVE  Kept(handler[g], g)'
    BY DEF LimitedKeep
  <2>1. UNCHANGED <<notifications, inserted>>
    BY DEF LoadLastNotification
  <2>2. CASE g = h
    <3>1. handler'[h] = task
      BY <1>1, <1>4 DEF TypeOK
    <3>2. \A n \in notifications : n.id <= inserted
      BY <1>1 DEF RowsInv, IdsInOrder
    <3> QED
      BY <1>2, <1>3, <1>5, <2>1, <2>2, <3>1, <3>2 DEF Kept
  <2>3. CASE g # h
    <3>1. handler'[g] = handler[g]
      BY <1>1, <1>4, <2>3 DEF TypeOK
    <3> QED
      BY <1>1, <2>1, <3>1 DEF LimitedKeep, Kept
  <2> QED
    BY <2>2, <2>3
<1> QED
  BY <1>7, <1>8, <1>9, <1>10 DEF Inv

\* ... and inserts at that moment.
LEMMA ScheduleNotificationStep ==
    ASSUME Inv, NEW h \in Handlers, ScheduleNotification(h)
    PROVE  Inv'
<1>1. TypeOK /\ LimitedKeep
  BY DEF Inv
<1>2. /\ handler[h].now \in Nat /\ handler[h].step # "idle"
      /\ handler[h].ScheduledAt \in Nat /\ Kept(handler[h], h)
  BY <1>1, TaskType DEF ScheduleNotification, TypeOK, LimitedKeep
<1> DEFINE at == handler[h].ScheduledAt
<1>3. /\ at >= handler[h].now
      /\ handler[h].settings.windows # {} =>
             Allowed(handler[h].settings.windows, at)
  BY <1>2 DEF Kept
<1>4. Insert(h, at, FALSE, handler[h].now)
  BY DEF ScheduleNotification
<1>5. /\ notifications' \subseteq Notifications /\ inserted' \in Nat
      /\ handler' \in [Handlers -> Tasks] /\ CountedIsExact' /\ LimitedKeep'
      /\ RowsInv'
  BY <1>2, <1>3, <1>4, InsertKeeps
<1>6. TypeOK'
  BY <1>1, <1>5 DEF ScheduleNotification, TypeOK
<1> QED
  BY <1>5, <1>6 DEF Inv

\* A send_at: moved to now if it has passed and out of quiet hours, never back.
LEMMA ScheduleExactStep ==
    ASSUME Inv, NEW h \in Handlers, ScheduleExact(h)
    PROVE  Inv'
<1>1. TypeOK /\ RowsInv /\ CountedIsExact /\ LimitedKeep
  BY DEF Inv
<1> DEFINE task == handler[h]
           from == Larger(task.event.sendAt, task.now)
           at   == ExactSlot(task)
<1>2. /\ task \in Tasks \ {Idle} /\ task.now \in Nat /\ task.step # "idle"
      /\ task.event.sendAt \in Nat /\ task.settings.windows \in Schedules \cup {{}}
  <2>1. task.step = "counted" /\ task \in Tasks
    BY <1>1 DEF ScheduleExact, TypeOK
  <2>2. task.event.sendAt # NoTime
    BY <1>1, <2>1 DEF CountedIsExact, IsExact
  <2> QED
    BY <2>1, <2>2, TaskType
<1>3. from \in Nat /\ from >= task.event.sendAt
  BY <1>2 DEF Larger
<1>4. /\ at \in Nat /\ at >= task.event.sendAt
      /\ task.settings.windows # {} => Allowed(task.settings.windows, at)
  <2>1. at = ResolveScheduledAt(task.settings.windows, from)
    BY DEF ExactSlot
  <2> HIDE DEF at, from, task
  <2> QED
    BY <1>2, <1>3, <2>1, ResolveType
<1>5. CASE task.duplicate
  <2>1. handler' = [handler EXCEPT ![h] =
            [handler[h] EXCEPT !.step = "dispatch", !.ScheduledAt = at]]
        /\ UNCHANGED <<notifications, inserted>>
    BY <1>5 DEF ScheduleExact
  <2> HIDE DEF at
  <2>2. [handler[h] EXCEPT !.step = "dispatch", !.ScheduledAt = at] \in Tasks
    <3>1. handler[h] \in Tasks \ {Idle} /\ 0 \in Nat
      BY <1>2
    <3> QED
      BY <1>4, <3>1, DispatchTask, Zenon
  <2>3. TypeOK'
    BY <1>1, <2>1, <2>2 DEF ScheduleExact, TypeOK
  <2>4. CountedIsExact'
    BY <1>1, <2>1 DEF TypeOK, CountedIsExact, IsExact
  <2>5. RowsInv' /\ LimitedKeep'
    <3>1. handler[h] \in [step : {"loaded", "limited", "counted", "dispatch"},
              event : Events, settings : Settings, now : Nat,
              duplicate : BOOLEAN, id : Nat, ScheduledAt : Nat, after : Nat]
      BY <1>2 DEF Tasks
    <3>2. \A g \in Handlers :
              handler'[g].step = "limited" => handler'[g] = handler[g]
      BY <1>1, <2>1, <3>1 DEF TypeOK
    <3> QED
      BY <1>1, <2>1, <3>2, SameRowsKeep, SameTasksKeep
  <2> QED
    BY <2>3, <2>4, <2>5 DEF Inv
<1>6. CASE ~task.duplicate
  <2>1. Insert(h, at, TRUE, task.event.sendAt)
    BY <1>6 DEF ScheduleExact
  <2> HIDE DEF at
  <2>2. /\ notifications' \subseteq Notifications /\ inserted' \in Nat
        /\ handler' \in [Handlers -> Tasks] /\ CountedIsExact' /\ LimitedKeep'
        /\ RowsInv'
    BY <1>2, <1>4, <2>1, InsertKeeps
  <2>3. TypeOK'
    BY <1>1, <2>2 DEF ScheduleExact, TypeOK
  <2> QED
    BY <2>2, <2>3 DEF Inv
<1> QED
  BY <1>5, <1>6

\* The pushes and the deletion, which change rows but insert none.
LEMMA DeliveryStep ==
    ASSUME Inv, Send \/ SendFails \/ SendUnrecorded \/ DeleteByMessageID
    PROVE  Inv'
<1>1. TypeOK /\ RowsInv /\ CountedIsExact /\ LimitedKeep
  BY DEF Inv
<1>2. PICK e \in queue :
          /\ Take(e) \/ (queue' = queue \ {e} /\ Fault)
          /\ UNCHANGED <<now, settings, request, inserted, handler, retries>>
          /\ \/ UpdateStatus(e.id, "sent") \/ UpdateStatus(e.id, "failed")
             \/ notifications' = { n \in notifications : n.message # e.message }
             \/ UNCHANGED notifications
  BY DEF Send, SendFails, SendUnrecorded, DeleteByMessageID
<1>3. e.id \in Nat
  BY <1>1, EventFields DEF TypeOK
<1>4. notifications' \subseteq Notifications /\ RowsInv' /\ LimitedKeep'
  <2>1. CASE UpdateStatus(e.id, "sent")
    BY <1>2, <1>3, <2>1, UpdateStatusKeeps
  <2>2. CASE UpdateStatus(e.id, "failed")
    BY <1>2, <1>3, <2>2, UpdateStatusKeeps
  <2>3. CASE \/ notifications' = { n \in notifications : n.message # e.message }
             \/ UNCHANGED notifications
    <3>1. notifications' \subseteq notifications
      BY <2>3
    <3> QED
      BY <1>1, <1>2, <3>1, FewerRowsKeep DEF TypeOK, RowsInv, IdsDiffer
  <2> QED
    BY <1>2, <2>1, <2>2, <2>3
<1>5. TypeOK'
  <2>1. queue' \subseteq Events /\ faults' \in Nat
    BY <1>1, <1>2, TakeType DEF TypeOK, Fault
  <2> QED
    BY <1>1, <1>2, <1>4, <2>1 DEF TypeOK
<1>6. CountedIsExact'
  BY <1>1, <1>2, SameHandlersKeep
<1> QED
  BY <1>4, <1>5, <1>6 DEF Inv

LEMMA Stuttering ==
    ASSUME Inv, UNCHANGED vars
    PROVE  Inv'
<1>1. TypeOK'
  BY DEF Inv, vars, TypeOK
<1>2. CountedIsExact' /\ RowsInv' /\ LimitedKeep'
  BY SameRowsKeep, SameHandlersKeep, SameTasksKeep DEF Inv, vars
<1> QED
  BY <1>1, <1>2 DEF Inv

LEMMA InvIsInductive == Inv /\ [Next]_vars => Inv'
<1> SUFFICES ASSUME Inv, [Next]_vars PROVE Inv'
  OBVIOUS
<1>1. CASE UNCHANGED vars
  BY <1>1, Stuttering
<1>2. CASE \/ Tick \/ UpdateSettings
           \/ \E m \in Messages :
                  SendMessage(m) \/ RetryMessage(m) \/ DeleteMessage(m)
  BY <1>2, UserStep
<1>3. CASE \E h \in Handlers :
               \/ LoadPhone(h) \/ LoadPhoneWithoutWindows(h)
           \/ CountPending(h) \/ DispatchSend(h) \/ Abandon(h)
  BY <1>3, HandlerStep
<1>4. CASE \E h \in Handlers :
               ScheduleUnlimited(h) \/ LoadLastNotification(h) \/ ScheduleNotification(h)
  BY <1>4, ScheduleUnlimitedStep, LoadLastNotificationStep, ScheduleNotificationStep
<1>5. CASE \E h \in Handlers : ScheduleExact(h)
  BY <1>5, ScheduleExactStep
<1>6. CASE Send \/ SendFails \/ SendUnrecorded \/ DeleteByMessageID
  BY <1>6, DeliveryStep
<1> QED
  BY <1>1, <1>2, <1>3, <1>4, <1>5, <1>6 DEF Next

LEMMA InvHolds == Spec => []Inv
BY Initially, InvIsInductive, PTL DEF Spec

----------------------------------------------------------------------------
\* Every variable keeps its type: every row, event and handler is one the code
\* could have made from the settings of some moment.
THEOREM TypeCorrect == Spec => []TypeOK
<1>1. Inv => TypeOK
  BY DEF Inv
<1> QED
  BY <1>1, InvHolds, PTL

\* Rows that are too close to one another are of different handlers.
LEMMA CrowdsAreSmall ==
    ASSUME TypeOK, RowsInv,
           NEW crowd \in SUBSET { n \in notifications : IsLimited(n) },
           \A n, p \in crowd : n.id < p.id => TooClose(n, p)
    PROVE  Cardinality(crowd) <= Cardinality(Handlers)
<1> DEFINE handlerOf == [n \in crowd |-> n.by]
<1>1. \A n \in crowd : n.by \in Handlers /\ n.id \in Nat
  BY DEF TypeOK, Notifications
<1>2. handlerOf \in [crowd -> Handlers]
  BY <1>1
<1>3. ASSUME NEW n \in crowd, NEW p \in crowd, n.by = p.by, n.id < p.id
      PROVE  FALSE
  <2>1. n.id <= p.after
    BY <1>3 DEF RowsInv, OwnIsSeen
  <2> QED
    BY <1>3, <2>1 DEF RowsInv, Spaced
<1>4. ASSUME NEW n \in crowd, NEW p \in crowd, handlerOf[n] = handlerOf[p]
      PROVE  n = p
  <2>1. ~(n.id < p.id) /\ ~(p.id < n.id)
    BY <1>3, <1>4
  <2>2. n.id = p.id
    BY <1>1, <2>1
  <2> QED
    BY <2>2 DEF RowsInv, IdsDiffer
<1>5. handlerOf \in Injection(crowd, Handlers)
  BY <1>2, <1>4 DEF Injection, IsInjective
<1> QED
  BY <1>5, FS_Injection

\* repository.Schedule keeps the rate limit's distance from every notification
\* its transaction could see, so no more of them are too close to one another
\* than handlers run at once, for any number of both and any rates and windows.
THEOREM RateKept == Spec => []RateIsKept
<1>1. Inv => RateIsKept
  BY CrowdsAreSmall DEF Inv, RowsInv, Spaced, RateIsKept
<1> QED
  BY <1>1, InvHolds, PTL

\* No notification is scheduled for quiet hours, for the past, or before its
\* send_at.
THEOREM DueAllowed == Spec => []DueWhenAllowed
<1>1. Inv => DueWhenAllowed
  BY DEF Inv, RowsInv
<1> QED
  BY <1>1, InvHolds, PTL

----------------------------------------------------------------------------
(* Nothing is forgotten.                                                    *)

\* The event of a notification: in the queue, or with the handler that will
\* queue it.
InQueue(id)  == \E e \in queue : e.type = NotificationSend /\ e.id = id
InHand(id)   == \E h \in Handlers :
                    handler[h].step = "dispatch" /\ handler[h].id = id

\* Nothing is forgotten where no new notification is pending and no event is
\* taken away or passed from a handler to the queue.
LEMMA NothingForgotten ==
    ASSUME TypeOK, PendingIsQueued, faults' = 0 => faults = 0,
           faults = 0 => \A n \in notifications' : n.status = "pending" =>
               /\ n \in notifications
               /\ InQueue(n.id) => InQueue(n.id)'
               /\ InHand(n.id) => InHand(n.id)' \/ InQueue(n.id)'
    PROVE  PendingIsQueued'
BY DEF PendingIsQueued, InQueue, InHand

\* After a fault nothing is promised.
LEMMA FaultsExcuse ==
    ASSUME TypeOK, Fault
    PROVE  PendingIsQueued'
BY DEF TypeOK, Fault, PendingIsQueued

LEMMA UserForgetsNothing ==
    ASSUME TypeOK, PendingIsQueued,
           \/ Tick \/ UpdateSettings
           \/ \E m \in Messages :
                  SendMessage(m) \/ RetryMessage(m) \/ DeleteMessage(m)
    PROVE  PendingIsQueued'
<1>1. queue \subseteq queue' /\ UNCHANGED <<notifications, handler, faults>>
  BY DEF Tick, UpdateSettings, SendMessage, RetryMessage, DeleteMessage
<1> QED
  BY <1>1 DEF PendingIsQueued

\* A handler that begins was idle, and takes an event of another kind.
LEMMA LoadForgetsNothing ==
    ASSUME TypeOK, PendingIsQueued, NEW h \in Handlers,
           LoadPhone(h) \/ LoadPhoneWithoutWindows(h)
    PROVE  PendingIsQueued'
<1>1. CASE LoadPhoneWithoutWindows(h)
  BY <1>1, FaultsExcuse DEF LoadPhoneWithoutWindows
<1>2. CASE LoadPhone(h)
  <2>1. PICK e \in queue : e.type \in ScheduleEvents /\ Take(e)
    BY <1>2 DEF LoadPhone, Due
  <2>2. CASE Fault
    BY <2>2, FaultsExcuse
  <2>3. CASE queue' = queue \ {e} /\ UNCHANGED faults
    <3>1. \A id : InQueue(id) => InQueue(id)'
      BY <2>1, <2>3 DEF InQueue, ScheduleEvents, NotificationSend
    <3>2. \A id : InHand(id) => InHand(id)'
      BY <1>2 DEF LoadPhone, InHand, Idle, TypeOK
    <3> QED
      BY <1>2, <2>3, <3>1, <3>2, NothingForgotten DEF LoadPhone
  <2> QED
    BY <2>1, <2>2, <2>3 DEF Take
<1> QED
  BY <1>1, <1>2

\* A new notification is its handler's to queue.
LEMMA InsertForgetsNothing ==
    ASSUME TypeOK, PendingIsQueued, NEW h \in Handlers,
           handler[h].step \in {"loaded", "limited", "counted"},
           NEW at, NEW exact, NEW notBefore, Insert(h, at, exact, notBefore),
           UNCHANGED <<queue, faults>>
    PROVE  PendingIsQueued'
<1>1. \A id : InHand(id) => InHand(id)'
  BY DEF Insert, InHand, TypeOK
<1>2. \A id : id = inserted + 1 => InHand(id)'
  <2>1. handler[h] \in [step : {"loaded", "limited", "counted", "dispatch"},
            event : Events, settings : Settings, now : Nat,
            duplicate : BOOLEAN, id : Nat, ScheduledAt : Nat, after : Nat]
    BY DEF TypeOK, Tasks, Idle
  <2>2. handler'[h].step = "dispatch" /\ handler'[h].id = inserted + 1
    BY <2>1 DEF Insert, TypeOK
  <2> QED
    BY <2>2 DEF InHand
<1>3. \A n \in notifications' : n \in notifications \/ n.id = inserted + 1
  BY DEF Insert
<1>4. \A id : InQueue(id) => InQueue(id)'
  BY DEF InQueue
<1>5. faults = 0 => \A n \in notifications :
          n.status = "pending" => InQueue(n.id) \/ InHand(n.id)
  BY DEF PendingIsQueued, InQueue, InHand
<1>6. faults = 0 => \A n \in notifications' :
          n.status = "pending" => InQueue(n.id)' \/ InHand(n.id)'
  BY <1>1, <1>2, <1>3, <1>4, <1>5
<1> QED
  BY <1>6 DEF PendingIsQueued, InQueue, InHand

LEMMA HandlerForgetsNothing ==
    ASSUME TypeOK, PendingIsQueued, NEW h \in Handlers,
           \/ ScheduleUnlimited(h) \/ LoadLastNotification(h)
           \/ ScheduleNotification(h) \/ CountPending(h) \/ ScheduleExact(h)
           \/ DispatchSend(h) \/ Abandon(h)
    PROVE  PendingIsQueued'
<1>1. CASE ScheduleUnlimited(h) \/ ScheduleNotification(h)
  BY <1>1, InsertForgetsNothing DEF ScheduleUnlimited, ScheduleNotification
<1>2. CASE CountPending(h)
  <2>1. \A id : InHand(id) => InHand(id)'
    BY <1>2 DEF CountPending, InHand, TypeOK
  <2> QED
    BY <1>2, <2>1, NothingForgotten DEF CountPending, InQueue
<1>3. CASE ScheduleExact(h)
  <2>1. CASE handler[h].duplicate
    <3>1. \A id : InHand(id) => InHand(id)'
      BY <1>3, <2>1 DEF ScheduleExact, InHand, TypeOK
    <3> QED
      BY <1>3, <2>1, <3>1, NothingForgotten DEF ScheduleExact, InQueue
  <2>2. CASE ~handler[h].duplicate
    BY <1>3, <2>2, InsertForgetsNothing DEF ScheduleExact
  <2> QED
    BY <2>1, <2>2
<1>4. CASE DispatchSend(h)
  <2> DEFINE e == Event(NotificationSend, handler[h].event.message, NoTime,
                        handler[h].id, handler[h].ScheduledAt)
  <2>1. e.type = NotificationSend /\ e.id = handler[h].id
    BY DEF Event
  <2>2. queue' = queue \cup {e}
    BY <1>4 DEF DispatchSend
  <2> HIDE DEF e
  <2>3. \A id : InQueue(id) => InQueue(id)'
    BY <2>2 DEF InQueue
  <2>4. \A id : InHand(id) => InHand(id)' \/ InQueue(id)'
    BY <1>4, <2>1, <2>2 DEF DispatchSend, InHand, InQueue, TypeOK
  <2> QED
    BY <1>4, <2>3, <2>4, NothingForgotten DEF DispatchSend
<1>5. CASE Abandon(h)
  BY <1>5, FaultsExcuse DEF Abandon
<1>6. CASE LoadLastNotification(h)
  <2>1. \A id : InHand(id) => InHand(id)'
    BY <1>6 DEF LoadLastNotification, InHand, TypeOK
  <2> QED
    BY <1>6, <2>1, NothingForgotten DEF LoadLastNotification, InQueue
<1> QED
  BY <1>1, <1>2, <1>3, <1>4, <1>5, <1>6

\* The event that is taken was of the rows that are no longer pending.
LEMMA SendForgetsNothing ==
    ASSUME TypeOK, PendingIsQueued, NEW e \in queue, Take(e),
           NEW status \in {"sent", "failed"}, UpdateStatus(e.id, status),
           UNCHANGED handler
    PROVE  PendingIsQueued'
<1>1. CASE Fault
  BY <1>1, FaultsExcuse
<1>2. CASE queue' = queue \ {e} /\ UNCHANGED faults
  <2>1. ASSUME NEW n \in notifications', n.status = "pending"
        PROVE  n \in notifications /\ n.id # e.id
    <3>1. PICK p \in notifications :
              n = IF p.id = e.id THEN [p EXCEPT !.status = status] ELSE p
      BY DEF UpdateStatus
    <3>2. [p EXCEPT !.status = status].status = status
      BY DEF TypeOK, Notifications
    <3>3. p.id # e.id
      BY <2>1, <3>1, <3>2
    <3> QED
      BY <3>1, <3>3
  <2>2. ASSUME NEW n \in notifications', n.status = "pending"
        PROVE  InQueue(n.id) => InQueue(n.id)'
    BY <1>2, <2>1, <2>2 DEF InQueue
  <2>3. \A id : InHand(id) => InHand(id)'
    BY DEF InHand
  <2> QED
    BY <1>2, <2>1, <2>2, <2>3, NothingForgotten
<1> QED
  BY <1>1, <1>2 DEF Take

LEMMA DeliveryForgetsNothing ==
    ASSUME TypeOK, PendingIsQueued,
           Send \/ SendFails \/ SendUnrecorded \/ DeleteByMessageID
    PROVE  PendingIsQueued'
<1>1. CASE Send \/ SendFails
  BY <1>1, SendForgetsNothing DEF Send, SendFails
<1>2. CASE SendUnrecorded
  BY <1>2, FaultsExcuse DEF SendUnrecorded
<1>3. CASE DeleteByMessageID
  <2>1. PICK e \in queue : /\ e.type = "message.api.deleted" /\ Take(e)
                           /\ notifications' \subseteq notifications
    BY <1>3 DEF DeleteByMessageID, Due
  <2>2. CASE Fault
    BY <2>2, FaultsExcuse
  <2>3. CASE queue' = queue \ {e} /\ UNCHANGED faults
    <3>1. \A id : InQueue(id) => InQueue(id)'
      BY <2>1, <2>3 DEF InQueue, NotificationSend
    <3>2. \A id : InHand(id) => InHand(id)'
      BY <1>3 DEF DeleteByMessageID, InHand
    <3> QED
      BY <2>1, <2>3, <3>1, <3>2, NothingForgotten
  <2> QED
    BY <2>1, <2>2, <2>3 DEF Take
<1> QED
  BY <1>1, <1>2, <1>3

\* A notification that is pending is on its way: schedule, scheduleExact and the
\* sending of the push lose none, whatever they overlap with, unless something
\* goes wrong.
THEOREM PendingQueued == Spec => []PendingIsQueued
<1>1. Init => PendingIsQueued
  BY DEF Init, PendingIsQueued
<1>2. TypeOK /\ PendingIsQueued /\ [Next]_vars => PendingIsQueued'
  <2> SUFFICES ASSUME TypeOK, PendingIsQueued, [Next]_vars
               PROVE  PendingIsQueued'
    OBVIOUS
  <2>1. CASE UNCHANGED vars
    BY <2>1 DEF vars, PendingIsQueued
  <2>2. CASE Next
    BY <2>2, UserForgetsNothing, LoadForgetsNothing, HandlerForgetsNothing,
       DeliveryForgetsNothing DEF Next
  <2> QED
    BY <2>1, <2>2
<1> QED
  BY <1>1, <1>2, TypeCorrect, PTL DEF Spec
=============================================================================
