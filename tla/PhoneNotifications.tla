------------------------- MODULE PhoneNotifications -------------------------
(****************************************************************************)
(* When the phone is woken: the phone_notifications table of one phone, the *)
(* handlers that put a notification in it at the next moment its rate limit *)
(* and its send schedule allow, and the delayed events that send the pushes.*)
(* The table is shared: what one message gets depends on the others.        *)
(*                                                                          *)
(* Every statement is a step.  A transaction opened without an isolation    *)
(* level runs at READ COMMITTED on PostgreSQL, so what the rate-limited     *)
(* insert read may be out of date when it inserts (on CockroachDB, which is *)
(* serializable, the two are one step: fewer behaviours).  The settings are *)
(* read before, the event that sends the push is queued after, and sent     *)
(* when the queue gets to it, at the earliest when it is due.  Whether the  *)
(* phone then fetches the message, and the retry if it does not, is         *)
(* MessageLifecycle's.                                                      *)
(****************************************************************************)
EXTENDS SendWindows, FiniteSets

CONSTANTS
    Messages,    \* the messages the phone is asked to send
    Handlers,    \* goroutines that run Schedule at the same time
    Rates,       \* values of the MessagesPerMinute setting
    Schedules,   \* values of the phone's windows
    SendTimes,   \* values of send_at
    MaxIndex,    \* highest index of a message in a bulk request
    MaxTime,     \* bound on the clock, for TLC
    MaxRetries,  \* bound on the retries MessageLifecycle asks for, for TLC
    MaxFaults    \* bound on the things that go wrong

ASSUME NotificationAssumption ==
    /\ Rates \subseteq Nat
    /\ \A windows \in Schedules : windows \subseteq Window
    /\ SendTimes \subseteq Nat
    /\ MaxIndex \in Nat
    /\ IsFiniteSet(Handlers)

VARIABLES
    now,           \* the clock
    settings,      \* the phone's MessagesPerMinute and windows
    request,       \* request[m]: "new", "accepted" or "deleted"
    queue,         \* events waiting, each for its time
    notifications, \* the rows of the phone
    inserted,      \* history: rows inserted so far
    handler,       \* handler[h]: the Schedule h is in the middle of
    retries,       \* history: retries asked for
    faults         \* history: things that have gone wrong so far

vars == <<now, settings, request, queue, notifications, inserted, handler,
          retries, faults>>

NotificationSend == "message.notification.send"
ScheduleEvents   == {"message.api.sent", "message.send.retry"}

NoTime == -1    \* no send_at
NoRow  == 0     \* the id of a notification that was not stored

Settings == [MessagesPerMinute : Rates, windows : Schedules \cup {{}}]

Events == [type : ScheduleEvents \cup {NotificationSend, "message.api.deleted"},
           message : Messages, sendAt : SendTimes \cup {NoTime}, id : Nat,
           due : Nat]

\* The rest is history: the settings the row was computed from, the moment before
\* which it may not be due, the handler that inserted it, and the id up to which
\* rows were there when its transaction looked for the last one.
Notifications == [id : Nat, message : Messages,
                  status : {"pending", "sent", "failed"}, ScheduledAt : Nat,
                  rate : Rates, exact : BOOLEAN,
                  windows : Schedules \cup {{}}, notBefore : Nat,
                  by : Handlers, after : Nat]

Idle == [step |-> "idle"]
Tasks == {Idle} \cup
    [step : {"loaded", "limited", "counted", "dispatch"}, event : Events,
     settings : Settings, now : Nat, duplicate : BOOLEAN, id : Nat,
     ScheduledAt : Nat, after : Nat]

TypeOK ==
    /\ now \in Nat
    /\ settings \in Settings
    /\ request \in [Messages -> {"new", "accepted", "deleted"}]
    /\ queue \subseteq Events
    /\ notifications \subseteq Notifications
    /\ inserted \in Nat
    /\ handler \in [Handlers -> Tasks]
    /\ retries \in Nat
    /\ faults \in Nat

Init ==
    /\ now = 0
    /\ settings \in [MessagesPerMinute : Rates, windows : Schedules]
    /\ request = [m \in Messages |-> "new"]
    /\ queue = {}
    /\ notifications = {}
    /\ inserted = 0
    /\ handler = [h \in Handlers |-> Idle]
    /\ retries = 0
    /\ faults = 0

Fault == faults < MaxFaults /\ faults' = faults + 1

Event(type, m, sendAt, id, due) ==
    [type |-> type, message |-> m, sendAt |-> sendAt, id |-> id, due |-> due]

\* An event is handled once it is due.  A task whose answer is lost is
\* delivered again: it stays in the queue.
Due(e, types) == e.type \in types /\ e.due <= now
Take(e) ==
    \/ queue' = queue \ {e} /\ UNCHANGED faults
    \/ UNCHANGED queue /\ Fault

----------------------------------------------------------------------------
(* Time and the user. *)

Tick ==
    /\ now < MaxTime
    /\ now' = now + 1
    /\ UNCHANGED <<settings, request, queue, notifications, inserted, handler,
                   retries, faults>>

\* The phone's rate or windows are edited; nothing already scheduled moves.  The
\* rate limit cannot be switched off, only left off.
UpdateSettings ==
    /\ settings' \in [MessagesPerMinute : Rates, windows : Schedules] \ {settings}
    /\ settings'.MessagesPerMinute = 0 => settings.MessagesPerMinute = 0
    /\ UNCHANGED <<now, request, queue, notifications, inserted, handler,
                   retries, faults>>

\* getSendDelay: how long message.api.sent waits in the queue.
SendDelay(sendAt, index) ==
    CASE sendAt # NoTime /\ sendAt > now -> sendAt - now
      [] sendAt = NoTime /\ settings.MessagesPerMinute > 0 ->
             (index * SecondsPerMinute) \div settings.MessagesPerMinute
      [] OTHER -> 0

\* SendMessage, the part that concerns the notifications.
SendMessage(m) ==
    /\ request[m] = "new"
    /\ request' = [request EXCEPT ![m] = "accepted"]
    /\ \E sendAt \in SendTimes \cup {NoTime}, index \in 0..MaxIndex :
           queue' = queue \cup {Event("message.api.sent", m, sendAt, NoRow,
                                      now + SendDelay(sendAt, index))}
    /\ UNCHANGED <<now, settings, notifications, inserted, handler, retries,
                   faults>>

\* MessageLifecycle retries a message whose push came to nothing.
RetryMessage(m) ==
    /\ retries < MaxRetries
    /\ request[m] = "accepted"
    /\ \E n \in notifications : n.message = m /\ n.status = "sent"
    /\ retries' = retries + 1
    /\ queue' = queue \cup {Event("message.send.retry", m, NoTime, NoRow, now)}
    /\ UNCHANGED <<now, settings, request, notifications, inserted, handler,
                   faults>>

DeleteMessage(m) ==
    /\ request[m] = "accepted"
    /\ request' = [request EXCEPT ![m] = "deleted"]
    /\ queue' = queue \cup {Event("message.api.deleted", m, NoTime, NoRow, now)}
    /\ UNCHANGED <<now, settings, notifications, inserted, handler, retries,
                   faults>>

----------------------------------------------------------------------------
(* PhoneNotificationService.Schedule. *)

\* The settings and the time are read, before anything is locked.
LoadPhone(h) ==
    /\ handler[h] = Idle
    /\ \E e \in queue :
           /\ Due(e, ScheduleEvents)
           /\ Take(e)
           /\ handler' = [handler EXCEPT ![h] =
                 [step |-> "loaded", event |-> e, settings |-> settings,
                  now |-> now, duplicate |-> FALSE, id |-> NoRow,
                  ScheduledAt |-> 0, after |-> NoRow]]
    /\ UNCHANGED <<now, settings, request, notifications, inserted, retries>>

\* quietResolveCustom: when the windows cannot be read there are none.
LoadPhoneWithoutWindows(h) ==
    /\ handler[h] = Idle
    /\ Fault
    /\ \E e \in queue :
           /\ Due(e, ScheduleEvents) /\ e.sendAt # NoTime
           /\ queue' = queue \ {e}
           /\ handler' = [handler EXCEPT ![h] =
                 [step |-> "loaded", event |-> e,
                  settings |-> [settings EXCEPT !.windows = {}],
                  now |-> now, duplicate |-> FALSE, id |-> NoRow,
                  ScheduledAt |-> 0, after |-> NoRow]]
    /\ UNCHANGED <<now, settings, request, notifications, inserted, retries>>

Larger(a, b) == IF a > b THEN a ELSE b

\* Whole seconds: 60 / messagesPerMinute is a division of integers.
Interval(rate) == SecondsPerMinute \div rate

\* Mutant: the windows are consulted before the rate limit, not after it.
SlotResolvedFirst(task, rows) ==
    LET rate     == task.settings.MessagesPerMinute
        resolved == ResolveScheduledAt(task.settings.windows, task.now)
        last     == Max({ n.ScheduledAt : n \in rows })
    IN  IF rows = {} THEN resolved ELSE Larger(resolved, last + Interval(rate))

\* Mutant: the rate limit is counted from the clock.
SlotFromNow(task, rows) ==
    LET rate == task.settings.MessagesPerMinute
    IN  ResolveScheduledAt(task.settings.windows,
            IF rows = {} THEN task.now ELSE task.now + Interval(rate))

\* repository.Schedule under a rate: the next allowed moment, or the next one
\* that keeps the rate's distance from the last notification and is allowed.
Slot(task, rows) ==
    LET rate     == task.settings.MessagesPerMinute
        resolved == ResolveScheduledAt(task.settings.windows, task.now)
        last     == Max({ n.ScheduledAt : n \in rows })
    IN  IF rows = {} THEN resolved
        ELSE ResolveScheduledAt(task.settings.windows,
                                Larger(resolved, last + Interval(rate)))

\* scheduleExact: the requested time, or now if that has passed, moved out of
\* quiet hours.
ExactSlot(task) ==
    ResolveScheduledAt(task.settings.windows,
                       Larger(task.event.sendAt, task.now))

Insert(h, scheduledAt, exact, notBefore) ==
    /\ notifications' = notifications \cup
          {[id |-> inserted + 1, message |-> handler[h].event.message,
            status |-> "pending", ScheduledAt |-> scheduledAt,
            rate |-> handler[h].settings.MessagesPerMinute, exact |-> exact,
            windows |-> handler[h].settings.windows, notBefore |-> notBefore,
            by |-> h, after |-> handler[h].after]}
    /\ inserted' = inserted + 1
    /\ handler' = [handler EXCEPT ![h].step = "dispatch",
                                  ![h].id = inserted + 1,
                                  ![h].ScheduledAt = scheduledAt]

IsExact(task) == task.event.sendAt # NoTime

IsLimitedTask(task) == ~IsExact(task) /\ task.settings.MessagesPerMinute # 0

\* repository.Schedule without a rate: one insert, of the next allowed moment.
ScheduleUnlimited(h) ==
    /\ handler[h].step = "loaded"
    /\ ~IsExact(handler[h]) /\ ~IsLimitedTask(handler[h])
    /\ Insert(h, ResolveScheduledAt(handler[h].settings.windows, handler[h].now),
              FALSE, handler[h].now)
    /\ UNCHANGED <<now, settings, request, queue, retries, faults>>

\* The transaction reads the last notification, which decides the moment, ...
LoadLastNotification(h) ==
    /\ handler[h].step = "loaded" /\ IsLimitedTask(handler[h])
    /\ handler' = [handler EXCEPT
           ![h].step = "limited",
           ![h].ScheduledAt = Slot(handler[h], notifications),
           ![h].after = inserted]
    /\ UNCHANGED <<now, settings, request, queue, notifications, inserted,
                   retries, faults>>

\* ... and inserts the new one, whatever has been inserted in between.
ScheduleNotification(h) ==
    /\ handler[h].step = "limited"
    /\ Insert(h, handler[h].ScheduledAt, FALSE, handler[h].now)
    /\ UNCHANGED <<now, settings, request, queue, retries, faults>>

\* ScheduleExact looks for a pending notification of the message first, ...
CountPending(h) ==
    /\ handler[h].step = "loaded" /\ IsExact(handler[h])
    /\ handler' = [handler EXCEPT ![h].step = "counted",
           ![h].duplicate = \E n \in notifications :
               n.message = handler[h].event.message /\ n.status = "pending"]
    /\ UNCHANGED <<now, settings, request, queue, notifications, inserted,
                   retries, faults>>

\* ... and does nothing if there is one; either way the events follow.
ScheduleExact(h) ==
    /\ handler[h].step = "counted"
    /\ LET scheduledAt == ExactSlot(handler[h])
       IN  IF handler[h].duplicate
           THEN /\ handler' = [handler EXCEPT ![h].step = "dispatch",
                                              ![h].ScheduledAt = scheduledAt]
                /\ UNCHANGED <<notifications, inserted>>
           ELSE Insert(h, scheduledAt, TRUE, handler[h].event.sendAt)
    /\ UNCHANGED <<now, settings, request, queue, retries, faults>>

\* Mutant: an event that is due at once is not queued.
DispatchLaterSend(h) ==
    /\ handler[h].step = "dispatch"
    /\ queue' = IF handler[h].ScheduledAt > now
                THEN queue \cup {Event(NotificationSend, handler[h].event.message,
                        NoTime, handler[h].id, handler[h].ScheduledAt)}
                ELSE queue
    /\ handler' = [handler EXCEPT ![h] = Idle]
    /\ UNCHANGED <<now, settings, request, notifications, inserted, retries,
                   faults>>

DispatchSend(h) ==
    /\ handler[h].step = "dispatch"
    /\ queue' = queue \cup {Event(NotificationSend, handler[h].event.message,
                        NoTime, handler[h].id, handler[h].ScheduledAt)}
    /\ handler' = [handler EXCEPT ![h] = Idle]
    /\ UNCHANGED <<now, settings, request, notifications, inserted, retries,
                   faults>>

\* The handler dies or gets an error, and its event is gone.  (The event that
\* is delivered again instead is Take's.)
Abandon(h) ==
    /\ handler[h] # Idle
    /\ Fault
    /\ handler' = [handler EXCEPT ![h] = Idle]
    /\ UNCHANGED <<now, settings, request, queue, notifications, inserted,
                   retries>>

----------------------------------------------------------------------------
(* Sending, and what deletion leaves. *)

\* Mutant: the status of the message is stored (both are strings).
UpdateStatusOfMessage(id, status) ==
    notifications' = { IF n.id = id THEN [n EXCEPT !.status = "scheduled"] ELSE n :
                           n \in notifications }

UpdateStatus(id, status) ==
    notifications' = { IF n.id = id THEN [n EXCEPT !.status = status] ELSE n :
                           n \in notifications }

\* Send: the push goes out, whatever has become of the message, its row or the
\* windows since the event was queued.
Send ==
    \E e \in queue :
        /\ Due(e, {NotificationSend})
        /\ Take(e)
        /\ UpdateStatus(e.id, "sent")
        /\ UNCHANGED <<now, settings, request, inserted, handler, retries>>

\* No phone, no token, or an error of the transport.
SendFails ==
    \E e \in queue :
        /\ Due(e, {NotificationSend})
        /\ Take(e)
        /\ UpdateStatus(e.id, "failed")
        /\ UNCHANGED <<now, settings, request, inserted, handler, retries>>

\* The push was sent or has failed, and that could not be announced or stored.
SendUnrecorded ==
    \E e \in queue :
        /\ Due(e, {NotificationSend})
        /\ Fault
        /\ queue' = queue \ {e}
        /\ UNCHANGED <<now, settings, request, notifications, inserted, handler,
                       retries>>

\* onMessageAPIDeleted: the rows go, the queued event does not.
DeleteByMessageID ==
    \E e \in queue :
        /\ Due(e, {"message.api.deleted"})
        /\ Take(e)
        /\ notifications' = { n \in notifications : n.message # e.message }
        /\ UNCHANGED <<now, settings, request, inserted, handler, retries>>

----------------------------------------------------------------------------
Next ==
    \/ Tick
    \/ UpdateSettings
    \/ \E m \in Messages : SendMessage(m) \/ RetryMessage(m) \/ DeleteMessage(m)
    \/ \E h \in Handlers :
           \/ LoadPhone(h)
           \/ LoadPhoneWithoutWindows(h)
           \/ ScheduleUnlimited(h)
           \/ LoadLastNotification(h)
           \/ ScheduleNotification(h)
           \/ CountPending(h)
           \/ ScheduleExact(h)
           \/ DispatchSend(h)
           \/ Abandon(h)
    \/ Send
    \/ SendFails
    \/ SendUnrecorded
    \/ DeleteByMessageID

Spec == Init /\ [][Next]_vars

----------------------------------------------------------------------------
(* Properties. *)

IsLimited(n) == ~n.exact /\ n.rate # 0

TooClose(n, p) == p.ScheduledAt < n.ScheduledAt + Interval(p.rate)

\* The rate limit, as far as it holds: a notification scheduled under a rate is
\* due at least that rate's interval after each one that was there when its
\* transaction began, however the settings changed in between.  So those that are
\* too close to one another were all being scheduled at the same time, and there
\* are no more of them than handlers: the limit is missed by the handlers that
\* run at once, however many messages there are.
RateIsKept ==
    /\ \A n, p \in notifications :
           n.id <= p.after /\ IsLimited(p) => ~TooClose(n, p)
    /\ \A crowd \in SUBSET { n \in notifications : IsLimited(n) } :
           (\A n, p \in crowd : n.id < p.id => TooClose(n, p))
           => Cardinality(crowd) <= Cardinality(Handlers)

\* What README.md:110-111 promises of a phone with a rate: no two messages are
\* sent closer to one another than it allows.
RateIsNeverExceeded ==
    \A n, p \in notifications : n.id < p.id /\ IsLimited(p) => ~TooClose(n, p)

\* No notification is scheduled for a moment outside the windows it was computed
\* from, for the time before it was asked for, or before its send_at; the rate
\* limit does not push one out of its window into quiet hours.
DueWhenAllowed ==
    \A n \in notifications :
        /\ n.ScheduledAt >= n.notBefore
        /\ n.windows # {} => Allowed(n.windows, n.ScheduledAt)

\* Nothing is forgotten: as long as nothing goes wrong, a pending notification
\* has its event in the queue or a handler that is about to queue it.
PendingIsQueued ==
    faults = 0 =>
        \A n \in notifications : n.status = "pending" =>
            \/ \E e \in queue : e.type = NotificationSend /\ e.id = n.id
            \/ \E h \in Handlers :
                   handler[h].step = "dispatch" /\ handler[h].id = n.id

\* The schedules of two windows at most, and every second of a week and a day.
SmallSchedules ==
    { windows \in { {v, w} : v, w \in Window } \cup { {} } : IsSchedule(windows) }
Moments == 0..(8 * SecondsPerDay)

\* ResolveScheduledAt finds the first moment the schedule allows, whatever the
\* windows and the moment: never a moment that has passed, never one in quiet
\* hours, and never a later window when an earlier one would do.  (It reads no
\* variable, so it is judged in the initial state.)
EarliestAllowed ==
    Init => \A windows \in SmallSchedules, moment \in Moments :
        IsNextAllowed(windows, moment, ResolveScheduledAt(windows, moment))

\* The heartbeat monitor counts against a phone only a silence in which it was
\* meant to be heard: a quiet night is not read as an outage, and no heartbeat
\* is made younger than the window that is open.
SilenceIsOpen ==
    Init => \A windows \in SmallSchedules, moment \in Moments :
        Quiet(windows, moment) \/
            \A timestamp \in 0..moment :
                MeasuresOpenSilence(windows, moment, timestamp)
============================================================================
