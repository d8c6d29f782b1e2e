# A TLA+ verification of httpSMS

httpSMS turns an Android phone into an SMS gateway. A client posts a message to
the API; the API decides when the phone may be woken, wakes it with a push
notification, and follows the message until its status is final; the phone
fetches the message, hands it to its radio and reports what became of it. All
of this is carried by events that a queue delivers at least once, late and in
any order, to handlers that run at the same time; around it the API counts what
it bills, watches whether phones are alive, keeps conversations, caches and
keys, and tells its users what failed.

This directory models the parts of that system whose correctness depends on the
order in which things happen. TLC checks the models on small instances and
TLAPS proves some of their properties for every instance. Paths below are
relative to the root of the repository's copy, `src/`.

1. [Inventory](#1-inventory)
2. [The modules and the code](#2-the-modules-and-the-code)
3. [What the runs check](#3-what-the-runs-check)
4. [Where the code and its documentation disagree](#4-where-the-code-and-its-documentation-disagree)
5. [Fairness](#5-fairness)
6. [What is proved](#6-what-is-proved)
7. [What is not modelled](#7-what-is-not-modelled)
8. [Plan](#8-plan)

## 1. Inventory

The API (`api/pkg`) is a Go program: HTTP handlers validate a request and call
a service, services read and write repositories (tables, through gorm) and
dispatch CloudEvents, listeners subscribe to event types and call services. The
phone is a Kotlin app (`android`), the web application (`web`) a client.

| Component | State | Operations | Correct when |
|---|---|---|---|
| Message lifecycle: `services/message_service.go`, `listeners/message_listener.go`, `repositories/gorm_message_repository.go`, `entities/message.go` | the `messages` row: status, attempt count | send, fetch (one conditional UPDATE), handlers of nine events (load, change, save the whole row), expiration check, retry, delete | the status never claims what did not happen, outcomes stay, retries are bounded, no message waits for ever |
| Phone notifications: `services/phone_notification_service.go`, `listeners/phone_notification_listener.go`, `repositories/gorm_phone_notification_repository.go` | the `phone_notifications` rows | schedule at the next slot (a transaction of two statements), schedule at an exact time, send the push, record its outcome, delete | pushes keep the phone's rate, but for what is scheduled at once, and its windows; every pending row has its event |
| Send schedules and quiet hours: `entities/message_send_schedule.go`, `services/quiet_hours_custom.go` | windows of a week | next allowed time, "quiet now?", the heartbeat monitor's adjusted timestamp | the earliest allowed moment is found, a quiet night is no outage |
| Event dispatcher and push queues: `services/event_dispatcher_service.go`, `google_cloud_push_queue_service.go`, `emulator_push_queue.go`, `handlers/events_handler.go` | tasks in an external queue, timers of the process | enqueue with delay (three attempts, then a local timer), publish to all listeners | at least once, after its delay; no order, and a restart loses the timers |
| Heartbeat monitor: `services/heartbeat_service.go`, `listeners/heartbeat_listener.go` | last heartbeat, monitor row with `PhoneOnline`, a chain of check events | store heartbeat, check every 16 minutes, probe and alarm, start and stop the chain | one chain per phone that does not end, silence is noticed once, a phone that is back is shown online |
| Message threads: `services/message_thread_service.go`, `repositories/gorm_message_thread_repository.go` | one row per conversation: last message, order timestamp, unread count, archived | update on each message event, mark, delete | the row shows the newest message, the count is exact, archiving is the user's |
| Billing usage: `services/billing_service.go`, `repositories/gorm_billing_usage_repository.go` | one row per user and cycle | count sent and received, check the limit, warn, delete | every message is counted, and once where a cycle has one row; the limit is missed by what is in flight at most |
| Users and subscriptions: `services/user_service.go`, `lemonsqueezy_service.go` | plan, renewal and end dates | subscription events, settings, delete account | nothing that begins after the deletion of an account outlives it |
| Phones and their cache: `services/phone_service.go`, `repositories/gorm_phone_repository.go` | `phones` rows, a cache of pointers to them | upsert, register token, delete, load | the cache agrees with the row, one row per number, no edit is undone |
| Contacts: `services/contact_service.go` | rows, a lookup cache with a generation number per user | CRUD, look up by numbers | an entry from before a change is never served after it |
| Phone API keys: `services/phone_api_key_service.go`, `listeners/phone_api_key_listener.go`, `repositories/gorm_phone_api_key_repository.go` | keys with lists of phones and numbers, a cache of what a key allows | create, delete, add and remove phones, authenticate | a phone is of one key, a key allows its phones' numbers and no other |
| Webhooks: `services/webhook_service.go` | subscriptions | two attempts per event and webhook, failure event | each event reaches each webhook or its failure is announced |
| E-mail and Discord notices: `services/email_notification_service.go`, `discord_service.go` | a cache of what was mailed lately | post an event, mail a failure | a user hears of a failure, and not of each one |
| Received messages, missed calls, bulk sends | rows of `messages` | one insert and one event each | row and event agree |
| Send schedule CRUD, entitlements | rows; counts of rows | create, update, delete; check before create | a phone names a schedule that is there; the plan's number is not exceeded |
| 3CX, marketing, websocket, attachments | little or none | outgoing requests, files | — |
| Android app | the worker queue, settings, quiet-hours rule | fetch, transmit, report, heartbeat | every fetched message is transmitted once and reported |
| Web application, authentication, validation, wiring, telemetry | — | — | — |

How they interact: `SendMessage` stores a row and dispatches
`message.api.sent`, after the delay that `getSendDelay` computes. The
notification listener schedules a row in `phone_notifications` and queues
`message.notification.send` for the time of that row; its handler pushes to the
phone and dispatches `message.notification.sent` or `.failed`. The message
listener counts the attempt and queues `message.send.expired.check` for
`message_expiration_seconds` later. The phone answers a push by fetching the
outstanding message, which the repository claims with one UPDATE, and posts
SENT, DELIVERED or FAILED, each of which becomes an event. The check turns a
message that was never fetched into `message.send.expired`, whose handler may
dispatch `message.send.retry`; one that was fetched, but of which nothing was
heard, it reports as sent. Threads, billing, webhooks, e-mail, Discord, 3CX and
the websocket listen to the same events and do not feed back. A phone that
registers its token announces `phone.updated`, which starts the chain of
heartbeat checks and puts the phone on its API key; `phone.deleted` undoes both.

What makes it hard:

* *Lost updates.* Most handlers load a row and later save all of it. Nothing is
  held in between, and a save of a deleted row inserts it again. The rows that
  two parties count in (threads, usage, keys) have a transaction or a statement
  that adds; whether that is enough is a question for the models.
* *Isolation.* No transaction asks for a level of its own (`pkg/di/container.go:327`
  and `352` open the database, and every call of `crdbgorm.ExecuteTx` passes no
  options), and none locks what it reads. On the PostgreSQL of the production
  file `api/docker-compose.example.yml` that is READ COMMITTED: each statement of a
  transaction sees what is committed when it begins.
* *Delivery.* An enqueue that timed out may have taken effect; a task whose
  answer is lost comes again; `/v1/events` answers 204 whatever the listeners
  did, so an event whose handler failed is gone; a delay that the external queue
  refused lives in a timer of the process.
* *Order.* Delivered may be handled before sent, scheduled after failed, the
  deletion of a phone after the login of its successor.
* *Time.* A check races the answer it waits for, a push the retry, a change of
  settings the notification that was scheduled under the old ones.
* *Caches.* The process keeps phones, contacts and keys in memory next to the
  tables; a reader may fill a cache with what a writer has just replaced.
* *Partial failure.* Every operation of two steps (store and dispatch, push and
  record) can stop between them.

`PROJECT.json` lists these hazards at the lines where they bite, with the
properties that look at each.

## 2. The modules and the code

| Module | Models | Uses |
|---|---|---|
| `Message` | the row of a message and the mutators of `entities/message.go`: pure | |
| `MessagePromise` | abstract: what the owner of a message may rely on | |
| `MessageLifecycle` | one outgoing message: API, queue, handlers, push, phone, check | `Message`; `MessagePromise`, as a refinement |
| `MessageLifecycleProofs` | its theorems, about any handlers and about handlers that do not overlap, and those of `Deliveries` beside them | `MessageDeliveries` |
| `SendWindows` | `ResolveScheduledAt`, quiet hours, the monitor's timestamp: pure | |
| `PhoneNotifications` | the notifications of one phone: rate, windows, exact times, queue | `SendWindows` |
| `PhoneNotificationsProofs` | theorems about the windows and the notifications | `PhoneNotifications` |
| `HeartbeatMonitor` | heartbeats, the monitor row, the chain of checks, probes and alarms | |
| `HeartbeatMonitorProofs` | its theorems | `HeartbeatMonitor` |
| `Conversation` | the messages of one conversation and its thread row | |
| `ConversationProofs` | its theorems | `Conversation` |
| `BillingCycle` | `computeBillingCycle` on the calendar: pure | |
| `Billing` | the account of one user: plan, usage rows, limit, alerts, deletion | |
| `BillingProofs` | theorems about both: the cycle of a day, deletion, warnings | `Billing`, `BillingCycle` |
| `ContactBook` | abstract: what a lookup of a contact promises | |
| `ContactCache` | contacts, generations and the lookup cache | `ContactBook`, as a refinement |
| `ContactCacheProofs` | its theorems | `ContactCache` |
| `PhoneState` | the rows of one number, the shared objects and the cache; what is asked of them | |
| `PhoneCache` | what requests do to them, and the deleted schedule | `PhoneState` |
| `PhoneCacheProofs` | its theorems | `PhoneCache` |
| `PhoneKeys` | the keys of one user, the phones they list, the cache of what they allow | |
| `PhoneKeysProofs` | its theorems | `PhoneKeys` |
| `Deliveries` | posts to webhooks and Discord, failure notices, e-mails | |
| `MessageDeliveries` | a message, and the deliveries beside it | `MessageLifecycle`, an instance of `Deliveries` |
| `MC...` | instances for TLC | |

Definitions have the names of the code where they have one there; `map` in
`PROJECT.json` gives the lines of each. Operators marked `Mutant` in their
comment are plausible bugs, used only to see that a property notices them.

Two modules hold two independent models, since the two share no state and
the questions are asked of each alone: `MessageDeliveries` (`MessageLifecycle` and
`Deliveries`) and `MCCaches` (`ContactCache` and `PhoneCache`). A variable says
which of the two a behaviour is of; the other one stays in its initial state.
`EarliestAllowed` and `SilenceIsOpen` judge the pure search for a time, for every
small schedule at every instant, in the initial states of the notifications it
serves.

### MessageLifecycle

Every statement on `messages` is keyed by one ID, so one message is enough; what
messages share, the table of notifications, is `PhoneNotifications`.

`row` is the row of the message (or `NoRow`), `queue[t]` the number of waiting
events of type `t`, `handler[w]` what goroutine `w` holds between its load and
its save, `push` the notifications on their way, `inbox` what the phone has
fetched and not sent, `reports` the results it has not posted. `pushes`, `sms`
and `milestones` are history: what happened in the world, against which the row
is judged.

Each handler is one instance of `Handle`: take the event, load, check the
status as that handler does, change; `Update` is the save, a step of its own.
`HandleMessageExpired` has a third step, its retry, and
`onMessageNotificationSent` a step before its load. `GetOutstanding` is a
single UPDATE in the code and a single step here. `CheckExpired` is one step: it
only reads, and between its read and the event it dispatches nothing of its own
can change. The rate limit does not appear: `Schedule` may take any time.

Faults share one budget, `MaxFaults`: a duplicated event, a lost one, a handler
that dies between load and save, a dispatch that fails, a claim whose answer is
lost, a push that is reported failed and arrives, a phone that dies with a
message, a report whose connection breaks: `PostEventFails`, the exception
nothing catches in the app's `sendEvent`, after which WorkManager counts the
worker as failed and does not run it again. A lost push is not a fault: it is
what the retries are for.

### MessagePromise

What the owner sees: the status, the pushes and copies made in the world, what
has happened to the message, and how much has gone wrong. There are no queues,
handlers or attempt counts in it. `Push` may not exceed the maximum of attempts
by more than what went wrong, `Transmit` needs a fetch and a push of its own for
each copy, `Show` needs a status that is earned and may follow, `GiveUp` needs
all attempts to have been made. It says no more than the code keeps: a message
that is sending may be shown as pending or scheduled again, when the handler that
counted its push had loaded it before the fetch, and a deleted one comes back when a
handler saves the row it holds. `KeepsPromise` is the refinement, with `status`
taken from `row`, `copies` from `sms`, `happened` from `milestones`, `mishaps`
from `faults`.

### SendWindows

Time is counted in seconds of the schedule's local time. A window is what the
validator accepts (`IsSchedule`). `ResolveScheduledAt` tries the days in turn
as the code's loop does; `Allowed` says directly that a moment lies in a window,
and `IsNextAllowed` is the reference definition the search is judged by.

### PhoneNotifications

`notifications` are the rows of one phone, `queue` the events with the time each
is due, `handler[h]` a run of `Schedule`: settings and clock are read
(`LoadPhone`). Without a rate the row is inserted (`ScheduleUnlimited`); with one,
the transaction reads the last row and computes the slot
(`LoadLastNotification`) and then inserts (`ScheduleNotification`); for an exact
time the pending rows are counted (`CountPending`) and the row is inserted
(`ScheduleExact`). Then the events are dispatched (`DispatchSend`). Between any two
of these steps other handlers, the clock and the user move. Rows carry as history
the settings they were computed from, the handler that inserted them and the
last row there was when it read.

The statements of a transaction are steps of their own, because the transaction
runs at READ COMMITTED and locks nothing (section 1, *Isolation*); its commit is
one with its last statement, before which nothing of it can be seen. A behaviour
in which the statements follow one another is among those of the model, so what
holds here holds as well on the CockroachDB that the integration tests use
(`tests/docker-compose.yml`), which is serializable. `Billing` is modelled the same
way. Two components need no such care. `PhoneKeys!AddPhone` is one step because
the first statement of that transaction updates, and thereby locks, all keys of
the user. Threads are written by single statements, and the unique index of
`message_threads` decides between two inserts, which `Conversation` models
(`Conflict`); so is the first row of a user decided on by its primary key.

`message.api.sent` itself is delayed until `send_at` (`getSendDelay`), so
`scheduleExact` usually runs at that time. Events that are equal in all fields
merge in the set `queue`: they would be handled alike, and repeated handling is
the fault branch of `Take`. When the windows cannot be read the code goes on as
if there were none (`LoadPhoneWithoutWindows`).

### HeartbeatMonitor

`monitors` are the rows of one number, `checks[id][d]` the checks of a monitor
that are due in `d`, `worker[w]` the event a goroutine is in the middle of. The
phone's silence and the age of a row are counted in units of eight minutes
(`CheckInterval` is two of them, the windows of `Monitor` four and five check
intervals) and stop counting beyond every threshold. `OpenWindow` and
`CloseWindow` are what `quietMonitorCustom` makes of a send schedule: silence is
counted from the opening of the window at the earliest. A check is a load and
then one of `RemoveCheck`, `ScheduleFails`, `MonitorQuiet`, `Monitor` and, when the
phone or its windows cannot be read, `MonitorUnread`, which is a fault and counts
from the last heartbeat, however long before the window that was; with
everything between that others do. A probe is handled by `SendHeartbeatFCM`, which
may be in vain: the phone is gone, it has no token, or the push fails, which is
only logged (`services/phone_notification_service.go:86-114`). The model does not
tell these from a push that was made and says that the phone was asked or that
this was tried (`tried`). `phone.updated` is `PhoneUpdated`,
`StoreMonitor`, `StartChecks`. The queue is prompt: time passes when nothing is
due and no handler is at work.

### Conversation

`rows` are the messages, `thread` the row of `message_threads` (a set, empty
when there is none), `queue` the events, `worker[w]` an event with the row its
handler has loaded. A request is its steps: the store of a row, the announcement
of its event, and for a deletion the reading of the previous message in between.
The thread's handler is `Deliver`, which loads, and then `CreateThread` (the
insert with its conflict clause) or `UpdateActivity` (the update that adds to
the unread count in the database), or for a deletion `ShowPrevious` or
`RemoveThread`. `pending` are the updates of message rows that the same events
cause, at any time. `arrivals` counts, as history, what the unread count should;
`orderly` remembers whether any event overtook another.

### Billing and BillingCycle

`BillingCycle` is `computeBillingCycle` on dates, with Go's `AddDate`. `Billing`
takes months of equal length and keeps the rest: `usage` the rows, `waiting[t]`
the registrations of accepted messages of time `t`, `tasks[w]` a request between
its check of the limit and its acceptance, a handler between its registration
and its alert, or an event of the account between load and save, and `making[w]`
the row that a transaction of `w` has found missing: `Register` and `MissUsage`
are its first statement, `ReadUser` its second, `RegisterRow` or, for `GetCurrent`,
`CheckUsage` and `AlertUsage` the insertion. Each statement sees what is committed
by then, and no index makes the row of a cycle unique, so two of them may each
make one. The cycle
ends before its last tick, as the code's ends a second before the next one
begins. `Visit`, `Webhook`, `HandleSubscription`, `Settings`, `SaveUser` and
`Delete` to `DeleteAllForUser` are the account. `oddities` names what has
happened out of the ordinary (an anchor day moved, registrations overlapped, a row
was made beside one of the same time, the account was deleted between the reading
of its user and the insertion of the row, a message was registered in a later
cycle, ...); each property says which of them it tolerates, and each behaviour has
at most `MaxOddities` of them.

### ContactBook and ContactCache

`ContactBook` says what `GetContactMap` promises: an answer is a contact that
the number had at some moment of the lookup, or a change that came later, never
one that a change which had finished before the lookup began had replaced. In
`ContactCache` a change writes the table, advances the generation and ends; a
lookup reads the generation, the cache number by number, the table for what is
missing, and leaves entries of its generation in the buffer of the cache, in
which any may be dropped. The generation of a user can expire. `LooksUpFresh` is
the refinement: `ContactBook` with `answer` taken from `lookup`.

### PhoneCache

The cache holds a pointer: a request that finds the phone there changes the very
object others may be holding. So there is a heap: `heap[o]` is what an object in
memory holds, `entry` the object the cache refers to, `request[r]` what a request
is in the middle of and which object it works on. Loading, filling the cache,
changing the object, saving the row and dropping the entry are a step each. A
request is *late* once another has written the row since it was read, and from
the start when the schedule it names, which was there when the request was
validated, has been deleted and taken from the phones before the row is loaded.
The properties say what holds without late requests, and the runs reach those with.

### PhoneKeys

`phones` are the phones there are (a number whose phone was deleted gets one with
a new ID), `PhoneList` and `NumberList` the two columns of a key, `cache` what
`LoadAuthContext` has kept for fifteen seconds, `queue` the `phone.updated` and
`phone.deleted` events. `OnPhoneUpdated` reads the phone and the key, `AddPhone`
is its transaction, `ClearCache` follows; `OnPhoneDeleted` is one statement by
phone ID. `LoadForRemove`/`RemovePhone` and `Delete`/`Forget` are the user's
requests. `disorder` and `late` remember what came out of order, as above.

### Deliveries

`posts` are the requests on their way to webhooks and Discord channels with the
attempt they are at, `notices` the failures to be mailed, `sent[kind]` how much
longer the cache remembers an e-mail, `since[kind]` how old the last one is. A
webhook is posted to twice and a channel once; the notice of a failure is an
event, so it can wait, be lost (a fault) or meet another one between the look in
the cache and the e-mail. A tick is fifteen minutes, the time in which one e-mail about
a failed message is sent; for the other kinds it is an hour.

## 3. What the runs check

| Run | Question | Bounds |
|---|---|---|
| `lifecycle_deliveries` | one handler at a time, nothing wrong but lost pushes, timers of any length: types, `CopiesAreBounded`; and, apart from it, posts, notices and e-mails: `FailureIsTold` | 2 attempts, 4 pushes; 1 webhook, 1 channel, 1 event, 2 mailers, 2 ticks, 1 change of settings, 1 fault |
| `lifecycle_faults` | one fault of any kind: `StatusIsEarned`, `AttemptsArePushed`, `OutcomeIsFinal`, and the refinement `KeepsPromise` | 1 attempt, 3 pushes, 1 fault |
| `lifecycle_liveness` | `NeverStranded`, `ExpiryIsAnnounced`, `EventuallySettled` when only pushes get lost | 2 attempts, 4 pushes, long timers, fairness |
| `notifications` | types, `RateIsKept`, `PendingIsQueued`, `DueWhenAllowed`; and `EarliestAllowed`, `SilenceIsOpen` for every schedule of at most two windows at every instant of a week and a day | days of 3 minutes of 2 seconds; 2 messages, rates 0 and 1, with and without windows of two minutes on two days; either 2 handlers, 2 ticks of time, edits of the settings and a retry, or 1 handler, 3 ticks, an exact time, a bulk request and a fault |
| `rate_limit_readme` | are messages never sent closer together than the rate allows? It ends in a violation (section 4) | 2 messages, 2 handlers, rate 1 |
| `heartbeat` | types, `MonitorIsWatched`, `SilenceIsNoticed`, `ProbedBeforeAlarm`, `ChainsDoNotMultiply`, `OneAlarmPerSilence` | 2 monitors one after the other, 2 handlers, 1 fault |
| `heartbeat_liveness` | `ShownOnlineAgain` | 1 handler, 1 fault, fairness |
| `conversation` | types, `UnreadIsExact`, `ThreadMirrorsMessages`, `ArchivedByChoice` | 2 messages, 3 events announced, 2 handlers, 2 rows one after the other, 1 fault |
| `billing` | types, `CountedOnce`, `OvershootIsInFlight`, `WarnedBeforeRefused`, `NothingOutlivesTheAccount` | 3 messages, 2 usage rows, a month of 3 ticks, 3 ticks of time (the end of a cycle, the second that belongs to none, the start of the next), limit 2 and warning at 1, 2 changes, 1 fault, 1 kind of oddity |
| `caches` | `CacheIsRight`, `OneRowPerNumber`, `NoDanglingSchedule`, `EditsAreKept`; `LooksUpFresh` | 2 requests, 2 phone IDs, 3 edits, 1 schedule, 1 fault; 2 lookups, 2 changes, 1 number, 2 changes or expirations |
| `phone_keys` | types, `OneKeyPerPhone`, `KeysSettle` | 2 keys, 2 phones of one number, 2 workers, 2 logins, 1 removal, 1 fault |
| `billing_cycle` | does `computeBillingCycle` contain the day asked for? It ends in a violation (section 4) | every day of three years, every anchor day |

The properties, in words:

* `StatusIsEarned`: a message shown as sending or sent was fetched, as delivered
  has a delivery report, as failed has failed, as expired was pushed.
* `OutcomeIsFinal`: delivered and failed stay; sent becomes only one of these.
* `KeepsPromise`: every step of the message is one of `MessagePromise` or is not
  seen by the owner.
* `CopiesAreBounded`: the recipient gets at most `MaxSendAttempts` copies, plus
  one per fault.
* `AttemptsArePushed`: the attempt count never runs ahead of the pushes.
* `NeverStranded`, `EventuallySettled`: no message stays pending or scheduled
  when nothing is left to happen, and every accepted one settles.
* `ExpiryIsAnnounced`: a message that ends expired had an expiry with `IsFinal`.
* `FailureIsTold`: a delivery that is over was accepted or its failure was
  announced, and a notice is only dropped next to a recent e-mail of its kind.
* `EarliestAllowed`: `ResolveScheduledAt` finds the first allowed moment.
* `SilenceIsOpen`: the monitor counts only silence in an open window.
* `DueWhenAllowed`: no notification is due outside the windows it was computed
  from, nor before the time it was asked for.
* `RateIsKept`: a rate-limited notification is due at least its rate's interval
  after every one that was there when its transaction read the last, whatever the
  settings were or became in between; and of notifications that are too close to
  one another there are no more than handlers that run at once.
* `PendingIsQueued`: without faults, a pending row has its event or a handler
  about to dispatch it.
* `MonitorIsWatched`: a number with a monitor has a check on its way, unless the
  code has given the chain up. `ChainsDoNotMultiply`: no second chain is started
  next to a live one. `SilenceIsNoticed`, `ProbedBeforeAlarm`,
  `OneAlarmPerSilence`: a silence through a window is noticed, after the phone
  was asked or this was tried, and once, unless a check could not read the windows. A check at the very minute at which the time for an alarm
  begins misses it (`>` on both sides), which `SilenceIsNoticed` excepts.
* `ShownOnlineAgain`: a phone that keeps sending heartbeats is shown online
  again and again.
* `UnreadIsExact`: the unread count is the number of arrivals since the thread
  was created or read. `ThreadMirrorsMessages`: handled in order, the thread is
  there if and only if a message is, and shows one with its status.
  `ArchivedByChoice`: only the user archives, and only an arrival brings back.
* `CountedOnce`: no registered message goes uncounted, and none is counted twice
  but where cycles overlap or two transactions that met have made two rows.
  `OvershootIsInFlight`: the limit is passed by the messages in flight at a check,
  no more, where no two rows were made. `WarnedBeforeRefused`: an alert comes
  before the first refusal, unless registrations overlap.
  `NothingOutlivesTheAccount`: no usage row is left when the account is gone and its
  deletion was handled, unless the transaction that made it had read the user before.
* `CacheIsRight`, `EditsAreKept`, `OneRowPerNumber`, `NoDanglingSchedule`: the
  cache and the row of a phone agree when all is quiet, an edit is not undone, a
  number has one row and a phone names no schedule that is gone, as long as no
  late request has written, which includes one that names a schedule that was
  deleted after the request was validated. `LooksUpFresh`: a lookup of contacts is never
  answered from before a change that had finished.
* `OneKeyPerPhone`: a phone, and a number, is of one key at most, and a key
  allows no number but those of its phones. `KeysSettle`: once all is done the
  cache says what the rows say, but for entries filled late or left to expire,
  and without disorder the lists name the phones there are.

Why the bounds are enough. Two attempts are the phone's default and the least
with a first, a last and a retry between them. Two handlers are the least that
lose an update, and a third could only lose it again. `MaxPushes` leaves room
for every attempt and a duplicate of it. The short day of `SendWindows` has
every relation of two windows (apart, adjoining, on the same or another day,
at the day's end) and an instant at, before and after each boundary; the eighth
day is there for the wrap of the week. `MCPhoneNotifications`
checks overlapping handlers and failures in behaviours of their own, as the two
together have too many states; its proofs have both. Two messages and a retry give
the table a last row, one whose handler reads it in time and one whose handler
does not. Two
monitors, thread rows, phones or keys that follow each other are what it takes
for something late to meet the successor of what it was meant for. One fault
of each kind at each point shows what the code does not recover from; and one
kind of oddity at a time in `billing` keeps apart what each property excuses.
What the bounds leave out of the invariants is covered by the proofs, where
there is one; in particular, what overlapping handlers and any number of faults do to
`StatusIsEarned` and `AttemptsArePushed`, which the runs see with one handler.

Symmetry is used where messages, handlers, requests, lookups and keys appear in
equality only, and in no run with a liveness property. Deadlock is not checked:
in every model a state in which everything has been handled, or the bounds are
used up, is an intended end. That nothing stops halfway is what `NeverStranded`,
`MonitorIsWatched`, `KeysSettle` and the liveness properties say.

With two handlers of one message `OutcomeIsFinal`, `CopiesAreBounded`,
`KeepsPromise`, `NeverStranded` and `ExpiryIsAnnounced` are false, and no run claims them: a
handler of `message.notification.scheduled` that loaded the row before it failed
saves it as "scheduled", and so it stays. This takes two handlers of one message
within the milliseconds of a load and a save. With faults, a message may stay
pending (its dispatch failed, or its phone was not found), or sending (a lost
check).

## 4. Where the code and its documentation disagree

Two runs each check one statement of the repository and end in a violation.

`billing_cycle`: `computeBillingCycle` "returns the start and end timestamps of the billing cycle
that contains `now`". On March 29 and 30 with a later anchor day (where February
has no such day) the month before is computed as March again, and the cycle
starts after `now`. `BillingProofs` shows that this is the only exception.

`rate_limit_readme`: "Such that even if you call the API to send messages to 100
people, It will only send the messages at a rate of 3 messages per minute"
(`README.md:110-111`). The app has no rate of its own, so this rests on
`gormPhoneNotificationRepository.Schedule` (line 126), whose transaction reads the
last notification and inserts the next with nothing locked. At READ COMMITTED two
handlers read the same last row and give two messages the same moment. That is as
far as it goes: `RateIsKept` and its proof say that the rate is missed only by
those scheduled at the same time. (The delays that `getSendDelay` gives the messages
of a bulk send spread their handlers out and make the meeting rarer.)

While modelling, these came up as well; the models contain them, and the
properties above are stated so as to leave them room. They have no run.

* `repositories/gorm_billing_usage_repository.go:166`: the function "accepts a tx to
  ensure the user read is part of the same transaction snapshot". There is no such
  snapshot at READ COMMITTED: each statement has its own. So two first registrations of
  a cycle, or one and a `GetCurrent`, each find no row and make one (lines 57-69 and
  114-125), and since nothing makes the row of a cycle unique every later message is
  counted in both; and an account that is deleted, with its rows, between the reading
  of the user and the insertion leaves a row that nothing deletes. These are the
  oddities "raced" and "crossed" of `Billing`.
* `services/message_thread_service.go:60` and `repositories/message_thread_repository.go:15`
  call the event's timestamp the "server-side unread watermark". No code compares it
  with anything: the unread count is a counter that arrivals add to and reading sets
  to zero, which is what `UnreadIsExact` is about.
* `services/message_service.go:828`. The check looks at the status, but its
  expiry is a later event whose handler accepts "sending": a phone that fetches
  in between is woken again, and the SMS goes out twice.
* `services/message_service.go:957`. The last expiry is recognised by an attempt
  count equal to its maximum. An event that is delivered twice makes the count
  step over it, and no e-mail is ever sent.
* A rate that does not divide 60: the interval is 60 divided by the rate in
  integers, so 7 messages per minute (`README.md:110`) become 8, 31 become 60.
* `services/quiet_hours_custom.go:26`. The windows are consulted when a
  notification is scheduled and not when it is sent: a late event, or one from
  before the windows were changed, is pushed in quiet hours.
* `repositories/gorm_phone_notification_repository.go:222`. `ScheduleExact` does
  nothing for a message that has a pending notification; its caller dispatches
  the events of the row it did not store, and the phone is woken twice.
* `repositories/gorm_phone_api_key_repository.go:50`. A `phone.deleted` event
  that is late, or comes twice, takes the number from a key that the successor of
  the phone has joined meanwhile (`KeysSettle` asks for order).
* `repositories/gorm_phone_api_key_repository.go:212`. `RemovePhone` and the
  deletion of the account leave the cached entries of their keys to expire; the
  other writes drop them.
* `services/webhook_service.go`. The failure notice of a webhook that timed out
  speaks of ten seconds; the client gives up after five.

## 5. Fairness

Two runs assume any.

`lifecycle_liveness`. The queue keeps delivering what is due (weak fairness of
each consumer: `Schedule`, the sending of a notification, each handler, the
check), goroutines finish what they began, the phone's workers run (WorkManager
repeats one that an error answer made ask for it), and a push is fetched or lost, never kept for ever. Sending a
notification, fetching or losing a push, and transmitting or failing to are fair
as alternatives: neither outcome is promised. Clients need not send or delete
anything, and no fault has to happen. `SlowTimers` says that an expiration check
comes due only when the queue has no other event and no handler is busy. The
validator allows 60 to 7200 seconds for the expiration time and the default is
600, against handlers of milliseconds; a queue that lags by more is the case of
`lifecycle_deliveries`, where it is FALSE.

`heartbeat_liveness`. A handler finishes the check or the update it began, a
heartbeat that was stored is looked at, and the queue delivers checks, probes
and offline events. Time, the windows, the user and the phone owe nothing; that
the phone sends heartbeats for ever is the property's premise. One handler is
enough, as the handlers of the two events that change `PhoneOnline` are actions
of their own.

## 6. What is proved

All theorems hold for every value of the constants that satisfies the named
assumptions (`MaxSendAttemptsAssumption`, `LifecycleAssumption`, `ClockAssumption`,
`NotificationAssumption`, `ConversationAssumption`, `KeyAssumption`,
`ContactAssumption`, `PhoneAssumption`, `MonitorAssumption`, `BillingAssumption`,
`DeliveriesAssumption`), which say only that numbers are natural, sets of workers finite, schedules windows,
months longer than a tick and the first alert no later than the limit of the free
plan, as the code's 160 of 200 is.

* `MessageLifecycleProofs!TypeCorrect`, `StatusEarned`. `StatusIsEarned` is not
  inductive: the row will be overwritten by what a handler holds, which rests on
  an event, which rests on a report. `EarnedInv` says that each of these is
  earned as well: every waiting event has its cause in `milestones` or `pushes`,
  and every handler about to save holds an earned row. History only grows
  (`StepsGrow`), so what was earned stays earned, and each action has to be
  examined only for what it adds. The result covers any number of overlapping
  handlers and any number of faults.
* `MessageLifecycleProofs!AttemptsPushed`. A push is counted by a later event, so
  the attempts that are still to be counted (`Owed`: waiting
  `message.notification.sent` events and the workers about to count one) must be
  pushed too, on top of what the row or any handler's copy of it has counted
  already. `AttemptsInv` says that of the row and of every copy.
* `MessageLifecycleProofs!OutcomeFinal`, `CopiesBounded`, `NobodyStranded`,
  `ExpiryAnnounced`. These speak of behaviours in which no two handlers of the
  message overlap (`OneAtATime`). That is a hypothesis, not a fact of the code:
  every save is of the whole row, and TLC finds each of the four violated as soon
  as two workers save what they loaded before one another. Everything else
  still interleaves: the request, the phone, its reports and the check come
  between the load and the save of a handler. With one worker the hypothesis is
  true of every behaviour (`OneWorker`), which is the instance the runs check.
  - `OutcomeFinal` needs `NothingBegan` (an event of the chain exists only after
    the request) and `FollowInv` (what a handler is about to save may follow the
    row it will find, even where the row has moved on since it was loaded).
  - `CopiesBounded` keeps a ledger. A *token* is whatever will bring about the next
    attempt: the request under way, a retry, a notification to be pushed. The
    tokens, attempts and faults balance (`TokensBounded`, `Balanced`,
    `PushesBounded`), what a handler will save is at most one attempt away from
    the row (`SavesAreClose`), and every SMS was pushed (`CopiesArePushed`).
  - `NobodyStranded` and `ExpiryAnnounced` hold while `faults = 0` and need
    `SlowTimers`, as the runs do. There is exactly one token of the chain
    (`OneToken`), the status a handler saves fits the place the token has reached
    (`SavedStatus`), and `Strand` and `Announce` say, for each of its places, what
    will continue the message and whether its last attempt was announced.
* `MessageLifecycleProofs!PromiseKept`. Under the same hypothesis every step maps to
  one of `MessagePromise` or to a stutter. The guards of the abstract steps are
  the invariants of the detailed module: `PushesBounded` for `Push`, `FollowInv` and
  `EarnedInv` for `Show`, `CopiesArePushed` and `PhoneIsEarned` for `Transmit`,
  `AttemptsArePushed` for `GiveUp`, and `WhereItIs`, which says that a message that
  was stored and is not there was deleted.
* `MessageLifecycleProofs!FailureTold`, `BothTyped`. Stated of `MessageDeliveries`,
  a behaviour of which is one of the message and one of the deliveries
  (`BothBehave`). A post that fails before its last attempt is followed by another one, because the
  attempt whose failure is announced is the last that `retry.Attempts` makes.
  What the cache still remembers of an e-mail and the e-mail's age add up to no
  more than the timeout (`MailCached`): while the cache has still to be told, the
  e-mail is new, as handlers take seconds and a tick fifteen minutes.
* `PhoneNotificationsProofs!ResolvesToNextAllowed`. For every schedule, every length of
  the day and every instant, the search returns the earliest allowed moment. The
  proof shows that a window of the week occurs within the eight days tried, that
  the first day with a candidate contains the answer, and that anything allowed
  earlier would have been a candidate.
* `PhoneNotificationsProofs!EarliestFound`, `SilenceIsMeasuredOpen`. What the
  run asks of small schedules is a case of `ResolvesToNextAllowed` and of
  `MeasuresOnlyOpenSilence`.
* `PhoneNotificationsProofs!PhoneAgreesWithServer`. The app walks through the days
  and keeps the start of the nearest window ahead; the API takes the least
  candidate of the first day that has one. Where no window is open, the starts
  ahead on a day are that day's candidates, so both stop at the same moment.
* `PhoneNotificationsProofs!MeasuresOnlyOpenSilence`. Outside quiet hours the monitor's
  timestamp lies between the last heartbeat and now, and every moment from it to
  now is in a window. A moment after the start of a window of today that is
  still open lies in that window, and by `ResolvesToNextAllowed` there is such a
  window whenever it is not quiet and the schedule is not empty.
* `PhoneNotificationsProofs!PendingQueued`. While nothing goes wrong a pending row
  has its event in the queue or a handler that is about to queue it; the invariant
  says so of every id, and that no two events or handlers are of one id.
* `PhoneNotificationsProofs!TypeCorrect`, `RateKept`, `DueAllowed`. The invariant
  `Inv` says of a handler between the two statements of its transaction that the
  slot it holds keeps the distance from every row there was at the first
  (`Kept`): from the latest one, and hence from all. Deletion only removes rows, so
  it cannot break a distance, and rows that come in between have higher IDs. A
  handler sees every row it inserted itself; so two rows that are too close are of
  different handlers, and a crowd of such rows maps into the handlers one to one,
  which bounds it (`CrowdsAreSmall`, by `FS_Injection`). The slot is in a window by
  `ResolvesToNextAllowed`, which is cited and not expanded.
* `ConversationProofs!TypeCorrect`, `UnreadCountIsExact`. With `UnreadInv` (one
  row at most, and none counts nothing) the count is inductive: every write that
  brings an arrival adds to what is in the row at that moment, never to what its
  handler has loaded.
* `ConversationProofs!ArchiveIsChosen`. A step that sets the flag is the user's,
  and one that clears it is the user's or a handler's that saw an arrival while
  the thread was archived; the update writes no flag in any other case, so a copy
  loaded before the user chose cannot undo the choice.
* `ConversationProofs!ThreadsMirrorMessages`. Three parts of `Mirrors` carry the
  argument: the last word still to be told about a message is its status, or is
  about to become it (`LastWordFits`); a thread shows what a message is, or
  something about that message is still to be told (`ShownFits`); and a
  conversation with messages has a thread, or an event that will make one
  (`MessagesAreShown`). When all is done nothing is left to be told, so what is
  shown is. The rest of `Mirrors` keeps those up: a message not yet fetched is told
  of by its arrival only, a delivery is the last event of its message, a handler's
  row is still there, and a deletion has everything to itself. That `UpdateThread`
  ignores late events plays no part: handled in order, none is ever ignored
  (`NoneIsIgnored`). The hypotheses are the property's own.
* `HeartbeatMonitorProofs!MonitorTypeCorrect`, `MonitorStaysWatched`,
  `OneAlarmRaised`, `ProbedFirst`, `SilenceNoticed`. A check that is due in *d*
  was scheduled `CheckInterval` - *d* ago by the check before it. What it will
  find when it is handled is therefore known while it waits, and the invariants
  say of each check on its way what its predecessor has done: after an alarm there
  is one on its way that comes too late to raise another (`AlarmInv`); where the
  last one was late enough to probe, the probe is due together with the next or
  has been sent (`AskedInv`); a check that will find five intervals was scheduled
  by one that found four and was free to alarm (`NoticedInv`). Where two chains
  run beside each other after a fault, each is followed on its own.
* `HeartbeatMonitorProofs!LiveIsNotRestarted`, `OneChain`. While a check is on its
  way or in hand, and without faults, `phone.updated` finds a monitor that asks for
  no new chain (`RecentInv`: the row that is found is as young as the check on its
  way). Every other step has been counted: with `Total`, the sum over all
  monitors and delays, a handler puts one check into the queue for the one it took
  (`StepIsCounted`), and time moves each check to the place below, where the sum
  stays (`SumShifts`).
* `BillingProofs!CycleContainsAllButLateMarch`. By cases over the length of
  a month and of the one before it.
* `BillingProofs!EveryMessageIsCounted`, `BillingTyped`. `AccountInv`: there is one
  user at most, no two rows have the same ID, and what the rows add up to
  (`CountInv`) is what was registered while the anchor day stays and no row was
  made beside another (`Steady`), for then the cycles of rows are apart and a moment
  is covered by one of them; in other behaviours it is at least that, however the
  statements of transactions interleave. A message is counted by the statement
  that finds the rows of its time, and where that finds none by the insertion of a
  row with it.
* `BillingProofs!LimitIsMissedByInFlight`. The property is of rows; a message can be
  accepted in a cycle that has none yet, and a request that was found entitled
  takes that with it into the next cycle. `PromptInv` therefore says it of every
  cycle, with or without a row, counts the entitled requests in, and bounds these
  by `burst + 1`: each was let through at a check, where the ones before it were in
  flight. Without that bound a cycle that begins with them would have no reason to
  stay below the limit.
* Sums. The two properties just named and `ChainsDoNotMultiply` add up what is in
  sets and functions with the folds of the community modules. A fold is a choice of
  a function that satisfies a recursive equation on the subsets of a set. That there
  is one is shown by induction over the size of a subset (`SumsExist`), that all of
  them agree likewise (`SumsAgree`), and from then on a sum is what it should
  be: any element may be taken out of it (`SumTakes`), and a changed element
  changes it by the difference (`SumChanges`). The induction is over a set of
  numbers, `NatSets`, which the library's theorem about well-founded relations
  gives with no operator for a parameter. `BillingProofs` and
  `HeartbeatMonitorProofs` each hold the lemmas they use.
* `BillingProofs!UsageEndsWithAccount`. Inductive once a save is known to write a
  row (`AccountTyped`) and a transaction about to insert to have a user who is there,
  unless the account was deleted since (`OwnersThere`). Between the deletion and its
  event the handler that announces it cannot do anything else.
* `BillingProofs!FreeUserIsWarned`. The alert is decided by a handler that reads
  the usage after it was registered, so a row that has reached the alert is of a
  cycle that was warned of, or it is at the alert exactly, in the cycle of this
  moment, while that handler has still to read it (`CalmWarnings`). The handler
  then reads that very row, because cycles of one anchor day are apart and each has
  one row (`CyclesAreApart`, `SteadyRows`). The anchor day stays, because in the
  behaviours the property is about the account is only ever deleted
  (`SteadyAccount`).
* `PhoneKeysProofs!KeysTypeCorrect`, `OneKeyPerPhoneHolds`. The property is
  inductive beside the type invariant, in which an event and a task are of one
  key at most. `WithoutKeeps`: where a number stays in a list after a phone was
  taken from it, another phone of that number does. `JoinKeeps`: what a phone
  joins is one key, and the transaction has taken it from every other.
* `PhoneKeysProofs!KeysSettled`. For the cache: an entry that is not late is the
  row's, or the worker that wrote the row has still to drop it (`CacheInv`). For the
  lists (`OrderInv`): a phone that is gone from the table and not from a list has its
  deletion in the queue; a phone that is there, and has joined a key or is about
  to, is `Alone`: no other phone of its number has a deletion left to be handled,
  since that one was deleted before this one was created and the queue is in
  order. So nobody takes the number of a phone that stays.
* `PhoneCacheProofs!PhoneTypeCorrect`, `OnePhonePerNumber`, `CacheKept`,
  `SchedulesStand`, `EditsKept`. What is shown at rest depends on what the requests
  under way hold. A request that is not late holds an object that `Fits`: it is
  as new as the row, or newer by the request's own edit. Whoever writes the row
  makes all other requests late and takes the entry away, so that an old object
  can come back only by the hand of a late request, which the model remembers
  (`cacheIsLate`, and `tainted` once it has written the row). `PhoneInv` says so of every request and of the cache.
* `ContactCacheProofs!ContactTypeCorrect`, `LookupsAreFresh`. The refinement
  rests on one notion: a contact is `Fresh` in a generation when no lookup of that
  generation, under way or still to begin, may ask for a newer one. A change
  becomes known in the step that ends the generation, and a generation that has
  ended does not come back (the counter only grows, an expiration leaves it), so
  what was fresh stays fresh (`FreshStays`). The invariant says that every entry
  of the cache and of its buffer is fresh, and every contact a lookup has fetched
  and may still cache.

Every invariant and every action property that a passing run checks is the statement
of one of these theorems. The type invariants of the two caches are proved
(`ContactTypeCorrect`, `PhoneTypeCorrect`) and checked by no run.

Only model-checked: `EventuallySettled` and `ShownOnlineAgain`, because fairness is
out of the prover's reach.

The theorems about windows hold for overlapping windows
too, which `IsSchedule` excludes; the run takes only those it admits.

## 7. What is not modelled

* Content, encryption, attachments, the parts of a long SMS, payloads and
  signatures: nothing checked here depends on them.
* Time zones, and the two days a year that are an hour longer or shorter. The
  code adds a duration to midnight, so its windows shift by that hour.
* The three attempts of an enqueue: their outcomes are that an event is queued
  once, twice or not at all, and each is in the models.
* Other messages of the phone within `MessageLifecycle`, and the message's
  status within `PhoneNotifications`. The two meet in the events
  `message.api.sent`, `message.send.retry` and `message.notification.send`:
  `RetryMessage` stands for the first module in the second, `Schedule` and
  `SendNotification` for the second in the first.
* Entitlements: a count is read, compared, and a row stored, as the limit of
  `Billing` is; requests that overlap pass the limit by one each.
* Bulk sends and uploads: they call `SendMessage` in a loop with a growing index,
  which `PhoneNotifications` takes as an input.
* 3CX, marketing, attachments, live updates: one outgoing request or one file
  each, with nothing remembered between two of them.
* Authentication, validation, wiring, telemetry: stateless, or construction. The
  ranges that validation enforces bound the inputs of the models.
* The web application and the screens of the Android app: clients of the API
  with no protocol of their own. `api/docs/docs.go`, the e-mail theme and the
  dependency container, the longest files of the API, are generated text, layout
  and construction.

`components` in `PROJECT.json` says for each part that is modelled partly what
is left out of it.

## 8. Plan

What would add most to what there is:

1. `Entitlements`, against the same question as `OvershootIsInFlight`.
2. The receiving side of the Android app: its periodic workers and its retries.
3. Abstract specifications of `PhoneNotifications` and `HeartbeatMonitor`, as
   `MessagePromise` and `ContactBook` are of their components.
4. Lifecycle and notifications of two messages composed, if the state space
   allows.
