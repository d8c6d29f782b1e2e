-------------------------- MODULE MessageLifecycle --------------------------
(****************************************************************************)
(* The life of one outgoing message: the API that accepts it, the event     *)
(* queue that carries its events, the goroutines that handle them, the push *)
(* notification, the Android phone that fetches and transmits it, and the   *)
(* expiration check that retries or settles it.  Messages do not interact   *)
(* here (every statement is keyed by the message's ID), so one is enough.   *)
(*                                                                          *)
(* The queue is a count per event type: delivery is at least once and in no *)
(* order.  Handlers run concurrently, one per worker, and a handler is      *)
(* load -> mutate -> save of the whole row with nothing held in between.    *)
(*                                                                          *)
(* Actions that stand for something going wrong spend from one budget,      *)
(* MaxFaults.  A lost push notification spends nothing: it is the failure   *)
(* the retry is there for.                                                  *)
(****************************************************************************)
EXTENDS Message, FiniteSets

CONSTANTS
    Workers,     \* goroutines of the API that handle events at the same time
    MaxFaults,   \* bound on the things that go wrong
    MaxPushes,   \* bound on the push notifications sent, for TLC
    SlowTimers   \* TRUE: an expiration check is due only when no handler is
                 \* busy and no other event waits, i.e. the expiration time of
                 \* a phone (600 s by default) is longer than the queue's lag

ASSUME LifecycleAssumption ==
    /\ IsFiniteSet(Workers)
    /\ MaxFaults \in Nat
    /\ MaxPushes \in Nat
    /\ SlowTimers \in BOOLEAN

VARIABLES
    request,     \* SendMessage: "new", "stored" (row written), "done"
    row,         \* the row of the messages table
    queue,       \* queue[t]: events of type t waiting to be handled
    handler,     \* handler[w]: what worker w is in the middle of
    push,        \* push notifications on their way to the phone
    inbox,       \* fetched messages the phone has not transmitted yet
    reports,     \* reports[n]: results the phone has yet to post
    pushes,      \* history: push notifications sent so far
    sms,         \* history: SMS handed to the radio so far
    milestones,  \* history: what has happened to the message in the world
    faults       \* history: things that have gone wrong so far

phone   == <<inbox, reports>>
history == <<pushes, sms, milestones>>
vars    == <<request, row, queue, handler, push, phone, history, faults>>

APISent               == "message.api.sent"
NotificationScheduledEvent == "message.notification.scheduled"
NotificationSend      == "message.notification.send"
NotificationSent      == "message.notification.sent"
NotificationFailed    == "message.notification.failed"
PhoneSending          == "message.phone.sending"
PhoneSent             == "message.phone.sent"
PhoneDelivered        == "message.phone.delivered"
SendFailed            == "message.send.failed"
SendExpiredCheck      == "message.send.expired.check"
SendExpired           == "message.send.expired"
SendRetry             == "message.send.retry"

EventTypes == {APISent, NotificationScheduledEvent, NotificationSend,
               NotificationSent, NotificationFailed, PhoneSending, PhoneSent,
               PhoneDelivered, SendFailed, SendExpiredCheck, SendExpired,
               SendRetry}

\* The results a phone posts to /v1/messages/{id}/events and the event each
\* becomes (StoreEvent).
EventNames == {"SENT", "DELIVERED", "FAILED"}
EventOf(name) == CASE name = "SENT"      -> PhoneSent
                   [] name = "DELIVERED" -> PhoneDelivered
                   [] name = "FAILED"    -> SendFailed

\* "final" is the notice that there will be no further attempt (IsFinal), the
\* one the user gets an e-mail for.
Milestones == {"fetched", "delivered", "failed", "final", "deleted"}

\* A worker is idle, about to load the row, about to save the mutated row,
\* or about to dispatch the event that follows the save.
Idle == [step |-> "idle", event |-> "none", message |-> NoRow]
Tasks == {Idle} \cup [step : {"load", "save", "dispatch"},
                      event : EventTypes, message : Rows]

TypeOK ==
    /\ request \in {"new", "stored", "done"}
    /\ row \in Rows
    /\ queue \in [EventTypes -> Nat]
    /\ handler \in [Workers -> Tasks]
    /\ push \in Nat
    /\ inbox \in Nat
    /\ reports \in [EventNames -> Nat]
    /\ pushes \in Nat
    /\ sms \in Nat
    /\ milestones \in SUBSET Milestones
    /\ faults \in Nat

Init ==
    /\ request = "new"
    /\ row = NoRow
    /\ queue = [t \in EventTypes |-> 0]
    /\ handler = [w \in Workers |-> Idle]
    /\ push = 0
    /\ inbox = 0
    /\ reports = [n \in EventNames |-> 0]
    /\ pushes = 0
    /\ sms = 0
    /\ milestones = {}
    /\ faults = 0

----------------------------------------------------------------------------
(* The event queue. *)

\* Mutant: an off-by-one that handles an event nobody dispatched.
WaitingOrNot(t) == queue[t] >= 0

Waiting(t) == queue[t] > 0

Dispatched(q, t) == [q EXCEPT ![t] = @ + 1]
Handled(q, t)    == [q EXCEPT ![t] = @ - 1]

Dispatch(t) == queue' = Dispatched(queue, t)

Fault == faults < MaxFaults /\ faults' = faults + 1

(* The API: accepting and deleting a message. *)

\* SendMessage writes the row first ...
StoreSentMessage ==
    /\ request = "new"
    /\ request' = "stored"
    /\ row' = NewMessage
    /\ UNCHANGED <<queue, handler, push, phone, history, faults>>

\* ... and then dispatches the event that gets it scheduled.
DispatchAPISent ==
    /\ request = "stored"
    /\ request' = "done"
    /\ Dispatch(APISent)
    /\ UNCHANGED <<row, handler, push, phone, history, faults>>

\* The dispatch can fail: the client gets an error, the row stays.
DispatchAPISentFails ==
    /\ request = "stored"
    /\ request' = "done"
    /\ Fault
    /\ UNCHANGED <<row, queue, handler, push, phone, history>>

DeleteMessage ==
    /\ Exists(row)
    /\ row' = NoRow
    /\ milestones' = milestones \cup {"deleted"}
    /\ UNCHANGED <<request, queue, handler, push, phone, pushes, sms, faults>>

----------------------------------------------------------------------------
(* Push notifications: PhoneNotificationListener and its service. *)

\* Schedule announces the notification and queues its sending.  It never
\* looks at the message: the rate limit it applies is another module's matter.
Schedule ==
    \E t \in {APISent, SendRetry} :
        /\ Waiting(t)
        /\ queue' = Dispatched(Dispatched(Handled(queue, t),
                        NotificationScheduledEvent), NotificationSend)
        /\ UNCHANGED <<request, row, handler, push, phone, history, faults>>

\* A failure to dispatch message.notification.scheduled is only logged.
ScheduleUnannounced ==
    \E t \in {APISent, SendRetry} :
        /\ Waiting(t)
        /\ Fault
        /\ queue' = Dispatched(Handled(queue, t), NotificationSend)
        /\ UNCHANGED <<request, row, handler, push, phone, history>>

\* Send, when the transport takes the notification.
SendNotification ==
    /\ Waiting(NotificationSend)
    /\ pushes < MaxPushes
    /\ queue' = Dispatched(Handled(queue, NotificationSend), NotificationSent)
    /\ push' = push + 1
    /\ pushes' = pushes + 1
    /\ UNCHANGED <<request, row, handler, phone, sms, milestones, faults>>

\* Send, when there is no token or the transport reports an error.
SendNotificationFails ==
    /\ Waiting(NotificationSend)
    /\ queue' = Dispatched(Handled(queue, NotificationSend), NotificationFailed)
    /\ milestones' = milestones \cup {"failed"}
    /\ UNCHANGED <<request, row, handler, push, phone, pushes, sms, faults>>

\* A transport that timed out may have delivered the notification all the same.
SendNotificationFailsLate ==
    /\ Waiting(NotificationSend)
    /\ pushes < MaxPushes
    /\ Fault
    /\ queue' = Dispatched(Handled(queue, NotificationSend), NotificationFailed)
    /\ push' = push + 1
    /\ pushes' = pushes + 1
    /\ milestones' = milestones \cup {"failed"}
    /\ UNCHANGED <<request, row, handler, phone, sms>>

LosePush ==
    /\ push > 0
    /\ push' = push - 1
    /\ UNCHANGED <<request, row, queue, handler, phone, history, faults>>

----------------------------------------------------------------------------
(* The message listeners.  Handle is the shape they share: take the event, *)
(* load the row, give up unless its status is expected, mutate; Update is  *)
(* the save.  Publish only logs a listener's error, so the event is gone.  *)

Task(step, t, message) == [step |-> step, event |-> t, message |-> message]

Handle(w, t, expected, message) ==
    /\ handler[w] = Idle
    /\ Waiting(t)
    /\ queue' = Handled(queue, t)
    /\ handler' = IF row.status \in expected
                  THEN [handler EXCEPT ![w] = Task("save", t, message)]
                  ELSE handler
    /\ UNCHANGED <<request, row, push, phone, history, faults>>

HandleMessageSending(w) ==
    Handle(w, PhoneSending, {"sending"}, AddSendAttempt(row))

\* Mutant: the guard from before CheckExpired reported fetched messages as sent.
HandleMessageSentLate(w) ==
    Handle(w, PhoneSent, {"expired", "scheduled"}, Sent(row))

\* "sent" and "delivered" are a silent no-op, "pending" and "failed" an error.
HandleMessageSent(w) ==
    Handle(w, PhoneSent, {"sending", "expired", "scheduled"}, Sent(row))

\* Mutant: no guard, a failure is always taken.
HandleMessageFailedAnyway(w) == Handle(w, SendFailed, Statuses, Failed(row))

HandleMessageFailed(w) ==
    Handle(w, SendFailed, Statuses \ {"delivered"}, Failed(row))

HandleMessageDelivered(w) ==
    Handle(w, PhoneDelivered, {"sent", "sending", "expired", "scheduled"},
           Delivered(row))

\* An unexpected status is logged, the row is saved anyway.
HandleMessageNotificationScheduled(w) ==
    Handle(w, NotificationScheduledEvent, Statuses, NotificationScheduled(row))

\* Mutant: "scheduled" is not expected.
HandleMessageExpiredUnscheduled(w) ==
    Handle(w, SendExpired, {"sending", "pending"}, Expired(row))

HandleMessageExpired(w) ==
    Handle(w, SendExpired, {"sending", "scheduled", "pending"}, Expired(row))

\* onMessageNotificationSent: the expiration check is scheduled first ...
ScheduleExpirationCheck(w) ==
    /\ handler[w] = Idle
    /\ Waiting(NotificationSent)
    /\ queue' = Dispatched(Handled(queue, NotificationSent), SendExpiredCheck)
    /\ handler' = [handler EXCEPT ![w] = Task("load", NotificationSent, NoRow)]
    /\ UNCHANGED <<request, row, push, phone, history, faults>>

\* ... and the attempt is counted after it, whatever the status has become.
HandleMessageNotificationSent(w) ==
    /\ handler[w].step = "load"
    /\ handler' = [handler EXCEPT ![w] =
                      IF Exists(row)
                      THEN Task("save", @.event, AddSendAttemptCount(row))
                      ELSE Idle]
    /\ UNCHANGED <<request, row, queue, push, phone, history, faults>>

\* repository.Update: gorm's Save of the whole row, which inserts the row when
\* it is no longer there.
Update(w) ==
    /\ handler[w].step = "save"
    /\ row' = handler[w].message
    /\ handler' = [handler EXCEPT ![w] =
                      IF @.event = SendExpired /\ CanBeRescheduled(@.message)
                      THEN [@ EXCEPT !.step = "dispatch"]
                      ELSE Idle]
    /\ UNCHANGED <<request, queue, push, phone, history, faults>>

\* The end of HandleMessageExpired: an expired message is retried.
DispatchSendRetry(w) ==
    /\ handler[w].step = "dispatch"
    /\ Dispatch(SendRetry)
    /\ handler' = [handler EXCEPT ![w] = Idle]
    /\ UNCHANGED <<request, row, push, phone, history, faults>>

\* onMessageNotificationFailed stores a FAILED event for the message.
OnMessageNotificationFailed ==
    /\ Waiting(NotificationFailed)
    /\ queue' = IF Exists(row)
                THEN Dispatched(Handled(queue, NotificationFailed), SendFailed)
                ELSE Handled(queue, NotificationFailed)
    /\ UNCHANGED <<request, row, handler, push, phone, history, faults>>

CheckIsDue ==
    SlowTimers => /\ \A t \in EventTypes \ {SendExpiredCheck} : queue[t] = 0
                  /\ \A w \in Workers : handler[w] = Idle

\* Mutant: a notification that was announced counts as fetched.
ScheduledCountsAsSent(message) == message.status \in {"scheduled", "sending"}

\* The phone's fetch counts as the sending of the message.
CountsAsSent(message) == message.status = "sending"

\* Mutant: the last attempt is the one after the last.
IsFinalTooLate(message) == message.SendAttemptCount > MaxSendAttempts

IsFinal(message) == message.SendAttemptCount = MaxSendAttempts

\* A fetched message counts as sent, one that was never fetched expires.
CheckExpired ==
    /\ Waiting(SendExpiredCheck)
    /\ CheckIsDue
    /\ LET rest == Handled(queue, SendExpiredCheck) IN
       \/ /\ CountsAsSent(row)
          /\ queue' = Dispatched(rest, PhoneSent)
          /\ UNCHANGED milestones
       \/ /\ row.status \in {"pending", "scheduled"} /\ ~CountsAsSent(row)
          /\ queue' = Dispatched(rest, SendExpired)
          /\ milestones' = IF IsFinal(row)
                           THEN milestones \cup {"final"} ELSE milestones
       \/ /\ row.status \notin {"pending", "scheduled", "sending"}
          /\ queue' = rest
          /\ UNCHANGED milestones
    /\ UNCHANGED <<request, row, handler, push, phone, pushes, sms, faults>>

----------------------------------------------------------------------------
(* The phone. *)

\* SendSmsWorker asks for the message; the API claims it in one UPDATE.
GetOutstanding ==
    /\ push > 0
    /\ push' = push - 1
    /\ IF row.status \in Outstanding
       THEN /\ row' = [row EXCEPT !.status = "sending"]
            /\ Dispatch(PhoneSending)
            /\ inbox' = inbox + 1
            /\ milestones' = milestones \cup {"fetched"}
       ELSE UNCHANGED <<row, queue, inbox, milestones>>
    /\ UNCHANGED <<request, handler, reports, pushes, sms, faults>>

\* The claim is made but the answer is lost: the dispatch fails, or the
\* connection does.  The worker does not ask again.
GetOutstandingLost ==
    /\ push > 0
    /\ row.status \in Outstanding
    /\ Fault
    /\ push' = push - 1
    /\ row' = [row EXCEPT !.status = "sending"]
    /\ milestones' = milestones \cup {"fetched"}
    /\ (Dispatch(PhoneSending) \/ UNCHANGED queue)
    /\ UNCHANGED <<request, handler, phone, pushes, sms>>

\* The results an SMS handed to the radio may have, as the broadcasts give
\* them: SentReceiver hears at most once, DeliveredReceiver often never.
Results == {{"SENT"}, {"SENT", "DELIVERED"}, {"SENT", "FAILED"}, {"FAILED"}}

Report(names) ==
    /\ reports' = [n \in EventNames |->
                      IF n \in names THEN reports[n] + 1 ELSE reports[n]]
    /\ milestones' = milestones
            \cup (IF "DELIVERED" \in names THEN {"delivered"} ELSE {})
            \cup (IF "FAILED" \in names THEN {"failed"} ELSE {})

\* The SMS goes to the radio.  When its results come in is left to PostEvent:
\* each waits in reports for as long as the radio and the network take.
Transmit ==
    /\ inbox > 0
    /\ inbox' = inbox - 1
    /\ sms' = sms + 1
    /\ \E names \in Results : Report(names)
    /\ UNCHANGED <<request, row, queue, handler, push, pushes, faults>>

\* No contact, SIM disabled, no key, or the SMS manager throws.
TransmitFails ==
    /\ inbox > 0
    /\ inbox' = inbox - 1
    /\ Report({"FAILED"})
    /\ UNCHANGED <<request, row, queue, handler, push, pushes, sms, faults>>

\* Sent-, Failed- and DeliveredMessageWorker post until they get a 2xx or 404 ...
PostEvent ==
    \E name \in EventNames :
        /\ reports[name] > 0
        /\ reports' = [reports EXCEPT ![name] = @ - 1]
        /\ IF Exists(row) THEN Dispatch(EventOf(name)) ELSE UNCHANGED queue
        /\ UNCHANGED <<request, row, handler, push, inbox, history, faults>>

\* ... or no answer at all: what sendEvent throws ends the worker, and the report
\* is given up.
PostEventFails ==
    \E name \in EventNames :
        /\ reports[name] > 0
        /\ Fault
        /\ reports' = [reports EXCEPT ![name] = @ - 1]
        /\ UNCHANGED <<request, row, queue, handler, push, inbox, history>>

\* The app is killed after it sent a fetched message, or before; or the radio
\* never answers, which CheckExpired allows for.
PhoneForgets ==
    /\ inbox > 0
    /\ inbox' = inbox - 1
    /\ (sms' = sms + 1 \/ UNCHANGED sms)
    /\ Fault
    /\ UNCHANGED <<request, row, queue, handler, push, reports, pushes,
                   milestones>>

----------------------------------------------------------------------------
(* What the queue and the API's process may do wrong. *)

\* An enqueue that timed out after it took effect is made again; a task whose
\* answer was lost is delivered again.
Duplicate ==
    \E t \in EventTypes :
        /\ Waiting(t)
        /\ Fault
        /\ Dispatch(t)
        /\ UNCHANGED <<request, row, handler, push, phone, history>>

\* A local timer dies with the process; a listener fails on the database.
Lose ==
    \E t \in EventTypes :
        /\ Waiting(t)
        /\ Fault
        /\ queue' = Handled(queue, t)
        /\ UNCHANGED <<request, row, handler, push, phone, history>>

\* A handler dies half-way.  Without an answer the queue delivers the event
\* again; an event published by a local timer is gone.
Crash(w) ==
    /\ handler[w] # Idle
    /\ Fault
    /\ handler' = [handler EXCEPT ![w] = Idle]
    /\ Dispatch(handler[w].event) \/ UNCHANGED queue
    /\ UNCHANGED <<request, row, push, phone, history>>

----------------------------------------------------------------------------
HandlerNext(w) ==
    \/ HandleMessageSending(w)
    \/ HandleMessageSent(w)
    \/ HandleMessageFailed(w)
    \/ HandleMessageDelivered(w)
    \/ HandleMessageNotificationScheduled(w)
    \/ HandleMessageExpired(w)
    \/ ScheduleExpirationCheck(w)
    \/ HandleMessageNotificationSent(w)
    \/ Update(w)
    \/ DispatchSendRetry(w)

NotificationNext ==
    \/ Schedule
    \/ SendNotification
    \/ SendNotificationFails
    \/ OnMessageNotificationFailed

PhoneNext ==
    \/ GetOutstanding
    \/ Transmit
    \/ TransmitFails
    \/ PostEvent

FaultNext ==
    \/ DispatchAPISentFails
    \/ ScheduleUnannounced
    \/ SendNotificationFailsLate
    \/ GetOutstandingLost
    \/ PostEventFails
    \/ PhoneForgets
    \/ Duplicate
    \/ Lose
    \/ \E w \in Workers : Crash(w)

Next ==
    \/ StoreSentMessage
    \/ DispatchAPISent
    \/ DeleteMessage
    \/ NotificationNext
    \/ \E w \in Workers : HandlerNext(w)
    \/ CheckExpired
    \/ LosePush
    \/ PhoneNext
    \/ FaultNext

Spec == Init /\ [][Next]_vars

\* What the queue, the API's goroutines and the phone keep doing as long as
\* there is something to do.  Users are under no obligation, nothing has to go
\* wrong, and a push notification is fetched or lost but not kept for ever.
Fairness ==
    /\ WF_vars(DispatchAPISent)
    /\ WF_vars(Schedule)
    /\ WF_vars(SendNotification \/ SendNotificationFails)
    /\ WF_vars(OnMessageNotificationFailed)
    /\ \A w \in Workers : WF_vars(HandlerNext(w))
    /\ WF_vars(CheckExpired)
    /\ WF_vars(GetOutstanding \/ LosePush)
    /\ WF_vars(Transmit \/ TransmitFails)
    /\ WF_vars(PostEvent)

FairSpec == Spec /\ Fairness

----------------------------------------------------------------------------
(* Properties. *)

\* What a row says has happened: a message that is being sent or was sent has
\* been fetched by the phone, ...
FetchedRow(message) ==
    message.status \in {"sending", "sent"} => "fetched" \in milestones

\* ... one that was delivered has a delivery report, ...
DeliveredRow(message) ==
    message.status = "delivered" => "delivered" \in milestones

\* ... one that failed has failed somewhere, ...
FailedRow(message) ==
    message.status = "failed" => "failed" \in milestones

\* ... and one that expired had been pushed to the phone.
ExpiredRow(message) == message.status = "expired" => pushes > 0

EarnedRow(message) ==
    /\ FetchedRow(message)
    /\ DeliveredRow(message)
    /\ FailedRow(message)
    /\ ExpiredRow(message)

\* The status the API shows is earned: whatever handlers overlap, whatever is
\* lost, repeated, reordered or dies half-way, no message is shown as sent,
\* delivered, failed or expired for which that did not happen in the world.
StatusIsEarned == EarnedRow(row)

\* An outcome is not taken back: delivered and failed stay, sent may still
\* become delivered or failed, and only deletion removes them.  The guards of
\* all seven listeners together keep this, for any order of their events, as long
\* as no two of them are at work on the message at once: each saves the whole row.
OutcomeIsFinal ==
    [][ /\ row.status \in {"delivered", "failed"} =>
              row'.status \in {row.status, "none"}
        /\ row.status = "sent" =>
              row'.status \in {"sent", "delivered", "failed", "none"} ]_row

\* The recipient gets no more copies than the phone's MaxSendAttempts, plus one
\* for each thing that went wrong: retries are paid for by counted attempts.
CopiesAreBounded == sms <= MaxSendAttempts + faults

\* The counter never runs ahead of the notifications, whatever saves overlap or
\* are repeated: a message is never given up (CanBeRescheduled, IsFinal) before
\* it was pushed to the phone as often as its MaxSendAttempts says.
AttemptsArePushed == row.SendAttemptCount <= pushes + faults

\* Nothing is left to happen.
Quiet ==
    /\ request = "done"
    /\ \A t \in EventTypes : queue[t] = 0
    /\ \A w \in Workers : handler[w] = Idle
    /\ push = 0
    /\ inbox = 0
    /\ \A n \in EventNames : reports[n] = 0

\* A message that still waits for the phone always has an event, a handler or a
\* push notification that will move it: none is pending or scheduled for ever.
\* (A deleted one may be, once a handler that held it has saved it again.)
NeverStranded ==
    Quiet /\ row.status \in {"pending", "scheduled"} => "deleted" \in milestones

\* A message that ends up expired was announced with IsFinal, so that its user
\* got the e-mail: the check and the retry agree on which attempt was the last.
ExpiryIsAnnounced ==
    Quiet /\ row.status = "expired" =>
        "final" \in milestones \/ "deleted" \in milestones

\* Every accepted message ends sent, delivered, failed, expired or deleted.
EventuallySettled ==
    (request = "stored") ~>
        [](\/ row.status \in {"sent", "delivered", "failed", "expired"}
           \/ "deleted" \in milestones)

\* What the owner of the message sees of it.
Promise == INSTANCE MessagePromise WITH
    status <- row.status, copies <- sms, happened <- milestones, mishaps <- faults

\* The request, the queue, the seven handlers, the check and the phone together
\* keep the promise to the owner, as long as no two handlers of the message
\* overlap: whatever is late, lost or repeated, a status that is shown is earned
\* and may follow the one before it, no push and no copy exceeds the maximum of
\* attempts but for something that went wrong, and nobody is told too early that
\* an attempt was the last.
KeepsPromise == Promise!Spec
============================================================================
