----------------------- MODULE MessageLifecycleProofs -----------------------
(****************************************************************************)
(* What holds of a message for any number of workers, faults, pushes and    *)
(* send attempts.                                                           *)
(*                                                                          *)
(* Of handlers that overlap as they like: type correctness, StatusIsEarned  *)
(* and AttemptsArePushed.  StatusIsEarned speaks of the row only.  It is    *)
(* not inductive: a handler will overwrite the row with what it holds, and  *)
(* what it holds rests on the event it handles, which rests on what the     *)
(* phone reported.  EarnedInv says of each of these that it is earned too.  *)
(*                                                                          *)
(* Of handlers that do not overlap: OutcomeIsFinal, CopiesAreBounded,       *)
(* NeverStranded and ExpiryIsAnnounced (the second part, below), and that   *)
(* the message implements MessagePromise.                                   *)
(*                                                                          *)
(* Of the deliveries of a message's events: FailureIsTold (the end).        *)
(****************************************************************************)
EXTENDS MessageDeliveries, FiniteSetTheorems, TLAPS

----------------------------------------------------------------------------
(* The queue. *)

\* Dispatching an event changes the count of its type and no other.
LEMMA DispatchedCounts ==
    ASSUME NEW q \in [EventTypes -> Nat], NEW t \in EventTypes
    PROVE  /\ Dispatched(q, t) \in [EventTypes -> Nat]
           /\ \A u \in EventTypes :
                 Dispatched(q, t)[u] = IF u = t THEN q[u] + 1 ELSE q[u]
  BY DEF Dispatched

\* Handling an event that waits changes the count of its type and no other.
LEMMA HandledCounts ==
    ASSUME NEW q \in [EventTypes -> Nat], NEW t \in EventTypes, q[t] > 0
    PROVE  /\ Handled(q, t) \in [EventTypes -> Nat]
           /\ \A u \in EventTypes :
                 Handled(q, t)[u] = IF u = t THEN q[u] - 1 ELSE q[u]
  BY DEF Handled

LEMMA NamesAreTypes ==
    /\ APISent \in EventTypes
    /\ NotificationScheduledEvent \in EventTypes
    /\ NotificationSend \in EventTypes
    /\ NotificationSent \in EventTypes
    /\ NotificationFailed \in EventTypes
    /\ PhoneSending \in EventTypes
    /\ PhoneSent \in EventTypes
    /\ PhoneDelivered \in EventTypes
    /\ SendFailed \in EventTypes
    /\ SendExpiredCheck \in EventTypes
    /\ SendExpired \in EventTypes
    /\ SendRetry \in EventTypes
  BY DEF EventTypes

\* Handling one event and dispatching another, as most listeners do.
LEMMA FollowedCounts ==
    ASSUME NEW q \in [EventTypes -> Nat], NEW t \in EventTypes, q[t] > 0,
           NEW next \in EventTypes
    PROVE  /\ Dispatched(Handled(q, t), next) \in [EventTypes -> Nat]
           /\ \A u \in EventTypes :
                 Dispatched(Handled(q, t), next)[u] > q[u] => u = next
<1> DEFINE rest == Handled(q, t)
<1>1. rest \in [EventTypes -> Nat] /\ \A u \in EventTypes : rest[u] <= q[u]
  BY HandledCounts
<1> HIDE DEF rest
<1>2. /\ Dispatched(rest, next) \in [EventTypes -> Nat]
      /\ \A u \in EventTypes : Dispatched(rest, next)[u] > q[u] => u = next
  BY <1>1, DispatchedCounts
<1>3. QED
  BY <1>2 DEF rest

LEMMA EventOfType == \A n \in EventNames : EventOf(n) \in EventTypes
  BY DEF EventNames, EventOf, EventTypes

----------------------------------------------------------------------------
(* Type correctness. *)

\* The mutations of a row that exists keep it a row.
LEMMA MutationTypes ==
    ASSUME NEW m \in Rows
    PROVE  /\ Sent(m) \in Rows
           /\ Failed(m) \in Rows
           /\ Delivered(m) \in Rows
           /\ Expired(m) \in Rows
           /\ AddSendAttempt(m) \in Rows
           /\ AddSendAttemptCount(m) \in Rows
           /\ NotificationScheduled(m) \in Rows
  BY DEF Rows, Statuses, Sent, Failed, Delivered, Expired, AddSendAttempt,
         AddSendAttemptCount, NotificationScheduled

\* What all the handlers that load, check and mutate have in common.
LEMMA HandleType ==
    ASSUME TypeOK, NEW w \in Workers, NEW t \in EventTypes, NEW expected,
           NEW m \in Rows, Handle(w, t, expected, m)
    PROVE  TypeOK'
<1>1. queue' \in [EventTypes -> Nat]
  BY HandledCounts DEF TypeOK, Handle, Waiting
<1>2. Task("save", t, m) \in Tasks
  BY DEF Task, Tasks
<1>3. handler' \in [Workers -> Tasks]
  BY <1>2 DEF TypeOK, Handle
<1>4. QED
  BY <1>1, <1>3 DEF TypeOK, Handle, phone, history

\* A worker's step from one task to the next or back to idle.
LEMMA HandlerNextType ==
    ASSUME TypeOK, NEW w \in Workers, HandlerNext(w)
    PROVE  TypeOK'
<1> USE DEF TypeOK
<1>1. CASE \/ HandleMessageSending(w) \/ HandleMessageSent(w)
           \/ HandleMessageFailed(w) \/ HandleMessageDelivered(w)
           \/ HandleMessageNotificationScheduled(w)
           \/ HandleMessageExpired(w)
  BY <1>1, HandleType, MutationTypes, NamesAreTypes
     DEF HandleMessageSending, HandleMessageSent, HandleMessageFailed,
         HandleMessageDelivered, HandleMessageNotificationScheduled,
         HandleMessageExpired
<1>2. CASE ScheduleExpirationCheck(w)
  <2>1. queue' \in [EventTypes -> Nat]
    BY <1>2, FollowedCounts, NamesAreTypes
       DEF ScheduleExpirationCheck, Waiting
  <2>2. Task("load", NotificationSent, NoRow) \in Tasks
    BY NamesAreTypes DEF Task, Tasks, NoRow, Rows, Statuses
  <2>3. handler' \in [Workers -> Tasks]
    BY <1>2, <2>2 DEF ScheduleExpirationCheck
  <2>4. QED
    BY <1>2, <2>1, <2>3 DEF ScheduleExpirationCheck, phone, history
<1>3. CASE HandleMessageNotificationSent(w)
  <2>1. handler[w].event \in EventTypes
    BY <1>3 DEF HandleMessageNotificationSent, Tasks, Idle
  <2>2. Task("save", handler[w].event, AddSendAttemptCount(row)) \in Tasks
    BY <2>1, MutationTypes DEF Task, Tasks
  <2>3. handler' \in [Workers -> Tasks]
    BY <1>3, <2>2 DEF HandleMessageNotificationSent, Tasks
  <2>4. QED
    BY <1>3, <2>3 DEF HandleMessageNotificationSent, phone, history
<1>4. CASE Update(w)
  <2>1. handler[w] \in [step : {"load", "save", "dispatch"},
                        event : EventTypes, message : Rows]
    BY <1>4 DEF Update, Tasks, Idle
  <2>2. [handler[w] EXCEPT !.step = "dispatch"] \in Tasks
    BY <2>1 DEF Tasks
  <2>3. handler' \in [Workers -> Tasks]
    BY <1>4, <2>2 DEF Update, Tasks
  <2>4. QED
    BY <1>4, <2>1, <2>3 DEF Update, phone, history
<1>5. CASE DispatchSendRetry(w)
  <2>1. queue' \in [EventTypes -> Nat]
    BY <1>5, DispatchedCounts, NamesAreTypes DEF DispatchSendRetry, Dispatch
  <2>2. handler' \in [Workers -> Tasks]
    BY <1>5 DEF DispatchSendRetry, Tasks
  <2>3. QED
    BY <1>5, <2>1, <2>2 DEF DispatchSendRetry, phone, history
<1>6. QED
  BY <1>1, <1>2, <1>3, <1>4, <1>5 DEF HandlerNext

\* A push notification scheduled, sent or failed.
LEMMA NotificationNextType ==
    ASSUME TypeOK, NotificationNext
    PROVE  TypeOK'
<1> USE DEF TypeOK
<1>1. CASE Schedule
  <2>1. PICK t \in {APISent, SendRetry} :
          /\ Waiting(t)
          /\ queue' = Dispatched(Dispatched(Handled(queue, t),
                          NotificationScheduledEvent), NotificationSend)
    BY <1>1 DEF Schedule
  <2>2. Dispatched(Handled(queue, t), NotificationScheduledEvent)
          \in [EventTypes -> Nat]
    BY <2>1, FollowedCounts, NamesAreTypes DEF Waiting
  <2>3. queue' \in [EventTypes -> Nat]
    BY <2>1, <2>2, DispatchedCounts, NamesAreTypes
  <2>4. QED
    BY <1>1, <2>3 DEF Schedule, phone, history
<1>2. CASE SendNotification
  BY <1>2, FollowedCounts, NamesAreTypes
     DEF SendNotification, Waiting, phone
<1>3. CASE SendNotificationFails
  BY <1>3, FollowedCounts, NamesAreTypes
     DEF SendNotificationFails, Waiting, Milestones, phone
<1>4. CASE OnMessageNotificationFailed
  BY <1>4, FollowedCounts, HandledCounts, NamesAreTypes
     DEF OnMessageNotificationFailed, Waiting, phone, history
<1>5. QED
  BY <1>1, <1>2, <1>3, <1>4 DEF NotificationNext

LEMMA ReportType ==
    ASSUME TypeOK, NEW names, Report(names)
    PROVE  /\ reports' \in [EventNames -> Nat]
           /\ milestones' \in SUBSET Milestones
  BY DEF TypeOK, Report, EventNames, Milestones

LEMMA PhoneNextType ==
    ASSUME TypeOK, PhoneNext
    PROVE  TypeOK'
<1> USE DEF TypeOK
<1>1. CASE GetOutstanding
  <2>1. row' \in Rows
    BY <1>1 DEF GetOutstanding, Rows, Statuses
  <2>2. queue' \in [EventTypes -> Nat]
    BY <1>1, DispatchedCounts, NamesAreTypes DEF GetOutstanding, Dispatch
  <2>3. QED
    BY <1>1, <2>1, <2>2 DEF GetOutstanding, Milestones
<1>2. CASE Transmit
  BY <1>2, ReportType DEF Transmit
<1>3. CASE TransmitFails
  BY <1>3, ReportType DEF TransmitFails
<1>4. CASE PostEvent
  BY <1>4, DispatchedCounts, EventOfType DEF PostEvent, Dispatch, history
<1>5. QED
  BY <1>1, <1>2, <1>3, <1>4 DEF PhoneNext

LEMMA FaultNextType ==
    ASSUME TypeOK, FaultNext
    PROVE  TypeOK'
<1> USE DEF TypeOK, Fault
<1>1. CASE DispatchAPISentFails
  BY <1>1 DEF DispatchAPISentFails, phone, history
<1>2. CASE ScheduleUnannounced
  BY <1>2, FollowedCounts, NamesAreTypes
     DEF ScheduleUnannounced, Waiting, phone, history
<1>3. CASE SendNotificationFailsLate
  BY <1>3, FollowedCounts, NamesAreTypes
     DEF SendNotificationFailsLate, Waiting, Milestones, phone
<1>4. CASE GetOutstandingLost
  <2>1. row' \in Rows
    BY <1>4 DEF GetOutstandingLost, Rows, Statuses
  <2>2. queue' \in [EventTypes -> Nat]
    BY <1>4, DispatchedCounts, NamesAreTypes DEF GetOutstandingLost, Dispatch
  <2>3. QED
    BY <1>4, <2>1, <2>2 DEF GetOutstandingLost, Milestones, phone
<1>5. CASE PhoneForgets \/ PostEventFails
  BY <1>5 DEF PhoneForgets, PostEventFails, history
<1>6. CASE Duplicate
  BY <1>6, DispatchedCounts, NamesAreTypes DEF Duplicate, Dispatch, phone, history
<1>7. CASE Lose
  BY <1>7, HandledCounts DEF Lose, Waiting, phone, history
<1>8. ASSUME NEW w \in Workers, Crash(w)
      PROVE  TypeOK'
  <2>1. handler[w].event \in EventTypes
    BY <1>8 DEF Crash, Tasks
  <2>2. queue' \in [EventTypes -> Nat]
    BY <1>8, <2>1, DispatchedCounts, NamesAreTypes DEF Crash, Dispatch
  <2>3. handler' \in [Workers -> Tasks]
    BY <1>8 DEF Crash, Tasks
  <2>4. QED
    BY <1>8, <2>2, <2>3 DEF Crash, phone, history
<1>9. QED
  BY <1>1, <1>2, <1>3, <1>4, <1>5, <1>6, <1>7, <1>8 DEF FaultNext

LEMMA TypeOKIsInductive == TypeOK /\ [Next]_vars => TypeOK'
<1> SUFFICES ASSUME TypeOK, [Next]_vars
             PROVE  TypeOK'
  OBVIOUS
<1> USE DEF TypeOK
<1>1. CASE StoreSentMessage
  BY <1>1 DEF StoreSentMessage, NewMessage, Rows, Statuses, phone, history
<1>2. CASE DispatchAPISent
  BY <1>2, DispatchedCounts, NamesAreTypes
     DEF DispatchAPISent, Dispatch, phone, history
<1>3. CASE DeleteMessage
  BY <1>3 DEF DeleteMessage, NoRow, Rows, Milestones, phone
<1>4. CASE NotificationNext
  BY <1>4, NotificationNextType
<1>5. CASE \E w \in Workers : HandlerNext(w)
  BY <1>5, HandlerNextType
<1>6. CASE CheckExpired
  <2>1. queue' \in [EventTypes -> Nat]
    BY <1>6, FollowedCounts, HandledCounts, NamesAreTypes
       DEF CheckExpired, Waiting
  <2>2. milestones' \in SUBSET Milestones
    BY <1>6 DEF CheckExpired, Milestones
  <2>3. QED
    BY <1>6, <2>1, <2>2 DEF CheckExpired, phone
<1>7. CASE LosePush
  BY <1>7 DEF LosePush, phone, history
<1>8. CASE PhoneNext
  BY <1>8, PhoneNextType
<1>9. CASE FaultNext
  BY <1>9, FaultNextType
<1>10. CASE UNCHANGED vars
  BY <1>10 DEF vars, phone, history
<1>11. QED
  BY <1>1, <1>2, <1>3, <1>4, <1>5, <1>6, <1>7, <1>8, <1>9, <1>10 DEF Next

\* Every variable keeps its type: in particular no event is handled, no push
\* fetched and no result posted that was not there.
THEOREM TypeCorrect == Spec => []TypeOK
<1>1. Init => TypeOK
  BY DEF Init, TypeOK, NoRow, Rows, Tasks
<1>2. TypeOK /\ [Next]_vars => TypeOK'
  BY TypeOKIsInductive
<1>3. QED
  BY <1>1, <1>2, PTL DEF Spec

----------------------------------------------------------------------------
(* The status is earned. *)

\* What must have happened for an event of a type to be dispatched.
Cause(t) ==
    /\ t = PhoneSent => "fetched" \in milestones
    /\ t = PhoneDelivered => "delivered" \in milestones
    /\ t \in {SendFailed, NotificationFailed} => "failed" \in milestones
    /\ t \in {NotificationSent, SendExpiredCheck, SendExpired} => pushes > 0

EventsAreEarned == \A t \in EventTypes : queue[t] > 0 => Cause(t)

\* A handler holds an earned row, and an event that had its cause: it goes back
\* to the queue when the handler dies.
TaskIsEarned(task) ==
    /\ EarnedRow(task.message)
    /\ task.event \in EventTypes => Cause(task.event)

HandlersAreEarned == \A w \in Workers : TaskIsEarned(handler[w])

PhoneIsEarned ==
    /\ inbox > 0 => "fetched" \in milestones
    /\ \A n \in EventNames : reports[n] > 0 => Cause(EventOf(n))

\* The inductive invariant.  A result can be in reports only after a fetch;
\* PhoneIsEarned says so with the causes of the event each result becomes.
EarnedInv ==
    /\ StatusIsEarned
    /\ EventsAreEarned
    /\ HandlersAreEarned
    /\ PhoneIsEarned

\* The events anything may cause.
FreeTypes == {APISent, NotificationScheduledEvent, NotificationSend,
              PhoneSending, SendRetry}

LEMMA CauseIsFree ==
    \A t \in FreeTypes : Cause(t) /\ Cause(t)'
  BY DEF FreeTypes, Cause, APISent, NotificationScheduledEvent,
         NotificationSend, PhoneSending, SendRetry, PhoneSent, PhoneDelivered,
         SendFailed, NotificationFailed, NotificationSent, SendExpiredCheck,
         SendExpired

LEMMA FetchedCause == "fetched" \in milestones' => Cause(PhoneSent)'
  BY DEF Cause, PhoneSent, PhoneDelivered, SendFailed, NotificationFailed,
         NotificationSent, SendExpiredCheck, SendExpired

LEMMA DeliveredCause == "delivered" \in milestones' => Cause(PhoneDelivered)'
  BY DEF Cause, PhoneSent, PhoneDelivered, SendFailed, NotificationFailed,
         NotificationSent, SendExpiredCheck, SendExpired

LEMMA FailedCause ==
    "failed" \in milestones' =>
        Cause(SendFailed)' /\ Cause(NotificationFailed)'
  BY DEF Cause, PhoneSent, PhoneDelivered, SendFailed, NotificationFailed,
         NotificationSent, SendExpiredCheck, SendExpired

LEMMA PushedCause ==
    pushes' > 0 =>
        /\ Cause(NotificationSent)'
        /\ Cause(SendExpiredCheck)'
        /\ Cause(SendExpired)'
  BY DEF Cause, PhoneSent, PhoneDelivered, SendFailed, NotificationFailed,
         NotificationSent, SendExpiredCheck, SendExpired

\* What has happened in the world is never undone.
Grows == milestones \subseteq milestones' /\ pushes <= pushes'

LEMMA StepsGrow ==
    ASSUME TypeOK, Next
    PROVE  Grows
<1> USE DEF TypeOK, Grows, phone, history
<1>1. CASE StoreSentMessage \/ DispatchAPISent \/ DeleteMessage
  BY <1>1 DEF StoreSentMessage, DispatchAPISent, DeleteMessage
<1>2. CASE NotificationNext
  BY <1>2 DEF NotificationNext, Schedule, SendNotification,
              SendNotificationFails, OnMessageNotificationFailed
<1>3. ASSUME NEW w \in Workers, HandlerNext(w)
      PROVE  Grows
  BY <1>3 DEF HandlerNext, HandleMessageSending, HandleMessageSent,
              HandleMessageFailed, HandleMessageDelivered,
              HandleMessageNotificationScheduled, HandleMessageExpired,
              Handle, ScheduleExpirationCheck, HandleMessageNotificationSent,
              Update, DispatchSendRetry
<1>4. CASE CheckExpired
  BY <1>4 DEF CheckExpired
<1>5. CASE LosePush
  BY <1>5 DEF LosePush
<1>6. CASE PhoneNext
  BY <1>6 DEF PhoneNext, GetOutstanding, Transmit, TransmitFails, Report,
              PostEvent
<1>7. CASE FaultNext
  BY <1>7 DEF FaultNext, DispatchAPISentFails, ScheduleUnannounced,
              SendNotificationFailsLate, GetOutstandingLost, PhoneForgets,
              PostEventFails, Duplicate, Lose, Crash
<1>8. QED
  BY <1>1, <1>2, <1>3, <1>4, <1>5, <1>6, <1>7 DEF Next

\* So what is earned stays earned.
LEMMA EarnedStays ==
    ASSUME TypeOK, TypeOK', Grows, NEW message, EarnedRow(message)
    PROVE  EarnedRow(message)'
  BY DEF TypeOK, Grows, EarnedRow, FetchedRow, DeliveredRow, FailedRow,
         ExpiredRow

LEMMA CauseStays ==
    ASSUME TypeOK, TypeOK', Grows, NEW t, Cause(t)
    PROVE  Cause(t)'
  BY DEF TypeOK, Grows, Cause

\* A step that replaces the row by an earned one keeps StatusIsEarned, ...
LEMMA RowStaysEarned ==
    ASSUME TypeOK, TypeOK', Grows, StatusIsEarned,
           row' = row \/ EarnedRow(row')
    PROVE  StatusIsEarned'
<1>1. EarnedRow(row)
  BY DEF StatusIsEarned
<1>2. QED
  BY <1>1 DEF TypeOK, Grows, StatusIsEarned, EarnedRow, FetchedRow,
              DeliveredRow, FailedRow, ExpiredRow

\* ... one that dispatches only events that have their cause EventsAreEarned, ...
LEMMA EventsStayEarned ==
    ASSUME TypeOK, TypeOK', Grows, EventsAreEarned,
           \A t \in EventTypes : queue'[t] > queue[t] => Cause(t)'
    PROVE  EventsAreEarned'
<1> SUFFICES ASSUME NEW t \in EventTypes, queue'[t] > 0
             PROVE  Cause(t)'
  BY DEF EventsAreEarned
<1>1. CASE queue'[t] > queue[t]
  BY <1>1
<1>2. CASE ~(queue'[t] > queue[t])
  <2>1. queue[t] > 0
    BY <1>2 DEF TypeOK
  <2>2. Cause(t)
    BY <2>1 DEF EventsAreEarned
  <2>3. QED
    BY <2>2, CauseStays
<1>3. QED
  BY <1>1, <1>2

\* ... and one that gives a handler an earned task HandlersAreEarned.
LEMMA HandlersStayEarned ==
    ASSUME TypeOK, TypeOK', Grows, HandlersAreEarned,
           \A w \in Workers : handler'[w] = handler[w]
                               \/ TaskIsEarned(handler'[w])
    PROVE  HandlersAreEarned'
<1> SUFFICES ASSUME NEW w \in Workers
             PROVE  TaskIsEarned(handler[w])'
  BY DEF HandlersAreEarned
<1>1. TaskIsEarned(handler'[w])
  BY DEF HandlersAreEarned
<1>2. EarnedRow(handler'[w].message)
  BY <1>1 DEF TaskIsEarned
<1>3. EarnedRow(handler[w].message)'
  BY <1>2 DEF TypeOK, Grows, EarnedRow, FetchedRow, DeliveredRow, FailedRow,
              ExpiredRow
<1>4. ASSUME handler'[w].event \in EventTypes
      PROVE  Cause(handler[w].event)'
  <2>1. Cause(handler'[w].event)
    BY <1>1, <1>4 DEF TaskIsEarned
  <2>2. QED
    BY <2>1 DEF TypeOK, Grows, Cause
<1>5. QED
  BY <1>3, <1>4 DEF TaskIsEarned, EventTypes

LEMMA PhoneStaysEarned ==
    ASSUME TypeOK, TypeOK', Grows, PhoneIsEarned,
           inbox' > inbox => "fetched" \in milestones',
           \A n \in EventNames :
               reports'[n] > reports[n] => Cause(EventOf(n))'
    PROVE  PhoneIsEarned'
<1>1. inbox' > 0 => "fetched" \in milestones'
  BY DEF TypeOK, Grows, PhoneIsEarned
<1>2. ASSUME NEW n \in EventNames, reports'[n] > 0
      PROVE  Cause(EventOf(n))'
  <2>1. CASE reports'[n] > reports[n]
    BY <2>1
  <2>2. CASE ~(reports'[n] > reports[n])
    <3>1. reports[n] > 0
      BY <1>2, <2>2 DEF TypeOK
    <3>2. Cause(EventOf(n))
      BY <3>1 DEF PhoneIsEarned
    <3>3. PICK t : t = EventOf(n)
      OBVIOUS
    <3>4. Cause(t)'
      BY <3>2, <3>3, CauseStays
    <3>5. QED
      BY <3>3, <3>4 DEF Cause
  <2>3. QED
    BY <2>1, <2>2
<1>3. QED
  BY <1>1, <1>2 DEF PhoneIsEarned

\* The handlers: each takes an event with its cause and a row that is earned,
\* and holds a row that is.
LEMMA HandleEarned ==
    ASSUME TypeOK, TypeOK', Grows, EarnedInv, NEW w \in Workers,
           NEW t \in EventTypes, NEW expected, NEW m \in Rows,
           Handle(w, t, expected, m),
           row.status \in expected => EarnedRow(m)
    PROVE  EarnedInv'
<1>1. StatusIsEarned'
  BY RowStaysEarned DEF EarnedInv, Handle
<1>2. EventsAreEarned'
  <2>1. \A u \in EventTypes : ~(queue'[u] > queue[u])
    BY HandledCounts DEF TypeOK, Handle, Waiting
  <2>2. QED
    BY <2>1, EventsStayEarned DEF EarnedInv
<1>3. HandlersAreEarned'
  <2>1. Cause(t)
    BY DEF EarnedInv, EventsAreEarned, Handle, Waiting
  <2>2. row.status \in expected => TaskIsEarned(Task("save", t, m))
    BY <2>1 DEF TaskIsEarned, Task
  <2>3. \A v \in Workers : handler'[v] = handler[v]
                           \/ TaskIsEarned(handler'[v])
    BY <2>2 DEF Handle, TypeOK
  <2>4. QED
    BY <2>3, HandlersStayEarned DEF EarnedInv
<1>4. PhoneIsEarned'
  BY PhoneStaysEarned DEF EarnedInv, Handle, TypeOK, phone
<1>5. QED
  BY <1>1, <1>2, <1>3, <1>4 DEF EarnedInv

\* The same for the handlers that look at the status first.
LEMMA MutationIsEarned ==
    ASSUME TypeOK, EarnedInv
    PROVE  /\ row.status = "sending" => EarnedRow(AddSendAttempt(row))
           /\ Waiting(PhoneSent) => EarnedRow(Sent(row))
           /\ Waiting(SendFailed) => EarnedRow(Failed(row))
           /\ Waiting(PhoneDelivered) => EarnedRow(Delivered(row))
           /\ Waiting(SendExpired) => EarnedRow(Expired(row))
           /\ EarnedRow(NotificationScheduled(row))
           /\ EarnedRow(AddSendAttemptCount(row))
<1> USE DEF EarnedRow, FetchedRow, DeliveredRow, FailedRow, ExpiredRow
<1>1. EarnedRow(row) /\ row \in Rows
  BY DEF TypeOK, EarnedInv, StatusIsEarned
<1>2. /\ Waiting(PhoneSent) => "fetched" \in milestones
      /\ Waiting(SendFailed) => "failed" \in milestones
      /\ Waiting(PhoneDelivered) => "delivered" \in milestones
      /\ Waiting(SendExpired) => pushes > 0
  BY NamesAreTypes DEF EarnedInv, EventsAreEarned, Cause, Waiting
<1>3. row.status = "sending" => EarnedRow(AddSendAttempt(row))
  BY <1>1 DEF AddSendAttempt, Rows
<1>4. /\ Waiting(PhoneSent) => EarnedRow(Sent(row))
      /\ Waiting(SendFailed) => EarnedRow(Failed(row))
  BY <1>1, <1>2 DEF Sent, Failed, Rows
<1>5. /\ Waiting(PhoneDelivered) => EarnedRow(Delivered(row))
      /\ Waiting(SendExpired) => EarnedRow(Expired(row))
  BY <1>1, <1>2 DEF Delivered, Expired, Rows
<1>6. EarnedRow(NotificationScheduled(row))
  BY <1>1 DEF NotificationScheduled, Rows
<1>7. EarnedRow(AddSendAttemptCount(row))
  BY <1>1 DEF AddSendAttemptCount, Rows
<1>8. QED
  BY <1>3, <1>4, <1>5, <1>6, <1>7

LEMMA IdleIsEarned == TaskIsEarned(Idle)
  BY DEF TaskIsEarned, Idle, NoRow, EarnedRow, FetchedRow, DeliveredRow,
         FailedRow, ExpiredRow, Cause, PhoneSent, PhoneDelivered, SendFailed,
         NotificationFailed, NotificationSent, SendExpiredCheck, SendExpired

LEMMA HandlerNextEarned ==
    ASSUME TypeOK, TypeOK', Grows, EarnedInv, NEW w \in Workers,
           HandlerNext(w)
    PROVE  EarnedInv'
<1>1. row \in Rows
  BY DEF TypeOK
<1>2. CASE \/ HandleMessageSending(w) \/ HandleMessageSent(w)
           \/ HandleMessageFailed(w) \/ HandleMessageDelivered(w)
           \/ HandleMessageNotificationScheduled(w)
           \/ HandleMessageExpired(w)
  <2> USE <1>1, HandleEarned, MutationIsEarned, MutationTypes, NamesAreTypes
      DEF Handle
  <2>1. CASE HandleMessageSending(w)
    BY <2>1 DEF HandleMessageSending
  <2>2. CASE HandleMessageSent(w)
    BY <2>2 DEF HandleMessageSent
  <2>3. CASE HandleMessageFailed(w)
    BY <2>3 DEF HandleMessageFailed
  <2>4. CASE HandleMessageDelivered(w)
    BY <2>4 DEF HandleMessageDelivered
  <2>5. CASE HandleMessageNotificationScheduled(w)
    BY <2>5 DEF HandleMessageNotificationScheduled
  <2>6. CASE HandleMessageExpired(w)
    BY <2>6 DEF HandleMessageExpired
  <2>7. QED
    BY <1>2, <2>1, <2>2, <2>3, <2>4, <2>5, <2>6
<1>3. CASE ScheduleExpirationCheck(w)
  <2>1. Cause(NotificationSent)
    BY <1>3, NamesAreTypes
       DEF ScheduleExpirationCheck, EarnedInv, EventsAreEarned, Waiting
  <2>2. EventsAreEarned'
    <3>1. \A t \in EventTypes :
             queue'[t] > queue[t] => t = SendExpiredCheck
      BY <1>3, FollowedCounts, NamesAreTypes
         DEF ScheduleExpirationCheck, TypeOK, Waiting
    <3>2. pushes' > 0
      BY <2>1 DEF Cause, TypeOK, Grows
    <3>3. Cause(SendExpiredCheck)'
      BY <3>2, PushedCause
    <3>4. QED
      BY <3>1, <3>3, EventsStayEarned DEF EarnedInv
  <2>3. HandlersAreEarned'
    <3>1. TaskIsEarned(Task("load", NotificationSent, NoRow))
      BY <2>1 DEF TaskIsEarned, Task, NoRow, EarnedRow, FetchedRow,
                  DeliveredRow, FailedRow, ExpiredRow
    <3>2. QED
      BY <1>3, <3>1, HandlersStayEarned
         DEF ScheduleExpirationCheck, EarnedInv, TypeOK
  <2>4. StatusIsEarned' /\ PhoneIsEarned'
    BY <1>3, RowStaysEarned, PhoneStaysEarned
       DEF ScheduleExpirationCheck, EarnedInv, TypeOK, phone
  <2>5. QED
    BY <2>2, <2>3, <2>4 DEF EarnedInv
<1>4. CASE HandleMessageNotificationSent(w)
  <2>1. HandlersAreEarned'
    <3>1. TaskIsEarned(Task("save", handler[w].event,
                            AddSendAttemptCount(row)))
      BY MutationIsEarned
         DEF EarnedInv, HandlersAreEarned, TaskIsEarned, Task
    <3>2. QED
      BY <1>4, <3>1, IdleIsEarned, HandlersStayEarned
         DEF HandleMessageNotificationSent, EarnedInv, TypeOK
  <2>2. StatusIsEarned' /\ PhoneIsEarned' /\ EventsAreEarned'
    BY <1>4, RowStaysEarned, PhoneStaysEarned, EventsStayEarned
       DEF HandleMessageNotificationSent, EarnedInv, TypeOK, phone
  <2>3. QED
    BY <2>1, <2>2 DEF EarnedInv
<1>5. CASE Update(w)
  <2>1. TaskIsEarned(handler[w])
    BY DEF EarnedInv, HandlersAreEarned
  <2>2. StatusIsEarned'
    BY <1>5, <2>1, RowStaysEarned DEF Update, TaskIsEarned, EarnedInv
  <2>3. HandlersAreEarned'
    <3>1. handler[w] \in [step : {"load", "save", "dispatch"},
                          event : EventTypes, message : Rows]
      BY <1>5 DEF Update, TypeOK, Tasks, Idle
    <3>2. TaskIsEarned([handler[w] EXCEPT !.step = "dispatch"])
      BY <2>1, <3>1 DEF TaskIsEarned
    <3>3. QED
      BY <1>5, <3>2, IdleIsEarned, HandlersStayEarned
         DEF Update, EarnedInv, TypeOK
  <2>4. EventsAreEarned' /\ PhoneIsEarned'
    BY <1>5, EventsStayEarned, PhoneStaysEarned
       DEF Update, EarnedInv, TypeOK, phone
  <2>5. QED
    BY <2>2, <2>3, <2>4 DEF EarnedInv
<1>6. CASE DispatchSendRetry(w)
  <2>1. EventsAreEarned'
    <3>1. \A t \in EventTypes : queue'[t] > queue[t] => t = SendRetry
      BY <1>6, DispatchedCounts, NamesAreTypes
         DEF DispatchSendRetry, Dispatch, TypeOK
    <3>2. Cause(SendRetry)'
      BY CauseIsFree DEF FreeTypes
    <3>3. QED
      BY <3>1, <3>2, EventsStayEarned DEF EarnedInv
  <2>2. HandlersAreEarned'
    BY <1>6, IdleIsEarned, HandlersStayEarned
       DEF DispatchSendRetry, EarnedInv, TypeOK
  <2>3. StatusIsEarned' /\ PhoneIsEarned'
    BY <1>6, RowStaysEarned, PhoneStaysEarned
       DEF DispatchSendRetry, EarnedInv, TypeOK, phone
  <2>4. QED
    BY <2>1, <2>2, <2>3 DEF EarnedInv
<1>7. QED
  BY <1>2, <1>3, <1>4, <1>5, <1>6 DEF HandlerNext

\* A step that leaves something alone keeps what is earned of it.
LEMMA UnchangedStaysEarned ==
    ASSUME TypeOK, TypeOK', Grows, EarnedInv
    PROVE  /\ row' = row => StatusIsEarned'
           /\ queue' = queue => EventsAreEarned'
           /\ handler' = handler => HandlersAreEarned'
           /\ UNCHANGED phone => PhoneIsEarned'
<1>1. row' = row => StatusIsEarned'
  BY RowStaysEarned DEF EarnedInv
<1>2. queue' = queue => EventsAreEarned'
  BY EventsStayEarned DEF EarnedInv, TypeOK
<1>3. handler' = handler => HandlersAreEarned'
  BY HandlersStayEarned DEF EarnedInv
<1>4. UNCHANGED phone => PhoneIsEarned'
  BY PhoneStaysEarned DEF EarnedInv, TypeOK, phone
<1>5. QED
  BY <1>1, <1>2, <1>3, <1>4

\* Whatever went before it, scheduling a notification dispatches only events
\* that need no cause.
LEMMA ScheduleIsFree ==
    ASSUME TypeOK, NEW t \in {APISent, SendRetry}, Waiting(t),
           \/ queue' = Dispatched(Dispatched(Handled(queue, t),
                         NotificationScheduledEvent), NotificationSend)
           \/ queue' = Dispatched(Handled(queue, t), NotificationSend)
    PROVE  \A u \in EventTypes : queue'[u] > queue[u] => u \in FreeTypes
<1> DEFINE withNotice ==
             Dispatched(Handled(queue, t), NotificationScheduledEvent)
<1>1. /\ withNotice \in [EventTypes -> Nat]
      /\ \A u \in EventTypes :
            withNotice[u] > queue[u] => u = NotificationScheduledEvent
  BY FollowedCounts, NamesAreTypes DEF TypeOK, Waiting
<1> HIDE DEF withNotice
<1>2. \A u \in EventTypes :
         Dispatched(withNotice, NotificationSend)[u] > queue[u] =>
             u \in {NotificationScheduledEvent, NotificationSend}
  BY <1>1, DispatchedCounts, NamesAreTypes DEF TypeOK
<1>3. \A u \in EventTypes :
         Dispatched(Handled(queue, t), NotificationSend)[u] > queue[u] =>
             u = NotificationSend
  BY FollowedCounts, NamesAreTypes DEF TypeOK, Waiting
<1>4. QED
  BY <1>2, <1>3 DEF withNotice, FreeTypes

LEMMA NotificationNextEarned ==
    ASSUME TypeOK, TypeOK', Grows, EarnedInv, NotificationNext
    PROVE  EarnedInv'
<1>1. CASE Schedule
  <2>1. EventsAreEarned'
    BY <1>1, ScheduleIsFree, EventsStayEarned, CauseIsFree
       DEF Schedule, EarnedInv, FreeTypes
  <2>2. QED
    BY <1>1, <2>1, UnchangedStaysEarned DEF Schedule, EarnedInv
<1>2. CASE SendNotification
  <2>1. \A t \in EventTypes : queue'[t] > queue[t] => t = NotificationSent
    BY <1>2, FollowedCounts, NamesAreTypes
       DEF SendNotification, TypeOK, Waiting
  <2>2. pushes' > 0
    BY <1>2 DEF SendNotification, TypeOK
  <2>3. Cause(NotificationSent)'
    BY <2>2, PushedCause
  <2>4. EventsAreEarned'
    BY <2>1, <2>3, EventsStayEarned DEF EarnedInv
  <2>5. QED
    BY <1>2, <2>4, UnchangedStaysEarned DEF SendNotification, EarnedInv
<1>3. CASE SendNotificationFails
  <2>1. \A t \in EventTypes : queue'[t] > queue[t] => t = NotificationFailed
    BY <1>3, FollowedCounts, NamesAreTypes
       DEF SendNotificationFails, TypeOK, Waiting
  <2>2. Cause(NotificationFailed)'
    BY <1>3, FailedCause DEF SendNotificationFails
  <2>3. EventsAreEarned'
    BY <2>1, <2>2, EventsStayEarned DEF EarnedInv
  <2>4. QED
    BY <1>3, <2>3, UnchangedStaysEarned DEF SendNotificationFails, EarnedInv
<1>4. CASE OnMessageNotificationFailed
  <2>1. \A t \in EventTypes : queue'[t] > queue[t] => t = SendFailed
    <3>1. queue[NotificationFailed] > 0 /\ queue \in [EventTypes -> Nat]
      BY <1>4 DEF OnMessageNotificationFailed, TypeOK, Waiting
    <3>2. CASE queue' = Handled(queue, NotificationFailed)
      BY <3>1, <3>2, HandledCounts, NamesAreTypes
    <3>3. CASE queue' = Dispatched(Handled(queue, NotificationFailed),
                                   SendFailed)
      BY <3>1, <3>3, FollowedCounts, NamesAreTypes
    <3>4. QED
      BY <1>4, <3>2, <3>3 DEF OnMessageNotificationFailed
  <2>2. "failed" \in milestones
    BY <1>4, NamesAreTypes
       DEF OnMessageNotificationFailed, EarnedInv, EventsAreEarned, Cause,
           Waiting
  <2>3. Cause(SendFailed)'
    BY <2>2, FailedCause DEF Grows
  <2>4. EventsAreEarned'
    BY <2>1, <2>3, EventsStayEarned DEF EarnedInv
  <2>5. QED
    BY <1>4, <2>4, UnchangedStaysEarned
       DEF OnMessageNotificationFailed, EarnedInv
<1>5. QED
  BY <1>1, <1>2, <1>3, <1>4 DEF NotificationNext

\* A claimed message is fetched, and its row says so.
LEMMA ClaimEarned ==
    ASSUME TypeOK, TypeOK', Grows, EarnedInv,
           row' = [row EXCEPT !.status = "sending"],
           "fetched" \in milestones',
           Dispatch(PhoneSending) \/ UNCHANGED queue
    PROVE  StatusIsEarned' /\ EventsAreEarned'
<1>1. StatusIsEarned'
  BY DEF TypeOK, Rows, StatusIsEarned, EarnedRow, FetchedRow, DeliveredRow,
         FailedRow, ExpiredRow
<1>2. \A t \in EventTypes : queue'[t] > queue[t] => t = PhoneSending
  BY DispatchedCounts, NamesAreTypes DEF Dispatch, TypeOK
<1>3. EventsAreEarned'
  BY <1>2, CauseIsFree, EventsStayEarned DEF EarnedInv, FreeTypes
<1>4. QED
  BY <1>1, <1>3

\* What the phone reports has happened by then.
LEMMA ReportEarned ==
    ASSUME TypeOK, TypeOK', Grows, EarnedInv, NEW names \in SUBSET EventNames,
           "fetched" \in milestones, Report(names), inbox' <= inbox
    PROVE  PhoneIsEarned'
<1>1. \A n \in EventNames : reports'[n] > reports[n] => n \in names
  BY DEF Report, TypeOK
<1>2. ASSUME NEW n \in EventNames, n \in names
      PROVE  Cause(EventOf(n))'
  <2>1. CASE n = "SENT"
    <3>1. EventOf(n) = PhoneSent
      BY <2>1 DEF EventOf
    <3>2. QED
      BY <3>1, FetchedCause DEF Grows
  <2>2. CASE n = "DELIVERED"
    <3>1. EventOf(n) = PhoneDelivered
      BY <2>2 DEF EventOf
    <3>2. QED
      BY <1>2, <2>2, <3>1, DeliveredCause DEF Report
  <2>3. CASE n = "FAILED"
    <3>1. EventOf(n) = SendFailed
      BY <2>3 DEF EventOf
    <3>2. QED
      BY <1>2, <2>3, <3>1, FailedCause DEF Report
  <2>4. QED
    BY <2>1, <2>2, <2>3 DEF EventNames
<1>3. inbox' > inbox => "fetched" \in milestones'
  BY DEF TypeOK
<1>4. QED
  BY <1>1, <1>2, <1>3, PhoneStaysEarned DEF EarnedInv

LEMMA PhoneNextEarned ==
    ASSUME TypeOK, TypeOK', Grows, EarnedInv, PhoneNext
    PROVE  EarnedInv'
<1>1. CASE GetOutstanding
  <2>1. CASE row.status \in Outstanding
    <3>1. StatusIsEarned' /\ EventsAreEarned'
      BY <1>1, <2>1, ClaimEarned DEF GetOutstanding
    <3>2. PhoneIsEarned'
      BY <1>1, <2>1, PhoneStaysEarned DEF GetOutstanding, EarnedInv, TypeOK
    <3>3. QED
      BY <1>1, <3>1, <3>2, UnchangedStaysEarned
         DEF GetOutstanding, EarnedInv
  <2>2. CASE row.status \notin Outstanding
    BY <1>1, <2>2, UnchangedStaysEarned DEF GetOutstanding, EarnedInv, phone
  <2>3. QED
    BY <2>1, <2>2
<1>2. CASE Transmit
  <2>1. PICK names \in Results : Report(names)
    BY <1>2 DEF Transmit
  <2>2. names \in SUBSET EventNames
    BY DEF Results, EventNames
  <2>3. PhoneIsEarned'
    BY <1>2, <2>1, <2>2, ReportEarned
       DEF Transmit, EarnedInv, PhoneIsEarned, TypeOK
  <2>4. QED
    BY <1>2, <2>3, UnchangedStaysEarned DEF Transmit, EarnedInv
<1>3. CASE TransmitFails
  <2>1. PhoneIsEarned'
    BY <1>3, ReportEarned
       DEF TransmitFails, EarnedInv, PhoneIsEarned, TypeOK, EventNames
  <2>2. QED
    BY <1>3, <2>1, UnchangedStaysEarned DEF TransmitFails, EarnedInv
<1>4. CASE PostEvent
  <2>1. PICK name \in EventNames :
          /\ reports[name] > 0
          /\ reports' = [reports EXCEPT ![name] = @ - 1]
          /\ Dispatch(EventOf(name)) \/ UNCHANGED queue
          /\ UNCHANGED <<request, row, handler, push, inbox, history, faults>>
    BY <1>4 DEF PostEvent
  <2>2. PICK t \in EventTypes : t = EventOf(name)
    BY EventOfType
  <2>3. Cause(t)'
    BY <2>1, <2>2, CauseStays DEF EarnedInv, PhoneIsEarned
  <2>4. \A u \in EventTypes : queue'[u] > queue[u] => u = t
    BY <2>1, <2>2, DispatchedCounts DEF Dispatch, TypeOK
  <2>5. EventsAreEarned'
    BY <2>3, <2>4, EventsStayEarned DEF EarnedInv
  <2>6. PhoneIsEarned'
    BY <2>1, PhoneStaysEarned DEF EarnedInv, TypeOK
  <2>7. QED
    BY <2>1, <2>5, <2>6, UnchangedStaysEarned DEF EarnedInv
<1>5. QED
  BY <1>1, <1>2, <1>3, <1>4 DEF PhoneNext

\* An event that comes back, from the queue or from a handler that died, still
\* has its cause.
LEMMA RedeliveryEarned ==
    ASSUME TypeOK, TypeOK', Grows, EarnedInv, NEW t \in EventTypes, Cause(t),
           Dispatch(t) \/ UNCHANGED queue
    PROVE  EventsAreEarned'
<1>1. \A u \in EventTypes : queue'[u] > queue[u] => u = t
  BY DispatchedCounts DEF Dispatch, TypeOK
<1>2. Cause(t)'
  BY CauseStays
<1>3. QED
  BY <1>1, <1>2, EventsStayEarned DEF EarnedInv

LEMMA FaultNextEarned ==
    ASSUME TypeOK, TypeOK', Grows, EarnedInv, FaultNext
    PROVE  EarnedInv'
<1>1. CASE DispatchAPISentFails
  BY <1>1, UnchangedStaysEarned DEF DispatchAPISentFails, EarnedInv
<1>2. CASE ScheduleUnannounced
  <2>1. EventsAreEarned'
    BY <1>2, ScheduleIsFree, EventsStayEarned, CauseIsFree
       DEF ScheduleUnannounced, EarnedInv, FreeTypes
  <2>2. QED
    BY <1>2, <2>1, UnchangedStaysEarned DEF ScheduleUnannounced, EarnedInv
<1>3. CASE SendNotificationFailsLate
  <2>1. \A t \in EventTypes : queue'[t] > queue[t] => t = NotificationFailed
    BY <1>3, FollowedCounts, NamesAreTypes
       DEF SendNotificationFailsLate, TypeOK, Waiting
  <2>2. Cause(NotificationFailed)'
    BY <1>3, FailedCause DEF SendNotificationFailsLate
  <2>3. EventsAreEarned'
    BY <2>1, <2>2, EventsStayEarned DEF EarnedInv
  <2>4. QED
    BY <1>3, <2>3, UnchangedStaysEarned
       DEF SendNotificationFailsLate, EarnedInv
<1>4. CASE GetOutstandingLost
  <2>1. StatusIsEarned' /\ EventsAreEarned'
    BY <1>4, ClaimEarned DEF GetOutstandingLost
  <2>2. QED
    BY <1>4, <2>1, UnchangedStaysEarned DEF GetOutstandingLost, EarnedInv
<1>5. CASE PhoneForgets \/ PostEventFails
  <2>1. PhoneIsEarned'
    BY <1>5, PhoneStaysEarned DEF PhoneForgets, PostEventFails, EarnedInv, TypeOK
  <2>2. QED
    BY <1>5, <2>1, UnchangedStaysEarned DEF PhoneForgets, PostEventFails, EarnedInv
<1>6. CASE Duplicate
  <2>1. PICK t \in EventTypes : Waiting(t) /\ Dispatch(t)
    BY <1>6 DEF Duplicate
  <2>2. EventsAreEarned'
    BY <2>1, RedeliveryEarned DEF EarnedInv, EventsAreEarned, Waiting
  <2>3. QED
    BY <1>6, <2>2, UnchangedStaysEarned DEF Duplicate, EarnedInv
<1>7. CASE Lose
  <2>1. \A u \in EventTypes : ~(queue'[u] > queue[u])
    BY <1>7, HandledCounts DEF Lose, TypeOK, Waiting
  <2>2. EventsAreEarned'
    BY <2>1, EventsStayEarned DEF EarnedInv
  <2>3. QED
    BY <1>7, <2>2, UnchangedStaysEarned DEF Lose, EarnedInv
<1>8. ASSUME NEW w \in Workers, Crash(w)
      PROVE  EarnedInv'
  <2>1. handler[w].event \in EventTypes
    BY <1>8 DEF Crash, TypeOK, Tasks
  <2>2. PICK t \in EventTypes : t = handler[w].event
    BY <2>1
  <2>3. Cause(t)
    BY <2>1, <2>2 DEF EarnedInv, HandlersAreEarned, TaskIsEarned
  <2>4. EventsAreEarned'
    BY <1>8, <2>2, <2>3, RedeliveryEarned DEF Crash
  <2>5. HandlersAreEarned'
    BY <1>8, IdleIsEarned, HandlersStayEarned DEF Crash, EarnedInv, TypeOK
  <2>6. QED
    BY <1>8, <2>4, <2>5, UnchangedStaysEarned DEF Crash, EarnedInv
<1>9. QED
  BY <1>1, <1>2, <1>3, <1>4, <1>5, <1>6, <1>7, <1>8 DEF FaultNext

LEMMA CheckExpiredEarned ==
    ASSUME TypeOK, TypeOK', Grows, EarnedInv, CheckExpired
    PROVE  EarnedInv'
<1>1. /\ queue \in [EventTypes -> Nat]
      /\ queue[SendExpiredCheck] > 0
  BY DEF CheckExpired, TypeOK, Waiting
<1>2. CASE /\ CountsAsSent(row)
           /\ queue' = Dispatched(Handled(queue, SendExpiredCheck), PhoneSent)
  <2>1. "fetched" \in milestones
    BY <1>2 DEF CountsAsSent, EarnedInv, StatusIsEarned, EarnedRow, FetchedRow
  <2>2. Cause(PhoneSent)'
    BY <2>1, FetchedCause DEF Grows
  <2>3. QED
    BY <1>1, <1>2, <2>2, FollowedCounts, EventsStayEarned, NamesAreTypes,
       UnchangedStaysEarned DEF CheckExpired, EarnedInv
<1>3. CASE queue' = Dispatched(Handled(queue, SendExpiredCheck), SendExpired)
  <2>1. pushes > 0
    BY <1>1, NamesAreTypes DEF EarnedInv, EventsAreEarned, Cause
  <2>2. Cause(SendExpired)'
    BY <2>1, PushedCause DEF Grows, TypeOK
  <2>3. QED
    BY <1>1, <1>3, <2>2, FollowedCounts, EventsStayEarned, NamesAreTypes,
       UnchangedStaysEarned DEF CheckExpired, EarnedInv
<1>4. CASE queue' = Handled(queue, SendExpiredCheck)
  <2>1. \A u \in EventTypes : ~(queue'[u] > queue[u])
    BY <1>1, <1>4, HandledCounts, NamesAreTypes
  <2>2. QED
    BY <2>1, EventsStayEarned, UnchangedStaysEarned DEF CheckExpired, EarnedInv
<1>5. QED
  BY <1>2, <1>3, <1>4 DEF CheckExpired

LEMMA EarnedInvIsInductive ==
    TypeOK /\ TypeOK' /\ EarnedInv /\ [Next]_vars => EarnedInv'
<1> SUFFICES ASSUME TypeOK, TypeOK', EarnedInv, Next
             PROVE  EarnedInv'
  <2>1. ASSUME EarnedInv, UNCHANGED vars
        PROVE  EarnedInv'
    BY <2>1 DEF vars, phone, history, EarnedInv, StatusIsEarned, EarnedRow,
                FetchedRow, DeliveredRow, FailedRow, ExpiredRow,
                EventsAreEarned, Cause, HandlersAreEarned, TaskIsEarned,
                PhoneIsEarned
  <2>2. QED
    BY <2>1
<1>1. Grows
  BY StepsGrow
<1>2. CASE StoreSentMessage
  <2>1. EarnedRow(NewMessage)
    BY DEF NewMessage, EarnedRow, FetchedRow, DeliveredRow, FailedRow,
           ExpiredRow
  <2>2. QED
    BY <1>1, <1>2, <2>1, RowStaysEarned, UnchangedStaysEarned
       DEF StoreSentMessage, EarnedInv
<1>3. CASE DispatchAPISent
  <2>1. Cause(APISent)
    BY CauseIsFree DEF FreeTypes
  <2>2. QED
    BY <1>1, <1>3, <2>1, RedeliveryEarned, NamesAreTypes,
       UnchangedStaysEarned DEF DispatchAPISent, EarnedInv
<1>4. CASE DeleteMessage
  <2>1. EarnedRow(NoRow)
    BY DEF NoRow, EarnedRow, FetchedRow, DeliveredRow, FailedRow, ExpiredRow
  <2>2. QED
    BY <1>1, <1>4, <2>1, RowStaysEarned, UnchangedStaysEarned
       DEF DeleteMessage, EarnedInv
<1>5. CASE NotificationNext
  BY <1>1, <1>5, NotificationNextEarned
<1>6. CASE \E w \in Workers : HandlerNext(w)
  BY <1>1, <1>6, HandlerNextEarned
<1>7. CASE CheckExpired
  BY <1>1, <1>7, CheckExpiredEarned
<1>8. CASE LosePush
  BY <1>1, <1>8, UnchangedStaysEarned DEF LosePush, EarnedInv
<1>9. CASE PhoneNext
  BY <1>1, <1>9, PhoneNextEarned
<1>10. CASE FaultNext
  BY <1>1, <1>10, FaultNextEarned
<1>11. QED
  BY <1>2, <1>3, <1>4, <1>5, <1>6, <1>7, <1>8, <1>9, <1>10 DEF Next

LEMMA EarnedInit == Init => EarnedInv
<1> SUFFICES ASSUME Init
             PROVE  EarnedInv
  OBVIOUS
<1>1. StatusIsEarned
  BY DEF Init, StatusIsEarned, EarnedRow, FetchedRow, DeliveredRow,
         FailedRow, ExpiredRow, NoRow
<1>2. EventsAreEarned /\ PhoneIsEarned
  BY DEF Init, EventsAreEarned, PhoneIsEarned
<1>3. HandlersAreEarned
  BY IdleIsEarned DEF Init, HandlersAreEarned
<1>4. QED
  BY <1>1, <1>2, <1>3 DEF EarnedInv

\* No message is ever shown as sent, delivered, failed or expired for which that
\* did not happen, whatever handlers overlap and whatever goes wrong: HandleMessageSent,
\* HandleMessageDelivered, HandleMessageFailed, HandleMessageExpired and
\* CheckExpired act only on what the phone or the transport said.
THEOREM StatusEarned == Spec => []StatusIsEarned
<1>1. EarnedInv => StatusIsEarned
  BY DEF EarnedInv
<1>2. QED
  BY <1>1, EarnedInit, EarnedInvIsInductive, TypeCorrect, PTL DEF Spec

----------------------------------------------------------------------------
(* The attempts that were pushed: AttemptsArePushed.                        *)
(*                                                                          *)
(* It is not inductive: what a handler holds becomes the row, and a         *)
(* notification that was pushed is counted later, by the handler of its     *)
(* message.notification.sent event.  AttemptsInv says that the attempts     *)
(* which are still to be counted were pushed too, on top of those that the  *)
(* row or any handler has counted already.                                  *)

\* The workers that are about to count an attempt.
CountersOf(h) == { w \in Workers : h[w].step = "load" }

\* The attempts that are still to be counted.
Owed == queue[NotificationSent] + Cardinality(CountersOf(handler))

\* There were pushes, or faults, enough for n attempts besides those owed.
Covered(n) == n + Owed <= pushes + faults

AttemptsInv ==
    /\ Covered(row.SendAttemptCount)
    /\ \A w \in Workers : Covered(handler[w].message.SendAttemptCount)
    /\ \A w \in Workers :
          handler[w].step = "load" => handler[w].event = NotificationSent

----------------------------------------------------------------------------
LEMMA CountersAreFinite ==
    ASSUME NEW h
    PROVE  /\ IsFiniteSet(CountersOf(h))
           /\ Cardinality(CountersOf(h)) \in Nat
<1>1. CountersOf(h) \in SUBSET Workers
  BY DEF CountersOf
<1>2. IsFiniteSet(CountersOf(h))
  BY <1>1, LifecycleAssumption, FS_Subset
<1>3. QED
  BY <1>2, FS_CardinalityType

\* A worker that turns to another task changes the number of counters by one at
\* most.
LEMMA CountersChange ==
    ASSUME NEW h \in [Workers -> Tasks], NEW w \in Workers, NEW task \in Tasks
    PROVE  Cardinality(CountersOf([h EXCEPT ![w] = task])) =
             IF task.step = "load"
             THEN IF h[w].step = "load" THEN Cardinality(CountersOf(h))
                  ELSE Cardinality(CountersOf(h)) + 1
             ELSE IF h[w].step = "load" THEN Cardinality(CountersOf(h)) - 1
                  ELSE Cardinality(CountersOf(h))
<1> DEFINE g == [h EXCEPT ![w] = task]
<1>1. IsFiniteSet(CountersOf(h)) /\ Cardinality(CountersOf(h)) \in Nat
  BY CountersAreFinite
<1>2. w \in CountersOf(h) <=> h[w].step = "load"
  BY DEF CountersOf
<1>3. CASE task.step = "load"
  <2>1. CountersOf(g) = CountersOf(h) \cup {w}
    BY <1>3 DEF CountersOf
  <2>2. QED
    BY <1>1, <1>2, <1>3, <2>1, FS_AddElement
<1>4. CASE task.step # "load"
  <2>1. CountersOf(g) = CountersOf(h) \ {w}
    BY <1>4 DEF CountersOf
  <2>2. QED
    BY <1>1, <1>2, <1>4, <2>1, FS_RemoveElement
<1>5. QED
  BY <1>3, <1>4

LEMMA OwedType == ASSUME TypeOK PROVE Owed \in Nat
  BY CountersAreFinite, NamesAreTypes DEF Owed, TypeOK

LEMMA OwedTypeNext == ASSUME TypeOK' PROVE Owed' \in Nat
<1>1. Cardinality(CountersOf(handler')) \in Nat
  BY CountersAreFinite
<1>2. QED
  BY <1>1, NamesAreTypes DEF Owed, TypeOK

\* What is covered stays so as long as no more is owed than was paid for.
LEMMA StaysCovered ==
    ASSUME TypeOK, TypeOK',
           Owed' + pushes + faults <= Owed + pushes' + faults',
           NEW n \in Nat, Covered(n)
    PROVE  Covered(n)'
  BY OwedType, OwedTypeNext DEF Covered, TypeOK

LEMMA CountsAreNat ==
    ASSUME TypeOK
    PROVE  /\ row.SendAttemptCount \in Nat
           /\ \A w \in Workers : handler[w].message.SendAttemptCount \in Nat
<1>1. NoRow.SendAttemptCount \in Nat
  BY DEF NoRow
<1>2. QED
  BY <1>1 DEF TypeOK, Rows, Tasks, Idle

\* A step of anyone but the workers.
LEMMA OtherStepCovered ==
    ASSUME TypeOK, TypeOK', AttemptsInv, UNCHANGED handler,
           row'.SendAttemptCount \in {row.SendAttemptCount, 0},
           queue'[NotificationSent] + pushes + faults
             <= queue[NotificationSent] + pushes' + faults'
    PROVE  AttemptsInv'
<1>1. /\ Cardinality(CountersOf(handler)) \in Nat
      /\ CountersOf(handler)' = CountersOf(handler)
  BY CountersAreFinite DEF CountersOf
<1>2. Owed' + pushes + faults <= Owed + pushes' + faults'
  BY <1>1, NamesAreTypes DEF Owed, TypeOK
<1>3. Covered(0)
  BY CountsAreNat, OwedType DEF AttemptsInv, Covered, TypeOK
<1>4. Covered(row.SendAttemptCount)'
  <2>1. PICK n \in Nat : n = row'.SendAttemptCount /\ Covered(n)
    BY <1>3, CountsAreNat DEF AttemptsInv
  <2>2. Covered(n)'
    BY <1>2, <2>1, StaysCovered
  <2>3. QED
    BY <2>1, <2>2 DEF Covered
<1>5. \A w \in Workers : Covered(handler[w].message.SendAttemptCount)'
  <2> TAKE w \in Workers
  <2>1. PICK n \in Nat : n = handler[w].message.SendAttemptCount /\ Covered(n)
    BY CountsAreNat DEF AttemptsInv
  <2>2. Covered(n)'
    BY <1>2, <2>1, StaysCovered
  <2>3. QED
    BY <2>1, <2>2 DEF Covered
<1>6. QED
  BY <1>4, <1>5 DEF AttemptsInv

\* A step of worker w: what it holds afterwards is covered, and so is the row.
LEMMA WorkerStepCovered ==
    ASSUME TypeOK, TypeOK', AttemptsInv, NEW w \in Workers, NEW task \in Tasks,
           handler' = [handler EXCEPT ![w] = task],
           Owed' + pushes + faults <= Owed + pushes' + faults',
           Covered(row.SendAttemptCount)',
           (task.message.SendAttemptCount + Owed <= pushes + faults)',
           task.step = "load" => task.event = NotificationSent
    PROVE  AttemptsInv'
<1>1. ASSUME NEW v \in Workers
      PROVE  Covered(handler[v].message.SendAttemptCount)'
  <2>1. CASE v = w
    BY <2>1 DEF Covered, TypeOK
  <2>2. CASE v # w
    <3>1. PICK n \in Nat : n = handler[v].message.SendAttemptCount /\ Covered(n)
      BY CountsAreNat DEF AttemptsInv
    <3>2. Covered(n)'
      BY <3>1, StaysCovered
    <3>3. QED
      BY <2>2, <3>1, <3>2 DEF Covered, TypeOK
  <2>3. QED
    BY <2>1, <2>2
<1>2. \A v \in Workers :
         handler'[v].step = "load" => handler'[v].event = NotificationSent
  BY DEF AttemptsInv, TypeOK
<1>3. QED
  BY <1>1, <1>2 DEF AttemptsInv

----------------------------------------------------------------------------
(* The queue: only the sending of a notification adds to what is owed. *)

OtherTypes == EventTypes \ {NotificationSent}

LEMMA OtherNames ==
    {APISent, NotificationScheduledEvent, NotificationSend, NotificationFailed,
     PhoneSending, PhoneSent, PhoneDelivered, SendFailed, SendExpiredCheck,
     SendExpired, SendRetry} \subseteq OtherTypes
  BY DEF OtherTypes, EventTypes, APISent, NotificationScheduledEvent,
         NotificationSend, NotificationSent, NotificationFailed, PhoneSending,
         PhoneSent, PhoneDelivered, SendFailed, SendExpiredCheck, SendExpired,
         SendRetry

LEMMA EventOfOther == \A n \in EventNames : EventOf(n) \in OtherTypes
  BY OtherNames DEF EventNames, EventOf

LEMMA DispatchedSent ==
    ASSUME NEW q \in [EventTypes -> Nat], NEW t \in EventTypes
    PROVE  /\ Dispatched(q, t) \in [EventTypes -> Nat]
           /\ Dispatched(q, t)[NotificationSent] <= q[NotificationSent] + 1
           /\ t \in OtherTypes =>
                 Dispatched(q, t)[NotificationSent] = q[NotificationSent]
  BY DispatchedCounts, NamesAreTypes DEF OtherTypes

LEMMA HandledSent ==
    ASSUME NEW q \in [EventTypes -> Nat], NEW t \in EventTypes, q[t] > 0
    PROVE  /\ Handled(q, t) \in [EventTypes -> Nat]
           /\ Handled(q, t)[NotificationSent] <= q[NotificationSent]
  BY HandledCounts, NamesAreTypes

LEMMA FollowedSent ==
    ASSUME NEW q \in [EventTypes -> Nat], NEW t \in EventTypes, q[t] > 0,
           NEW next \in EventTypes
    PROVE  LET followed == Dispatched(Handled(q, t), next) IN
           /\ followed \in [EventTypes -> Nat]
           /\ followed[NotificationSent] <= q[NotificationSent] + 1
           /\ next \in OtherTypes =>
                 followed[NotificationSent] <= q[NotificationSent]
<1> DEFINE rest == Handled(q, t)
<1>1. /\ rest \in [EventTypes -> Nat]
      /\ rest[NotificationSent] <= q[NotificationSent]
  BY HandledSent
<1> HIDE DEF rest
<1>2. /\ Dispatched(rest, next) \in [EventTypes -> Nat]
      /\ Dispatched(rest, next)[NotificationSent] <= rest[NotificationSent] + 1
      /\ next \in OtherTypes =>
           Dispatched(rest, next)[NotificationSent] = rest[NotificationSent]
  BY <1>1, DispatchedSent
<1>3. QED
  BY <1>1, <1>2, NamesAreTypes DEF rest

\* The world pays for what is added: no step takes a push or a fault back.
Affords ==
    queue'[NotificationSent] + pushes + faults
      <= queue[NotificationSent] + pushes' + faults'

LEMMA ScheduleAffords ==
    ASSUME TypeOK, Schedule \/ ScheduleUnannounced
    PROVE  queue'[NotificationSent] <= queue[NotificationSent]
<1>1. PICK t \in {APISent, SendRetry} :
        /\ Waiting(t)
        /\ \/ queue' = Dispatched(Dispatched(Handled(queue, t),
                          NotificationScheduledEvent), NotificationSend)
           \/ queue' = Dispatched(Handled(queue, t), NotificationSend)
  BY DEF Schedule, ScheduleUnannounced
<1> DEFINE withNotice ==
             Dispatched(Handled(queue, t), NotificationScheduledEvent)
<1>2. /\ withNotice \in [EventTypes -> Nat]
      /\ withNotice[NotificationSent] <= queue[NotificationSent]
  BY <1>1, FollowedSent, NamesAreTypes, OtherNames DEF TypeOK, Waiting
<1> HIDE DEF withNotice
<1>3. Dispatched(withNotice, NotificationSend)[NotificationSent]
        = withNotice[NotificationSent]
  BY <1>2, DispatchedSent, NamesAreTypes, OtherNames
<1>4. Dispatched(Handled(queue, t), NotificationSend)[NotificationSent]
        <= queue[NotificationSent]
  BY <1>1, FollowedSent, NamesAreTypes, OtherNames DEF TypeOK, Waiting
<1>5. QED
  BY <1>1, <1>2, <1>3, <1>4 DEF withNotice

\* Everyone but the workers: no step counts an attempt, and what a notification
\* adds to what is owed is the push it made.
LEMMA OthersAfford ==
    ASSUME TypeOK, TypeOK',
           \/ StoreSentMessage \/ DispatchAPISent \/ DeleteMessage
           \/ NotificationNext \/ CheckExpired \/ LosePush \/ PhoneNext
           \/ DispatchAPISentFails \/ ScheduleUnannounced
           \/ SendNotificationFailsLate \/ GetOutstandingLost \/ PhoneForgets
           \/ PostEventFails \/ Duplicate \/ Lose \/ UNCHANGED vars
    PROVE  /\ UNCHANGED handler
           /\ row'.SendAttemptCount \in {row.SendAttemptCount, 0}
           /\ Affords
<1> USE DEF phone, history
<1>1. /\ queue \in [EventTypes -> Nat]
      /\ queue[NotificationSent] \in Nat /\ queue'[NotificationSent] \in Nat
      /\ pushes \in Nat /\ pushes' \in Nat /\ faults \in Nat /\ faults' \in Nat
  BY NamesAreTypes DEF TypeOK
<1>2. CASE StoreSentMessage \/ LosePush \/ UNCHANGED vars
  BY <1>1, <1>2
     DEF StoreSentMessage, LosePush, vars, Affords, NewMessage
<1>3. CASE DispatchAPISent
  BY <1>1, <1>3, DispatchedSent, OtherNames, NamesAreTypes
     DEF DispatchAPISent, Dispatch, Affords
<1>4. CASE DeleteMessage
  BY <1>1, <1>4 DEF DeleteMessage, NoRow, Affords
<1>5. CASE Schedule
  BY <1>1, <1>5, ScheduleAffords DEF Schedule, Affords
<1>6. CASE SendNotification
  BY <1>1, <1>6, FollowedSent, NamesAreTypes
     DEF SendNotification, Waiting, Affords
<1>7. CASE SendNotificationFails
  BY <1>1, <1>7, FollowedSent, OtherNames, NamesAreTypes
     DEF SendNotificationFails, Waiting, Affords
<1>8. CASE OnMessageNotificationFailed
  BY <1>1, <1>8, FollowedSent, HandledSent, OtherNames, NamesAreTypes
     DEF OnMessageNotificationFailed, Waiting, Affords
<1>9. CASE CheckExpired
  BY <1>1, <1>9, FollowedSent, HandledSent, OtherNames, NamesAreTypes
     DEF CheckExpired, Waiting, Affords
<1>10. CASE PhoneNext
  <2>1. CASE GetOutstanding
    BY <1>1, <2>1, DispatchedSent, OtherNames, NamesAreTypes
       DEF GetOutstanding, Dispatch, Affords, TypeOK, Rows
  <2>2. CASE Transmit
    BY <1>1, <2>2 DEF Transmit, Affords
  <2>3. CASE TransmitFails
    BY <1>1, <2>3 DEF TransmitFails, Affords
  <2>4. CASE PostEvent
    BY <1>1, <2>4, DispatchedSent, EventOfOther
       DEF PostEvent, Dispatch, Affords, OtherTypes
  <2>5. QED
    BY <1>10, <2>1, <2>2, <2>3, <2>4 DEF PhoneNext
<1>11. CASE DispatchAPISentFails
  BY <1>1, <1>11 DEF DispatchAPISentFails, Fault, Affords
<1>12. CASE ScheduleUnannounced
  BY <1>1, <1>12, ScheduleAffords DEF ScheduleUnannounced, Fault, Affords
<1>13. CASE SendNotificationFailsLate
  BY <1>1, <1>13, FollowedSent, OtherNames, NamesAreTypes
     DEF SendNotificationFailsLate, Waiting, Fault, Affords
<1>14. CASE GetOutstandingLost
  BY <1>1, <1>14, DispatchedSent, OtherNames, NamesAreTypes
     DEF GetOutstandingLost, Dispatch, Fault, Affords, TypeOK, Rows
<1>15. CASE PhoneForgets \/ PostEventFails
  BY <1>1, <1>15 DEF PhoneForgets, PostEventFails, Fault, Affords
<1>16. CASE Duplicate
  BY <1>1, <1>16, DispatchedSent DEF Duplicate, Dispatch, Fault, Affords
<1>17. CASE Lose
  BY <1>1, <1>17, HandledSent DEF Lose, Waiting, Fault, Affords
<1>18. QED
  BY <1>2, <1>3, <1>4, <1>5, <1>6, <1>7, <1>8, <1>9, <1>10, <1>11, <1>12,
     <1>13, <1>14, <1>15, <1>16, <1>17 DEF NotificationNext

----------------------------------------------------------------------------
(* The workers. *)

\* What the steps of a worker have in common: it turns from one task to the
\* next, what is owed is paid for, and what it holds afterwards is covered.
Turns(w, task) ==
    /\ handler' = [handler EXCEPT ![w] = task]
    /\ row'.SendAttemptCount = row.SendAttemptCount
    /\ UNCHANGED pushes

LEMMA NothingIsCovered ==
    ASSUME TypeOK, AttemptsInv
    PROVE  Owed <= pushes + faults
  BY CountsAreNat, OwedType DEF AttemptsInv, Covered, TypeOK

LEMMA MutationCounts ==
    ASSUME NEW m \in Rows
    PROVE  /\ Sent(m).SendAttemptCount = m.SendAttemptCount
           /\ Failed(m).SendAttemptCount = m.SendAttemptCount
           /\ Delivered(m).SendAttemptCount = m.SendAttemptCount
           /\ Expired(m).SendAttemptCount = m.SendAttemptCount
           /\ AddSendAttempt(m).SendAttemptCount = m.SendAttemptCount
           /\ NotificationScheduled(m).SendAttemptCount = m.SendAttemptCount
           /\ AddSendAttemptCount(m).SendAttemptCount = m.SendAttemptCount + 1
  BY DEF Rows, Sent, Failed, Delivered, Expired, AddSendAttempt,
         AddSendAttemptCount, NotificationScheduled

\* A worker that turns to a task which is not to count: what is owed changes
\* with the queue, and shrinks by one when it was about to count.
LEMMA TurnOwes ==
    ASSUME TypeOK, TypeOK', NEW w \in Workers, NEW task \in Tasks,
           handler' = [handler EXCEPT ![w] = task], task.step # "load"
    PROVE  Owed' = IF handler[w].step = "load"
                   THEN Owed - queue[NotificationSent]
                          + queue'[NotificationSent] - 1
                   ELSE Owed - queue[NotificationSent]
                          + queue'[NotificationSent]
<1>1. Cardinality(CountersOf(handler')) =
        IF handler[w].step = "load" THEN Cardinality(CountersOf(handler)) - 1
        ELSE Cardinality(CountersOf(handler))
  BY CountersChange DEF TypeOK
<1>2. /\ Cardinality(CountersOf(handler)) \in Nat
      /\ queue[NotificationSent] \in Nat /\ queue'[NotificationSent] \in Nat
  BY CountersAreFinite, NamesAreTypes DEF TypeOK
<1>3. Owed' = queue'[NotificationSent] + Cardinality(CountersOf(handler'))
  BY DEF Owed, CountersOf
<1>4. QED
  BY <1>1, <1>2, <1>3 DEF Owed

LEMMA HandleCovered ==
    ASSUME TypeOK, TypeOK', AttemptsInv, NEW w \in Workers,
           NEW t \in EventTypes, NEW expected, NEW m \in Rows,
           m.SendAttemptCount = row.SendAttemptCount,
           Handle(w, t, expected, m)
    PROVE  AttemptsInv'
<1>1. /\ queue'[NotificationSent] \in Nat /\ queue[NotificationSent] \in Nat
      /\ queue'[NotificationSent] <= queue[NotificationSent]
  BY HandledSent, NamesAreTypes DEF Handle, Waiting, TypeOK
<1>2. CASE row.status \notin expected
  BY <1>1, <1>2, OtherStepCovered DEF Handle, history, TypeOK
<1>3. CASE row.status \in expected
  <2>1. PICK task \in Tasks : task = Task("save", t, m)
    BY DEF Task, Tasks
  <2>2. /\ task.step # "load"
        /\ task.message.SendAttemptCount = row.SendAttemptCount
    BY <2>1 DEF Task
  <2>3. handler' = [handler EXCEPT ![w] = task] /\ handler[w].step # "load"
    BY <1>3, <2>1 DEF Handle, Idle
  <2>4. Owed' <= Owed
    <3>1. Owed' = Owed - queue[NotificationSent] + queue'[NotificationSent]
      BY <2>2, <2>3, TurnOwes
    <3>2. QED
      BY <1>1, <3>1, OwedType
  <2>5. /\ UNCHANGED <<row, pushes, faults>>
        /\ row.SendAttemptCount \in Nat /\ pushes \in Nat /\ faults \in Nat
    BY CountsAreNat DEF Handle, history, TypeOK
  <2>6. row'.SendAttemptCount + Owed' <= pushes' + faults'
    BY <2>4, <2>5, OwedType, OwedTypeNext DEF AttemptsInv, Covered
  <2>7. Owed' + pushes + faults <= Owed + pushes' + faults'
    BY <2>4, <2>5, OwedType, OwedTypeNext
  <2>8. (task.message.SendAttemptCount + Owed <= pushes + faults)'
    BY <2>2, <2>5, <2>6
  <2>9. Covered(row.SendAttemptCount)'
    BY <2>6 DEF Covered
  <2>10. QED
    BY <2>2, <2>3, <2>7, <2>8, <2>9, WorkerStepCovered
<1>4. QED
  BY <1>2, <1>3

LEMMA ScheduleExpirationCheckCovered ==
    ASSUME TypeOK, TypeOK', AttemptsInv, NEW w \in Workers,
           ScheduleExpirationCheck(w)
    PROVE  AttemptsInv'
<1>1. PICK task \in Tasks : task = Task("load", NotificationSent, NoRow)
  BY NamesAreTypes DEF Task, Tasks, NoRow, Rows, Statuses
<1>2. /\ task.step = "load" /\ task.event = NotificationSent
      /\ task.message.SendAttemptCount = 0
  BY <1>1 DEF Task, NoRow
<1>3. handler' = [handler EXCEPT ![w] = task] /\ handler[w].step # "load"
  BY <1>1 DEF ScheduleExpirationCheck, Idle
<1>4. queue'[NotificationSent] = queue[NotificationSent] - 1
  <2> DEFINE rest == Handled(queue, NotificationSent)
  <2>1. /\ rest \in [EventTypes -> Nat]
        /\ rest[NotificationSent] = queue[NotificationSent] - 1
    BY HandledCounts, NamesAreTypes DEF ScheduleExpirationCheck, Waiting, TypeOK
  <2> HIDE DEF rest
  <2>2. Dispatched(rest, SendExpiredCheck)[NotificationSent]
          = rest[NotificationSent]
    BY <2>1, DispatchedSent, OtherNames, NamesAreTypes
  <2>3. QED
    BY <2>1, <2>2 DEF ScheduleExpirationCheck, rest
<1>5. Owed' = Owed
  <2>1. Cardinality(CountersOf(handler')) = Cardinality(CountersOf(handler)) + 1
    BY <1>2, <1>3, CountersChange DEF TypeOK
  <2>2. Owed' = queue'[NotificationSent] + Cardinality(CountersOf(handler'))
    BY DEF Owed, CountersOf
  <2>3. Cardinality(CountersOf(handler)) \in Nat /\ queue[NotificationSent] \in Nat
    BY CountersAreFinite, NamesAreTypes DEF TypeOK
  <2>4. QED
    BY <1>4, <2>1, <2>2, <2>3 DEF Owed
<1>6. UNCHANGED <<row, pushes, faults>> /\ pushes \in Nat /\ faults \in Nat
  BY DEF ScheduleExpirationCheck, history, TypeOK
<1>7. Covered(row.SendAttemptCount)'
  BY <1>5, <1>6 DEF AttemptsInv, Covered
<1>8. (task.message.SendAttemptCount + Owed <= pushes + faults)'
  <2>1. Owed' <= pushes' + faults'
    BY <1>5, <1>6, NothingIsCovered
  <2>2. QED
    BY <1>2, <2>1, OwedTypeNext
<1>9. Owed' + pushes + faults <= Owed + pushes' + faults'
  BY <1>5, <1>6, OwedType
<1>10. QED
  BY <1>2, <1>3, <1>7, <1>8, <1>9, WorkerStepCovered

LEMMA HandleMessageNotificationSentCovered ==
    ASSUME TypeOK, TypeOK', AttemptsInv, NEW w \in Workers,
           HandleMessageNotificationSent(w)
    PROVE  AttemptsInv'
<1>1. PICK task \in Tasks :
        /\ handler' = [handler EXCEPT ![w] = task]
        /\ task.step # "load"
        /\ task.message.SendAttemptCount \in {0, row.SendAttemptCount + 1}
  <2>1. handler[w].event \in EventTypes
    BY DEF HandleMessageNotificationSent, TypeOK, Tasks, Idle
  <2>2. Task("save", handler[w].event, AddSendAttemptCount(row)) \in Tasks
    BY <2>1, MutationTypes DEF Task, Tasks, TypeOK
  <2>3. CASE Exists(row)
    <3>1. Task("save", handler[w].event, AddSendAttemptCount(row)).message
            .SendAttemptCount = row.SendAttemptCount + 1
      BY MutationCounts DEF Task, TypeOK
    <3>2. QED
      BY <2>2, <2>3, <3>1 DEF HandleMessageNotificationSent, Task
  <2>4. CASE ~Exists(row)
    <3>1. Idle \in Tasks /\ Idle.step # "load" /\ Idle.message.SendAttemptCount = 0
      BY DEF Tasks, Idle, NoRow
    <3>2. handler' = [handler EXCEPT ![w] = Idle]
      BY <2>4 DEF HandleMessageNotificationSent
    <3>3. QED
      BY <3>1, <3>2
  <2>5. QED
    BY <2>3, <2>4
<1>2. UNCHANGED <<row, queue, pushes, faults>> /\ pushes \in Nat /\ faults \in Nat
  BY DEF HandleMessageNotificationSent, history, TypeOK
<1>3. Owed' = Owed - 1
  <2>1. Owed' = Owed - queue[NotificationSent] + queue'[NotificationSent] - 1
    BY <1>1, TurnOwes DEF HandleMessageNotificationSent
  <2>2. QED
    BY <1>2, <2>1, OwedType, NamesAreTypes DEF TypeOK
<1>4. row.SendAttemptCount + Owed <= pushes + faults /\ Owed <= pushes + faults
  BY NothingIsCovered DEF AttemptsInv, Covered
<1>5. row.SendAttemptCount \in Nat
  BY CountsAreNat
<1>6. row'.SendAttemptCount + Owed' <= pushes' + faults'
  BY <1>2, <1>3, <1>4, <1>5, OwedType
<1>7. Covered(row.SendAttemptCount)'
  BY <1>6 DEF Covered
<1>8. (task.message.SendAttemptCount + Owed <= pushes + faults)'
  BY <1>1, <1>2, <1>3, <1>4, <1>5, OwedType
<1>9. Owed' + pushes + faults <= Owed + pushes' + faults'
  BY <1>2, <1>3, OwedType
<1>10. QED
  BY <1>1, <1>7, <1>8, <1>9, WorkerStepCovered

LEMMA UpdateCovered ==
    ASSUME TypeOK, TypeOK', AttemptsInv, NEW w \in Workers, Update(w)
    PROVE  AttemptsInv'
<1>1. handler[w] \in [step : {"load", "save", "dispatch"},
                      event : EventTypes, message : Rows]
  BY DEF Update, TypeOK, Tasks, Idle
<1>2. PICK task \in Tasks :
        /\ handler' = [handler EXCEPT ![w] = task]
        /\ task.step # "load"
        /\ task.message.SendAttemptCount
             \in {0, handler[w].message.SendAttemptCount}
  <2>1. /\ [handler[w] EXCEPT !.step = "dispatch"] \in Tasks
        /\ [handler[w] EXCEPT !.step = "dispatch"].step # "load"
        /\ [handler[w] EXCEPT !.step = "dispatch"].message = handler[w].message
    BY <1>1 DEF Tasks
  <2>2. Idle \in Tasks /\ Idle.step # "load" /\ Idle.message.SendAttemptCount = 0
    BY DEF Tasks, Idle, NoRow
  <2>3. QED
    BY <2>1, <2>2 DEF Update
<1>3. /\ row' = handler[w].message
      /\ UNCHANGED <<queue, pushes, faults>>
      /\ pushes \in Nat /\ faults \in Nat
  BY DEF Update, history, TypeOK
<1>4. Owed' = Owed
  <2>1. Owed' = Owed - queue[NotificationSent] + queue'[NotificationSent]
    BY <1>2, TurnOwes DEF Update
  <2>2. QED
    BY <1>3, <2>1, OwedType, NamesAreTypes DEF TypeOK
<1>5. handler[w].message.SendAttemptCount + Owed <= pushes + faults
  BY DEF AttemptsInv, Covered
<1>6. Covered(row.SendAttemptCount)'
  BY <1>3, <1>4, <1>5 DEF Covered
<1>7. (task.message.SendAttemptCount + Owed <= pushes + faults)'
  BY <1>2, <1>3, <1>4, <1>5, NothingIsCovered, OwedType
<1>8. Owed' + pushes + faults <= Owed + pushes' + faults'
  BY <1>3, <1>4, OwedType
<1>9. QED
  BY <1>2, <1>6, <1>7, <1>8, WorkerStepCovered

\* A worker that gives its task up, for good or for another delivery.
LEMMA BackToIdleCovered ==
    ASSUME TypeOK, TypeOK', AttemptsInv, NEW w \in Workers,
           handler' = [handler EXCEPT ![w] = Idle], UNCHANGED <<row, pushes>>,
           queue'[NotificationSent] + faults <= queue[NotificationSent] + faults'
    PROVE  AttemptsInv'
<1>1. PICK task \in Tasks : task = Idle
  BY DEF Tasks
<1>2. task.step # "load" /\ task.message.SendAttemptCount = 0
  BY <1>1 DEF Idle, NoRow
<1>3. /\ queue[NotificationSent] \in Nat /\ queue'[NotificationSent] \in Nat
      /\ faults \in Nat /\ faults' \in Nat /\ pushes \in Nat
      /\ row.SendAttemptCount \in Nat
  BY NamesAreTypes, CountsAreNat DEF TypeOK
<1>4. Owed' <= Owed - queue[NotificationSent] + queue'[NotificationSent]
  <2>1. handler' = [handler EXCEPT ![w] = task]
    BY <1>1
  <2>2. Owed' = IF handler[w].step = "load"
                THEN Owed - queue[NotificationSent]
                       + queue'[NotificationSent] - 1
                ELSE Owed - queue[NotificationSent]
                       + queue'[NotificationSent]
    BY <1>2, <2>1, TurnOwes
  <2>3. QED
    BY <1>3, <2>2, OwedType
<1>5. Owed' + pushes + faults <= Owed + pushes' + faults'
  BY <1>3, <1>4, OwedType, OwedTypeNext
<1>6. Covered(row.SendAttemptCount)'
  <2>1. PICK n \in Nat : n = row.SendAttemptCount /\ Covered(n)
    BY <1>3 DEF AttemptsInv
  <2>2. Covered(n)'
    BY <1>5, <2>1, StaysCovered
  <2>3. QED
    BY <2>1, <2>2 DEF Covered
<1>7. (task.message.SendAttemptCount + Owed <= pushes + faults)'
  BY <1>2, <1>3, <1>5, NothingIsCovered, OwedType, OwedTypeNext
<1>8. QED
  BY <1>1, <1>2, <1>5, <1>6, <1>7, WorkerStepCovered

LEMMA HandlerNextCovered ==
    ASSUME TypeOK, TypeOK', AttemptsInv, NEW w \in Workers, HandlerNext(w)
    PROVE  AttemptsInv'
<1>1. CASE \/ HandleMessageSending(w) \/ HandleMessageSent(w)
           \/ HandleMessageFailed(w) \/ HandleMessageDelivered(w)
           \/ HandleMessageNotificationScheduled(w)
           \/ HandleMessageExpired(w)
  BY <1>1, HandleCovered, MutationTypes, MutationCounts, NamesAreTypes
     DEF HandleMessageSending, HandleMessageSent, HandleMessageFailed,
         HandleMessageDelivered, HandleMessageNotificationScheduled,
         HandleMessageExpired, TypeOK
<1>2. CASE DispatchSendRetry(w)
  <2>1. /\ handler' = [handler EXCEPT ![w] = Idle]
        /\ UNCHANGED <<row, pushes, faults>>
    BY <1>2 DEF DispatchSendRetry, history
  <2>2. queue'[NotificationSent] = queue[NotificationSent]
    BY <1>2, DispatchedSent, OtherNames, NamesAreTypes
       DEF DispatchSendRetry, Dispatch, TypeOK
  <2>3. queue'[NotificationSent] + faults <= queue[NotificationSent] + faults'
    BY <2>1, <2>2, NamesAreTypes DEF TypeOK
  <2>4. QED
    BY <2>1, <2>3, BackToIdleCovered
<1>3. QED
  BY <1>1, <1>2, ScheduleExpirationCheckCovered, UpdateCovered,
     HandleMessageNotificationSentCovered DEF HandlerNext

LEMMA CrashCovered ==
    ASSUME TypeOK, TypeOK', AttemptsInv, NEW w \in Workers, Crash(w)
    PROVE  AttemptsInv'
<1>1. handler[w].event \in EventTypes
  BY DEF Crash, TypeOK, Tasks
<1>2. /\ queue[NotificationSent] \in Nat /\ faults \in Nat
      /\ queue'[NotificationSent] <= queue[NotificationSent] + 1
  BY <1>1, DispatchedSent, NamesAreTypes DEF Crash, Dispatch, TypeOK
<1>3. queue'[NotificationSent] \in Nat
  BY NamesAreTypes DEF TypeOK
<1>4. queue'[NotificationSent] + faults <= queue[NotificationSent] + faults'
  BY <1>2, <1>3 DEF Crash, Fault
<1>5. /\ handler' = [handler EXCEPT ![w] = Idle]
      /\ UNCHANGED <<row, pushes>>
  BY DEF Crash, history
<1>6. QED
  BY <1>4, <1>5, BackToIdleCovered

LEMMA AttemptsInvIsInductive ==
    TypeOK /\ TypeOK' /\ AttemptsInv /\ [Next]_vars => AttemptsInv'
<1> SUFFICES ASSUME TypeOK, TypeOK', AttemptsInv, [Next]_vars
             PROVE  AttemptsInv'
  OBVIOUS
<1>1. CASE \E w \in Workers : HandlerNext(w)
  BY <1>1, HandlerNextCovered
<1>2. CASE \E w \in Workers : Crash(w)
  BY <1>2, CrashCovered
<1>3. QED
  BY <1>1, <1>2, OthersAfford, OtherStepCovered DEF Next, FaultNext, Affords

\* A message is never given up before it was pushed to the phone as often as its
\* MaxSendAttempts says: HandleMessageNotificationSent counts no attempt that
\* PhoneNotificationService.Send did not make, however many handlers overlap,
\* whatever they save over each other and whichever of them is repeated.
THEOREM AttemptsPushed == Spec => []AttemptsArePushed
<1>1. Init => AttemptsInv
  <2> SUFFICES ASSUME Init
               PROVE  AttemptsInv
    OBVIOUS
  <2>1. CountersOf(handler) = {}
    BY DEF Init, CountersOf, Idle
  <2>2. Cardinality(CountersOf(handler)) = 0
    BY <2>1, FS_EmptySet
  <2>3. Owed = 0
    BY <2>2, NamesAreTypes DEF Init, Owed
  <2>4. QED
    BY <2>3 DEF Init, AttemptsInv, Covered, NoRow, Idle
<1>2. TypeOK /\ AttemptsInv => AttemptsArePushed
  BY CountsAreNat, OwedType DEF AttemptsInv, Covered, AttemptsArePushed, TypeOK
<1>3. QED
  BY <1>1, <1>2, AttemptsInvIsInductive, TypeCorrect, PTL DEF Spec

----------------------------------------------------------------------------
(****************************************************************************)
(* The chain of a message: the events, requests and handlers that carry it  *)
(* from one send attempt to the next, for any number of faults, pushes and  *)
(* send attempts, where no two handlers of the message overlap.             *)
(*                                                                          *)
(* A chain has one token: whatever will continue it.  No step makes a       *)
(* second one except a fault, so the copies of the message are counted by a *)
(* ledger of tokens (ChainInv, for CopiesAreBounded), and without faults    *)
(* there is one until the message is settled and announced (Strand and      *)
(* Announce, for NeverStranded and ExpiryIsAnnounced).                      *)
(*                                                                          *)
(* Nothing in the code keeps two handlers apart: every save is of the whole *)
(* row, so two that overlap may undo each other's work, and none of the     *)
(* properties below holds then.  OneAtATime is therefore a hypothesis on    *)
(* behaviours; it is true of every behaviour with one worker.  Requests,    *)
(* the phone and the checks may still come between the loading and the      *)
(* saving of a handler.                                                     *)
(****************************************************************************)

----------------------------------------------------------------------------
(* One handler at a time. *)

OneAtATime ==
    \A v, w \in Workers : handler[v] # Idle /\ handler[w] # Idle => v = w

\* The task in hand, if there is one.
Current ==
    IF \E w \in Workers : handler[w] # Idle
    THEN handler[CHOOSE w \in Workers : handler[w] # Idle] ELSE Idle

Busy == [step : {"load", "save", "dispatch"}, event : EventTypes, message : Rows]

LEMMA IdleIsNotBusy ==
    /\ Tasks = {Idle} \cup Busy
    /\ \A task \in Busy : task # Idle
    /\ Idle.step = "idle" /\ Idle.message = NoRow
  BY DEF Tasks, Busy, Idle

LEMMA CurrentType ==
    ASSUME TypeOK
    PROVE  Current \in Tasks
<1>1. CASE \E w \in Workers : handler[w] # Idle
  <2>1. (CHOOSE w \in Workers : handler[w] # Idle) \in Workers
    BY <1>1
  <2>2. QED
    BY <1>1, <2>1 DEF Current, TypeOK
<1>2. CASE ~\E w \in Workers : handler[w] # Idle
  BY <1>2 DEF Current, Tasks
<1>3. QED
  BY <1>1, <1>2

\* A worker that is not idle has the task in hand.
LEMMA CurrentIs ==
    ASSUME OneAtATime, NEW w \in Workers, handler[w] # Idle
    PROVE  Current = handler[w]
<1>1. (CHOOSE v \in Workers : handler[v] # Idle) = w
  BY DEF OneAtATime
<1>2. QED
  BY <1>1 DEF Current

\* A worker that turns from one task to another turns the task in hand.
LEMMA CurrentTurns ==
    ASSUME TypeOK, OneAtATime, OneAtATime', NEW w \in Workers, NEW task \in Tasks,
           handler' = [handler EXCEPT ![w] = task],
           handler[w] # Idle \/ task # Idle
    PROVE  Current = handler[w] /\ Current' = task
<1>1. handler'[w] = task /\ \A v \in Workers \ {w} : handler'[v] = handler[v]
  BY DEF TypeOK
<1>2. \A v \in Workers \ {w} : handler[v] = Idle
  BY <1>1 DEF OneAtATime
<1>3. Current = handler[w]
  <2>1. CASE handler[w] # Idle
    BY <2>1, CurrentIs
  <2>2. CASE handler[w] = Idle
    BY <1>2, <2>2 DEF Current
  <2>3. QED
    BY <2>1, <2>2
<1>4. Current' = task
  <2>1. CASE task # Idle
    <3>1. (CHOOSE v \in Workers : handler'[v] # Idle) = w
      BY <1>1, <1>2, <2>1
    <3>2. QED
      BY <1>1, <2>1, <3>1 DEF Current
  <2>2. CASE task = Idle
    BY <1>1, <1>2, <2>2 DEF Current
  <2>3. QED
    BY <2>1, <2>2
<1>5. QED
  BY <1>3, <1>4

LEMMA InitIsTyped == Init => TypeOK
  BY DEF Init, TypeOK, NoRow, Rows, Tasks

LEMMA CurrentStays == UNCHANGED handler => UNCHANGED Current
  BY DEF Current

\* What the handlers that load, check and mutate do to the task in hand.
LEMMA HandleForm ==
    ASSUME TypeOK, OneAtATime, OneAtATime', NEW w \in Workers,
           NEW t \in EventTypes, NEW expected, NEW m \in Rows,
           Handle(w, t, expected, m)
    PROVE  /\ queue[t] > 0 /\ queue' = Handled(queue, t)
           /\ UNCHANGED <<request, row, push, phone, history, faults>>
           /\ \/ row.status \notin expected /\ UNCHANGED Current
              \/ row.status \in expected /\ Current = Idle
                   /\ Current' = [step |-> "save", event |-> t, message |-> m]
<1>1. CASE row.status \notin expected
  BY <1>1, CurrentStays DEF Handle, Waiting
<1>2. CASE row.status \in expected
  <2>1. Task("save", t, m) \in Tasks /\ Task("save", t, m) # Idle
    BY DEF Task, Tasks, Idle
  <2>2. QED
    BY <1>2, <2>1, CurrentTurns DEF Handle, Waiting, Task
<1>3. QED
  BY <1>1, <1>2

\* What every step of a worker does to the task in hand.
Loads(t, expected, m) ==
    /\ queue[t] > 0 /\ queue' = Handled(queue, t)
    /\ UNCHANGED <<request, row, push, phone, history, faults>>
    /\ \/ row.status \notin expected /\ UNCHANGED Current
       \/ row.status \in expected /\ Current = Idle
            /\ Current' = [step |-> "save", event |-> t, message |-> m]

LEMMA WorkerForm ==
    ASSUME TypeOK, OneAtATime, OneAtATime', NEW w \in Workers, HandlerNext(w)
    PROVE  \/ Loads(PhoneSending, {"sending"}, AddSendAttempt(row))
           \/ Loads(PhoneSent, {"sending", "expired", "scheduled"}, Sent(row))
           \/ Loads(SendFailed, Statuses \ {"delivered"}, Failed(row))
           \/ Loads(PhoneDelivered,
                    {"sent", "sending", "expired", "scheduled"}, Delivered(row))
           \/ Loads(NotificationScheduledEvent, Statuses,
                    NotificationScheduled(row))
           \/ Loads(SendExpired, {"sending", "scheduled", "pending"},
                    Expired(row))
           \/ /\ queue[NotificationSent] > 0
              /\ queue' = Dispatched(Handled(queue, NotificationSent),
                                     SendExpiredCheck)
              /\ Current = Idle
              /\ Current' = [step |-> "load", event |-> NotificationSent,
                             message |-> NoRow]
              /\ UNCHANGED <<request, row, push, phone, history, faults>>
           \/ /\ Current.step = "load"
              /\ Current' = IF Exists(row)
                            THEN [step |-> "save", event |-> Current.event,
                                  message |-> AddSendAttemptCount(row)]
                            ELSE Idle
              /\ UNCHANGED <<request, row, queue, push, phone, history, faults>>
           \/ /\ Current.step = "save"
              /\ row' = Current.message
              /\ Current' = IF Current.event = SendExpired
                                 /\ CanBeRescheduled(Current.message)
                            THEN [Current EXCEPT !.step = "dispatch"] ELSE Idle
              /\ UNCHANGED <<request, queue, push, phone, history, faults>>
           \/ /\ Current.step = "dispatch"
              /\ queue' = Dispatched(queue, SendRetry)
              /\ Current' = Idle
              /\ UNCHANGED <<request, row, push, phone, history, faults>>
<1> USE NamesAreTypes
<1>1. CASE HandleMessageSending(w)
  BY <1>1, HandleForm, MutationTypes DEF HandleMessageSending, Loads, TypeOK
<1>2. CASE HandleMessageSent(w)
  BY <1>2, HandleForm, MutationTypes DEF HandleMessageSent, Loads, TypeOK
<1>3. CASE HandleMessageFailed(w)
  BY <1>3, HandleForm, MutationTypes DEF HandleMessageFailed, Loads, TypeOK
<1>4. CASE HandleMessageDelivered(w)
  BY <1>4, HandleForm, MutationTypes DEF HandleMessageDelivered, Loads, TypeOK
<1>5. CASE HandleMessageNotificationScheduled(w)
  BY <1>5, HandleForm, MutationTypes
     DEF HandleMessageNotificationScheduled, Loads, TypeOK
<1>6. CASE HandleMessageExpired(w)
  BY <1>6, HandleForm, MutationTypes DEF HandleMessageExpired, Loads, TypeOK
<1>7. CASE ScheduleExpirationCheck(w)
  <2>1. /\ Task("load", NotificationSent, NoRow) \in Tasks
        /\ Task("load", NotificationSent, NoRow) # Idle
    BY DEF Task, Tasks, NoRow, Rows, Statuses, Idle
  <2>2. QED
    BY <1>7, <2>1, CurrentTurns DEF ScheduleExpirationCheck, Waiting, Task
<1>8. CASE HandleMessageNotificationSent(w)
  <2>1. handler[w] \in Busy /\ handler[w] # Idle
    BY <1>8, IdleIsNotBusy DEF HandleMessageNotificationSent, TypeOK
  <2>2. PICK task \in Tasks :
            task = IF Exists(row)
                   THEN Task("save", handler[w].event, AddSendAttemptCount(row))
                   ELSE Idle
    <3>1. Task("save", handler[w].event, AddSendAttemptCount(row)) \in Busy
      BY <2>1, MutationTypes DEF Task, Busy, TypeOK
    <3>2. QED
      BY <3>1, IdleIsNotBusy
  <2>3. handler' = [handler EXCEPT ![w] = task]
    BY <1>8, <2>2 DEF HandleMessageNotificationSent, TypeOK
  <2>4. Current = handler[w] /\ Current' = task
    BY <2>1, <2>3, CurrentTurns
  <2>5. QED
    BY <1>8, <2>2, <2>4 DEF HandleMessageNotificationSent, Task
<1>9. CASE Update(w)
  <2>1. handler[w] \in Busy /\ handler[w] # Idle
    BY <1>9, IdleIsNotBusy DEF Update, TypeOK
  <2>2. PICK task \in Tasks :
            task = IF handler[w].event = SendExpired
                        /\ CanBeRescheduled(handler[w].message)
                   THEN [handler[w] EXCEPT !.step = "dispatch"] ELSE Idle
    <3>1. [handler[w] EXCEPT !.step = "dispatch"] \in Busy
      BY <2>1 DEF Busy
    <3>2. QED
      BY <3>1, IdleIsNotBusy
  <2>3. handler' = [handler EXCEPT ![w] = task]
    BY <1>9, <2>2 DEF Update, TypeOK
  <2>4. Current = handler[w] /\ Current' = task
    BY <2>1, <2>3, CurrentTurns
  <2>5. QED
    BY <1>9, <2>2, <2>4 DEF Update
<1>10. CASE DispatchSendRetry(w)
  <2>1. handler[w] # Idle /\ Idle \in Tasks
    BY <1>10, IdleIsNotBusy DEF DispatchSendRetry, TypeOK
  <2>2. QED
    BY <1>10, <2>1, CurrentTurns DEF DispatchSendRetry, Dispatch
<1>11. QED
  BY <1>1, <1>2, <1>3, <1>4, <1>5, <1>6, <1>7, <1>8, <1>9, <1>10 DEF HandlerNext

LEMMA CrashForm ==
    ASSUME TypeOK, OneAtATime, OneAtATime', NEW w \in Workers, Crash(w)
    PROVE  /\ Current \in Busy /\ Current' = Idle /\ Fault
           /\ queue' = Dispatched(queue, Current.event) \/ UNCHANGED queue
           /\ UNCHANGED <<request, row, push, phone, history>>
<1>1. handler[w] \in Busy /\ handler[w] # Idle /\ Idle \in Tasks
  BY IdleIsNotBusy DEF Crash, TypeOK
<1>2. Current = handler[w] /\ Current' = Idle
  BY <1>1, CurrentTurns DEF Crash
<1>3. QED
  BY <1>1, <1>2 DEF Crash, Dispatch

----------------------------------------------------------------------------
(* Outcomes are final. *)

\* The outcome of b may come after that of a.
CanFollow(a, b) ==
    /\ a \in {"delivered", "failed"} => b \in {a, "none"}
    /\ a = "sent" => b \in {"sent", "delivered", "failed", "none"}

\* What is about to be saved may follow the row, whatever has become of the row
\* since it was loaded.
FollowInv ==
    Current.step = "save" => CanFollow(row.status, Current.message.status)

\* What the phone and the user do to the row meanwhile.
LEMMA OthersChangeRow ==
    ASSUME Next, ~\E w \in Workers : HandlerNext(w)
    PROVE  \/ UNCHANGED row
           \/ row.status \in Outstanding /\ row' = [row EXCEPT !.status = "sending"]
           \/ row' = NoRow
           \/ request = "new" /\ row' = NewMessage
  BY DEF Next, StoreSentMessage, DispatchAPISent, DeleteMessage, NotificationNext,
         Schedule, SendNotification, SendNotificationFails,
         OnMessageNotificationFailed, CheckExpired, LosePush, PhoneNext,
         GetOutstanding, Transmit, TransmitFails, PostEvent, FaultNext,
         DispatchAPISentFails, ScheduleUnannounced, SendNotificationFailsLate,
         GetOutstandingLost, PostEventFails, PhoneForgets, Duplicate, Lose, Crash

\* Before the message is stored there is nothing of it.
NothingBegan ==
    request = "new" =>
        /\ row = NoRow /\ Current = Idle /\ pushes = 0
        /\ \A t \in EventTypes : queue[t] = 0

LEMMA NothingBeganStays ==
    ASSUME TypeOK, OneAtATime, OneAtATime', NothingBegan, [Next]_vars
    PROVE  NothingBegan'
<1> SUFFICES ASSUME request' = "new"
             PROVE  (/\ row = NoRow /\ Current = Idle /\ pushes = 0
                     /\ \A t \in EventTypes : queue[t] = 0)'
  BY DEF NothingBegan
<1> USE NamesAreTypes
<1>1. request = "new"
  <2>1. CASE UNCHANGED request
    BY <2>1
  <2>2. CASE StoreSentMessage \/ DispatchAPISent \/ DispatchAPISentFails
    BY <2>2 DEF StoreSentMessage, DispatchAPISent, DispatchAPISentFails
  <2>3. QED
    BY <2>1, <2>2 DEF Next, vars, DeleteMessage, NotificationNext,
       Schedule, SendNotification, SendNotificationFails,
       OnMessageNotificationFailed, CheckExpired, LosePush, PhoneNext,
       GetOutstanding, Transmit, TransmitFails, PostEvent, FaultNext,
       ScheduleUnannounced, SendNotificationFailsLate,
       GetOutstandingLost, PostEventFails, PhoneForgets, Duplicate, Lose, Crash,
       HandlerNext, HandleMessageSending, HandleMessageSent,
       HandleMessageFailed, HandleMessageDelivered,
       HandleMessageNotificationScheduled, HandleMessageExpired,
       Handle, ScheduleExpirationCheck, HandleMessageNotificationSent,
       Update, DispatchSendRetry
<1>2. /\ row = NoRow /\ Current = Idle /\ pushes = 0
      /\ \A t \in EventTypes : queue[t] = 0
  BY <1>1 DEF NothingBegan
<1>3. row.status = "none" /\ ~Exists(row) /\ row.status \notin Outstanding
      /\ row.status \notin Statuses /\ Idle.step = "idle"
  BY <1>2 DEF NoRow, Exists, Outstanding, Statuses, Idle
<1>4. CASE \E w \in Workers : HandlerNext(w)
  <2>1. PICK w \in Workers : HandlerNext(w)
    BY <1>4
  <2>2. QED
    BY <1>2, <1>3, <2>1, WorkerForm DEF Loads
<1>5. CASE \E w \in Workers : Crash(w)
  BY <1>2, <1>3, <1>5, CrashForm, IdleIsNotBusy
<1>6. CASE UNCHANGED vars
  BY <1>2, <1>6, CurrentStays DEF vars, history
<1>7. CASE Next /\ UNCHANGED <<handler, row, queue, pushes>>
  BY <1>2, <1>7, CurrentStays
<1>8. UNCHANGED <<handler, row, queue, pushes>>
      \/ (\E w \in Workers : HandlerNext(w) \/ Crash(w)) \/ UNCHANGED vars
  BY <1>1, <1>2, <1>3, EventOfType
     DEF Next, StoreSentMessage, DispatchAPISent, DeleteMessage, NotificationNext,
         Schedule, SendNotification, SendNotificationFails,
         OnMessageNotificationFailed, CheckExpired, LosePush, PhoneNext,
         GetOutstanding, Transmit, TransmitFails, PostEvent, FaultNext,
         DispatchAPISentFails, ScheduleUnannounced, SendNotificationFailsLate,
         GetOutstandingLost, PostEventFails, PhoneForgets, Duplicate, Lose,
         Waiting, history, phone, Dispatch
<1>9. QED
  BY <1>4, <1>5, <1>6, <1>7, <1>8

LEMMA FollowInvStays ==
    ASSUME TypeOK, OneAtATime, OneAtATime', NothingBegan, FollowInv, [Next]_vars
    PROVE  /\ FollowInv'
           /\ row # row' => CanFollow(row.status, row'.status)
<1> USE DEF CanFollow
<1>1. CASE UNCHANGED vars
  BY <1>1, CurrentStays DEF vars, FollowInv
<1>2. ASSUME NEW w \in Workers, HandlerNext(w)
      PROVE  /\ FollowInv'
             /\ row # row' => CanFollow(row.status, row'.status)
  <2>1. CASE Current.step = "save" /\ row' = Current.message
               /\ Current' = IF Current.event = SendExpired
                                  /\ CanBeRescheduled(Current.message)
                             THEN [Current EXCEPT !.step = "dispatch"] ELSE Idle
    <3>1. Current \in Busy
      BY <2>1, CurrentType, IdleIsNotBusy
    <3>2. Current'.step # "save"
      BY <2>1, <3>1, IdleIsNotBusy DEF Busy
    <3>3. QED
      BY <2>1, <3>2 DEF FollowInv
  <2>2. CASE Current' = Idle /\ UNCHANGED row
    BY <2>2, IdleIsNotBusy DEF FollowInv
  <2>3. CASE Current' = [step |-> "load", event |-> NotificationSent,
                         message |-> NoRow] /\ UNCHANGED row
    BY <2>3 DEF FollowInv
  <2>4. CASE UNCHANGED <<Current, row>>
    BY <2>4 DEF FollowInv
  <2>5. ASSUME NEW t, NEW expected, NEW m, Loads(t, expected, m),
               row.status \in expected => CanFollow(row.status, m.status)
        PROVE  FollowInv' /\ UNCHANGED row
    <3> HIDE DEF CanFollow
    <3>1. UNCHANGED row
      BY <2>5 DEF Loads
    <3>2. CASE UNCHANGED Current
      BY <3>1, <3>2 DEF FollowInv
    <3>3. CASE /\ row.status \in expected
               /\ Current' = [step |-> "save", event |-> t, message |-> m]
      BY <2>5, <3>1, <3>3 DEF FollowInv
    <3>4. QED
      BY <2>5, <3>1, <3>2, <3>3 DEF Loads
  <2>6. CASE /\ UNCHANGED row
             /\ Current' = IF Exists(row)
                           THEN [step |-> "save", event |-> Current.event,
                                 message |-> AddSendAttemptCount(row)]
                           ELSE Idle
    <3>1. AddSendAttemptCount(row).status = row.status
      BY DEF AddSendAttemptCount, TypeOK, Rows
    <3>2. QED
      BY <2>6, <3>1, IdleIsNotBusy DEF FollowInv
  <2>7. /\ AddSendAttempt(row).status = "sending" /\ Sent(row).status = "sent"
        /\ Failed(row).status = "failed" /\ Delivered(row).status = "delivered"
        /\ Expired(row).status = "expired"
        /\ NotificationScheduled(row).status = row.status
             \/ row.status \in {"expired", "pending"}
    BY DEF AddSendAttempt, Sent, Failed, Delivered, Expired,
           NotificationScheduled, TypeOK, Rows
  <2>8. QED
    BY <1>2, <2>1, <2>2, <2>3, <2>4, <2>5, <2>6, <2>7, WorkerForm DEF Statuses
<1>3. CASE Next /\ ~\E w \in Workers : HandlerNext(w)
  <2>1. Current' = Current \/ Current' = Idle
    <3>1. CASE \E w \in Workers : Crash(w)
      BY <3>1, CrashForm
    <3>2. CASE UNCHANGED handler
      BY <3>2, CurrentStays
    <3>3. QED
      BY <1>3, <3>1, <3>2
         DEF Next, StoreSentMessage, DispatchAPISent, DeleteMessage,
             NotificationNext, Schedule, SendNotification, SendNotificationFails,
             OnMessageNotificationFailed, CheckExpired, LosePush, PhoneNext,
             GetOutstanding, Transmit, TransmitFails, PostEvent, FaultNext,
             DispatchAPISentFails, ScheduleUnannounced,
             SendNotificationFailsLate, GetOutstandingLost, PostEventFails,
             PhoneForgets, Duplicate, Lose
  <2>2. \/ UNCHANGED row
        \/ row.status \in Outstanding /\ row'.status = "sending"
        \/ row'.status = "none"
        \/ row.status = "none" /\ Current = Idle
    BY <1>3, OthersChangeRow
       DEF TypeOK, Rows, NoRow, NewMessage, NothingBegan
  <2>3. QED
    BY <2>1, <2>2, IdleIsNotBusy DEF FollowInv, Outstanding
<1>4. QED
  BY <1>1, <1>2, <1>3

\* delivered and failed are not taken back, and sent only for those two, by any
\* of the listeners in any order of their events, with any number of workers and
\* of things that go wrong: as long as the handlers do not overlap.
THEOREM OutcomeFinal == Spec /\ []OneAtATime => OutcomeIsFinal
<1> DEFINE Step == /\ row.status \in {"delivered", "failed"} =>
                         row'.status \in {row.status, "none"}
                   /\ row.status = "sent" =>
                         row'.status \in {"sent", "delivered", "failed", "none"}
           I == TypeOK /\ NothingBegan /\ FollowInv
<1>1. Init /\ OneAtATime => I
  BY InitIsTyped, IdleIsNotBusy DEF Init, NothingBegan, FollowInv, Current
<1>2. I /\ OneAtATime /\ OneAtATime' /\ [Next]_vars => I' /\ [Step]_row
  BY TypeOKIsInductive, NothingBeganStays, FollowInvStays DEF CanFollow
<1>3. QED
  BY <1>1, <1>2, PTL DEF Spec, OutcomeIsFinal

----------------------------------------------------------------------------
(* The chain of attempts.                                                   *)
(* Accepting a message puts one token into the queue, which goes from event *)
(* to event: message.api.sent, notification.send, notification.sent,        *)
(* send.expired.check, send.expired, and from there, as long as the counter *)
(* allows it, to send.retry and round again.  It leads to a push each time. *)

One(b) == IF b THEN 1 ELSE 0

AheadTypes  == {APISent, SendRetry, NotificationSend}
BehindTypes == {NotificationSent, SendExpiredCheck, SendExpired}

AheadIn(q)  == q[APISent] + q[SendRetry] + q[NotificationSend]
BehindIn(q) == q[NotificationSent] + q[SendExpiredCheck] + q[SendExpired]

\* Tokens on their way to a push ...
Ahead == One(request # "done") + AheadIn(queue) + One(Current.step = "dispatch")

\* ... and tokens that have come from one.
Expiring == Current.step = "save" /\ Current.event = SendExpired
Behind == BehindIn(queue) + One(Expiring)

\* The pushes that the counter of the row does not include yet.
Uncounted == queue[NotificationSent] + One(Current.step = "load")

\* The row as it will be when the handler at work is done with it.
Kept == IF Current.step = "save" THEN Current.message ELSE row

\* One token, and one more for each thing that went wrong.
TokensBounded == Ahead + Behind <= 1 + faults

\* The counter knows of every push but those it will hear of; what went wrong
\* may have hidden one from it or made one more token.
Balanced ==
    Exists(Kept) => pushes + Ahead + Behind
                      <= Kept.SendAttemptCount + Uncounted + 1 + faults

\* A save adds one attempt at most: a handler that dies loses no more.
SavesAreClose ==
    Current.step = "save" /\ Exists(row) =>
        Current.message.SendAttemptCount <= row.SendAttemptCount + 1

PushesBounded == pushes + Ahead <= MaxSendAttempts + faults

\* The events after which a handler saves the row.
SavedEvents == {PhoneSending, PhoneSent, SendFailed, PhoneDelivered,
                NotificationScheduledEvent, NotificationSent, SendExpired}

TasksAreOfChain ==
    /\ Current.step = "dispatch" => Current.event = SendExpired
    /\ Current.step = "load" => Current.event = NotificationSent
    /\ Current.step = "save" =>
          Exists(Current.message) /\ Current.event \in SavedEvents

ChainInv == TokensBounded /\ Balanced /\ SavesAreClose /\ PushesBounded
                /\ TasksAreOfChain

LEMMA HandledAhead ==
    ASSUME NEW q \in [EventTypes -> Nat], NEW t \in EventTypes, q[t] > 0
    PROVE  /\ Handled(q, t) \in [EventTypes -> Nat]
           /\ AheadIn(Handled(q, t)) = AheadIn(q) - One(t \in AheadTypes)
           /\ BehindIn(Handled(q, t)) = BehindIn(q) - One(t \in BehindTypes)
           /\ Handled(q, t)[NotificationSent]
                = q[NotificationSent] - One(t = NotificationSent)
<1>1. /\ Handled(q, t) \in [EventTypes -> Nat]
      /\ \A u \in EventTypes :
            Handled(q, t)[u] = IF u = t THEN q[u] - 1 ELSE q[u]
  BY HandledCounts
<1>2. QED
  BY <1>1, NamesAreTypes
     DEF One, AheadIn, BehindIn, AheadTypes, BehindTypes, APISent, SendRetry,
         NotificationSend, NotificationSent, SendExpiredCheck, SendExpired

LEMMA DispatchedAhead ==
    ASSUME NEW q \in [EventTypes -> Nat], NEW t \in EventTypes
    PROVE  /\ Dispatched(q, t) \in [EventTypes -> Nat]
           /\ AheadIn(Dispatched(q, t)) = AheadIn(q) + One(t \in AheadTypes)
           /\ BehindIn(Dispatched(q, t)) = BehindIn(q) + One(t \in BehindTypes)
           /\ Dispatched(q, t)[NotificationSent]
                = q[NotificationSent] + One(t = NotificationSent)
<1>1. /\ Dispatched(q, t) \in [EventTypes -> Nat]
      /\ \A u \in EventTypes :
            Dispatched(q, t)[u] = IF u = t THEN q[u] + 1 ELSE q[u]
  BY DispatchedCounts
<1>2. QED
  BY <1>1, NamesAreTypes
     DEF One, AheadIn, BehindIn, AheadTypes, BehindTypes, APISent, SendRetry,
         NotificationSend, NotificationSent, SendExpiredCheck, SendExpired

LEMMA LedgerType ==
    ASSUME TypeOK
    PROVE  /\ AheadIn(queue) \in Nat /\ BehindIn(queue) \in Nat
           /\ queue[NotificationSent] \in Nat
           /\ Ahead \in Nat /\ Behind \in Nat /\ Uncounted \in Nat
           /\ Kept \in Rows /\ Kept.SendAttemptCount \in Nat
           /\ pushes \in Nat /\ faults \in Nat
<1>1. /\ AheadIn(queue) \in Nat /\ BehindIn(queue) \in Nat
      /\ queue[NotificationSent] \in Nat
  BY NamesAreTypes DEF TypeOK, AheadIn, BehindIn
<1>2. Ahead \in Nat /\ Behind \in Nat /\ Uncounted \in Nat
  BY <1>1 DEF Ahead, Behind, Uncounted, One
<1>3. Kept \in Rows
  BY CurrentType, IdleIsNotBusy DEF Kept, Busy, TypeOK
<1>4. QED
  BY <1>1, <1>2, <1>3 DEF TypeOK, Rows

LEMMA LedgerTypeNext ==
    ASSUME TypeOK'
    PROVE  /\ Ahead' \in Nat /\ Behind' \in Nat /\ Uncounted' \in Nat
           /\ Kept'.SendAttemptCount \in Nat
           /\ pushes' \in Nat /\ faults' \in Nat
<1>1. /\ AheadIn(queue)' \in Nat /\ BehindIn(queue)' \in Nat
      /\ queue'[NotificationSent] \in Nat
  BY NamesAreTypes DEF TypeOK, AheadIn, BehindIn
<1>2. Ahead' \in Nat /\ Behind' \in Nat /\ Uncounted' \in Nat
  BY <1>1 DEF Ahead, Behind, Uncounted, One
<1>3. Kept' \in Rows
  <2>1. Current' \in Tasks
    <3>1. CASE \E w \in Workers : handler'[w] # Idle
      <4>1. (CHOOSE w \in Workers : handler'[w] # Idle) \in Workers
        BY <3>1
      <4>2. QED
        BY <3>1, <4>1 DEF Current, TypeOK
    <3>2. CASE ~\E w \in Workers : handler'[w] # Idle
      BY <3>2 DEF Current, Tasks
    <3>3. QED
      BY <3>1, <3>2
  <2>2. QED
    BY <2>1, IdleIsNotBusy DEF Kept, Busy, TypeOK
<1>4. QED
  BY <1>1, <1>2, <1>3 DEF TypeOK, Rows

\* What a step may do to the tokens, the pushes, the counter and the faults.
Affordable ==
    /\ Ahead' + Behind' + faults <= Ahead + Behind + faults'
    /\ Exists(Kept)' =>
          /\ Exists(Kept)
          /\ (pushes' + Ahead' + Behind')
                + (Kept.SendAttemptCount + Uncounted + faults)
             <= (pushes + Ahead + Behind)
                + (Kept'.SendAttemptCount + Uncounted' + faults')

LEMMA AffordableStays ==
    ASSUME TypeOK, TypeOK', ChainInv, Affordable
    PROVE  TokensBounded' /\ Balanced'
<1>1. TokensBounded'
  BY LedgerType, LedgerTypeNext DEF ChainInv, TokensBounded, Affordable
<1>2. ASSUME Exists(Kept)'
      PROVE  pushes' + Ahead' + Behind'
               <= Kept'.SendAttemptCount + Uncounted' + 1 + faults'
  <2>1. pushes + Ahead + Behind
          <= Kept.SendAttemptCount + Uncounted + 1 + faults
    BY <1>2 DEF ChainInv, Balanced, Affordable
  <2>2. (pushes' + Ahead' + Behind')
                + (Kept.SendAttemptCount + Uncounted + faults)
             <= (pushes + Ahead + Behind)
                + (Kept'.SendAttemptCount + Uncounted' + faults')
    BY <1>2 DEF Affordable
  <2>3. QED
    BY <2>1, <2>2, LedgerType, LedgerTypeNext
<1>3. QED
  BY <1>1, <1>2 DEF Balanced

\* The same of the steps that leave the task in hand alone.
QueueAhead == One(request # "done") + AheadIn(queue)

Paid ==
    LET tokens == QueueAhead + BehindIn(queue) IN
    /\ tokens' + faults <= tokens + faults'
    /\ pushes' + tokens' + queue[NotificationSent] + faults
         <= pushes + tokens + queue'[NotificationSent] + faults'
    /\ pushes' + QueueAhead' + faults <= pushes + QueueAhead + faults'

LEMMA OtherStepStays ==
    ASSUME TypeOK, TypeOK', ChainInv, UNCHANGED Current, Paid,
           \/ UNCHANGED row
           \/ row.status \in Outstanding /\ row' = [row EXCEPT !.status = "sending"]
           \/ row' = NoRow
    PROVE  ChainInv'
<1>1. /\ row'.SendAttemptCount = row.SendAttemptCount \/ ~Exists(row)'
      /\ Exists(row)' => Exists(row)
  BY DEF Exists, TypeOK, Rows, NoRow, Outstanding
<1>2. /\ Exists(Kept)' => Exists(Kept)
      /\ Exists(Kept)' => Kept'.SendAttemptCount = Kept.SendAttemptCount
  BY <1>1 DEF Kept, Exists
<1> DEFINE d == One(Current.step = "dispatch")
           e == One(Expiring)
           l == One(Current.step = "load")
<1>3. /\ d \in Nat /\ e \in Nat /\ l \in Nat
      /\ Ahead = QueueAhead + d /\ Ahead' = QueueAhead' + d
      /\ Behind = BehindIn(queue) + e /\ Behind' = BehindIn(queue)' + e
      /\ Uncounted = queue[NotificationSent] + l
      /\ Uncounted' = queue'[NotificationSent] + l
  BY DEF Ahead, Behind, Uncounted, QueueAhead, Expiring, One
<1>4. /\ QueueAhead \in Nat /\ BehindIn(queue) \in Nat
      /\ queue[NotificationSent] \in Nat
      /\ QueueAhead' \in Nat /\ BehindIn(queue)' \in Nat
      /\ queue'[NotificationSent] \in Nat
  BY NamesAreTypes DEF TypeOK, AheadIn, BehindIn, QueueAhead, One
<1> HIDE DEF d, e, l
<1>5. Affordable
  BY <1>2, <1>3, <1>4, LedgerType, LedgerTypeNext DEF Affordable, Paid
<1>6. SavesAreClose'
  BY <1>1 DEF ChainInv, SavesAreClose
<1>7. PushesBounded'
  BY <1>3, <1>4, LedgerType, LedgerTypeNext, MaxSendAttemptsAssumption
     DEF ChainInv, PushesBounded, Paid
<1>8. TasksAreOfChain'
  BY DEF ChainInv, TasksAreOfChain
<1>9. QED
  BY <1>5, <1>6, <1>7, <1>8, AffordableStays DEF ChainInv

\* Dropping, adding and turning events one into another.
LEMMA EventPays ==
    ASSUME TypeOK, UNCHANGED request, NEW t \in EventTypes, queue[t] > 0
    PROVE  /\ queue' = Handled(queue, t) /\ UNCHANGED <<pushes, faults>>
                /\ t # NotificationSent => Paid
           /\ queue' = Handled(queue, t) /\ UNCHANGED pushes
                /\ faults' = faults + 1 => Paid
           /\ queue' = Dispatched(queue, t) /\ UNCHANGED pushes
                /\ faults' = faults + 1 => Paid
<1> USE DEF Paid, QueueAhead, One, AheadTypes, BehindTypes, NotificationSent,
        APISent, SendRetry, NotificationSend, SendExpiredCheck, SendExpired
<1>1. /\ AheadIn(queue) \in Nat /\ BehindIn(queue) \in Nat
      /\ queue["message.notification.sent"] \in Nat
      /\ pushes \in Nat /\ faults \in Nat
  BY LedgerType DEF TypeOK
<1>2. queue \in [EventTypes -> Nat]
  BY DEF TypeOK
<1>3. ASSUME queue' = Handled(queue, t), UNCHANGED <<pushes, faults>>,
             t # NotificationSent
      PROVE  Paid
  BY <1>1, <1>2, <1>3, HandledAhead
<1>4. ASSUME queue' = Handled(queue, t), UNCHANGED pushes, faults' = faults + 1
      PROVE  Paid
  BY <1>1, <1>2, <1>4, HandledAhead
<1>5. ASSUME queue' = Dispatched(queue, t), UNCHANGED pushes,
             faults' = faults + 1
      PROVE  Paid
  BY <1>1, <1>2, <1>5, DispatchedAhead
<1>6. QED
  BY <1>3, <1>4, <1>5

LEMMA FollowedAhead ==
    ASSUME NEW q \in [EventTypes -> Nat], NEW t \in EventTypes, q[t] > 0,
           NEW next \in EventTypes,
           NEW p, p = Dispatched(Handled(q, t), next)
    PROVE  /\ p \in [EventTypes -> Nat]
           /\ AheadIn(p) = AheadIn(q) - One(t \in AheadTypes)
                             + One(next \in AheadTypes)
           /\ BehindIn(p) = BehindIn(q) - One(t \in BehindTypes)
                              + One(next \in BehindTypes)
           /\ p[NotificationSent] = q[NotificationSent]
                 - One(t = NotificationSent) + One(next = NotificationSent)
<1> DEFINE rest == Handled(q, t)
<1>1. rest \in [EventTypes -> Nat]
  BY HandledCounts
<1>2. /\ AheadIn(rest) = AheadIn(q) - One(t \in AheadTypes)
      /\ BehindIn(rest) = BehindIn(q) - One(t \in BehindTypes)
      /\ rest[NotificationSent] = q[NotificationSent] - One(t = NotificationSent)
  BY HandledAhead
<1> HIDE DEF rest
<1>3. /\ Dispatched(rest, next) \in [EventTypes -> Nat]
      /\ AheadIn(Dispatched(rest, next)) = AheadIn(rest) + One(next \in AheadTypes)
      /\ BehindIn(Dispatched(rest, next)) = BehindIn(rest) + One(next \in BehindTypes)
      /\ Dispatched(rest, next)[NotificationSent]
           = rest[NotificationSent] + One(next = NotificationSent)
  BY <1>1, DispatchedAhead
<1>4. QED
  BY <1>2, <1>3 DEF rest

\* What an event of each type is worth in the ledger.
LEMMA Weights ==
    /\ \A t \in AheadTypes :
          /\ t \in EventTypes /\ One(t \in AheadTypes) = 1
          /\ One(t \in BehindTypes) = 0 /\ One(t = NotificationSent) = 0
    /\ \A t \in BehindTypes :
          /\ t \in EventTypes /\ One(t \in AheadTypes) = 0
          /\ One(t \in BehindTypes) = 1
    /\ \A t \in BehindTypes \ {NotificationSent} : One(t = NotificationSent) = 0
    /\ One(NotificationSent = NotificationSent) = 1
    /\ \A t \in EventTypes \ (AheadTypes \cup BehindTypes) :
          /\ One(t \in AheadTypes) = 0
          /\ One(t \in BehindTypes) = 0 /\ One(t = NotificationSent) = 0
    /\ {APISent, SendRetry, NotificationSend} \subseteq AheadTypes
    /\ NotificationSent \in BehindTypes
    /\ {SendExpiredCheck, SendExpired} \subseteq BehindTypes \ {NotificationSent}
    /\ {NotificationScheduledEvent, NotificationFailed, SendFailed, PhoneSending,
        PhoneSent, PhoneDelivered}
          \subseteq EventTypes \ (AheadTypes \cup BehindTypes)
  BY DEF One, AheadTypes, BehindTypes, EventTypes, APISent, SendRetry,
         NotificationSend, NotificationSent, SendExpiredCheck, SendExpired,
         NotificationScheduledEvent, NotificationFailed, SendFailed,
         PhoneSending, PhoneSent, PhoneDelivered

LEMMA SumsAreNat ==
    ASSUME NEW q \in [EventTypes -> Nat]
    PROVE  /\ AheadIn(q) \in Nat /\ BehindIn(q) \in Nat
           /\ q[NotificationSent] \in Nat
  BY NamesAreTypes DEF AheadIn, BehindIn

\* What a step adds to the sums and to the counters.
Moved(ahead, behind, unread, pushed, failed) ==
    /\ AheadIn(queue') = AheadIn(queue) + ahead
    /\ BehindIn(queue') = BehindIn(queue) + behind
    /\ queue'[NotificationSent] = queue[NotificationSent] + unread
    /\ pushes' = pushes + pushed
    /\ faults' = faults + failed

LEMMA MovedPays ==
    ASSUME TypeOK, UNCHANGED request,
           NEW ahead \in Int, NEW behind \in Int, NEW unread \in Int,
           NEW pushed \in Int, NEW failed \in Int,
           Moved(ahead, behind, unread, pushed, failed),
           ahead + behind <= failed, pushed + ahead <= failed,
           pushed + ahead + behind <= unread + failed
    PROVE  Paid
<1>1. queue \in [EventTypes -> Nat] /\ pushes \in Nat /\ faults \in Nat
  BY DEF TypeOK
<1> DEFINE a == AheadIn(queue)
           b == BehindIn(queue)
           n == queue[NotificationSent]
           r == One(request # "done")
<1>2. a \in Nat /\ b \in Nat /\ n \in Nat /\ r \in Nat /\ UNCHANGED r
  BY <1>1, SumsAreNat DEF One
<1>3. /\ a' = a + ahead /\ b' = b + behind /\ n' = n + unread
      /\ pushes' = pushes + pushed /\ faults' = faults + failed
  BY DEF Moved, AheadIn, BehindIn
<1>4. /\ QueueAhead = r + a /\ QueueAhead' = r' + a'
  BY DEF QueueAhead
<1>5. /\ (QueueAhead' + b') + faults <= (QueueAhead + b) + faults'
      /\ pushes' + (QueueAhead' + b') + n + faults
           <= pushes + (QueueAhead + b) + n' + faults'
      /\ pushes' + QueueAhead' + faults <= pushes + QueueAhead + faults'
  <2> HIDE DEF a, b, n, r
  <2> QED
    BY <1>1, <1>2, <1>3, <1>4
<1>6. QED
  BY <1>5 DEF Paid

\* Whatever the queue, the phone and the checks do is paid for.
LEMMA NotificationsPay ==
    ASSUME TypeOK,
           NotificationNext \/ ScheduleUnannounced \/ SendNotificationFailsLate
    PROVE  Paid
<1>1. queue \in [EventTypes -> Nat] /\ pushes \in Nat /\ faults \in Nat
  BY DEF TypeOK
<1>2. /\ AheadIn(queue) \in Nat /\ BehindIn(queue) \in Nat
      /\ queue[NotificationSent] \in Nat
  BY <1>1, SumsAreNat
<1>3. CASE Schedule
  <2>1. PICK t \in {APISent, SendRetry} :
            queue[t] > 0 /\ queue' = Dispatched(Dispatched(Handled(queue, t),
                        NotificationScheduledEvent), NotificationSend)
    BY <1>3 DEF Schedule, Waiting
  <2> DEFINE p == Dispatched(Handled(queue, t), NotificationScheduledEvent)
  <2>2. /\ p \in [EventTypes -> Nat]
        /\ AheadIn(p) = AheadIn(queue) - 1 /\ BehindIn(p) = BehindIn(queue)
        /\ p[NotificationSent] = queue[NotificationSent]
    BY <1>1, <1>2, <2>1, FollowedAhead, Weights
  <2>3. queue' = Dispatched(p, NotificationSend)
    BY <2>1
  <2> HIDE DEF p
  <2>4. UNCHANGED <<request, pushes, faults>>
    BY <1>3 DEF Schedule, history
  <2>5. /\ AheadIn(queue') = AheadIn(p) + 1
        /\ BehindIn(queue') = BehindIn(p) + 0
        /\ queue'[NotificationSent] = p[NotificationSent] + 0
    BY <2>2, <2>3, DispatchedAhead, Weights
  <2>6. Moved(0, 0, 0, 0, 0)
    BY <1>1, <1>2, <2>2, <2>4, <2>5 DEF Moved
  <2>7. QED
    BY <2>4, <2>6, MovedPays
<1>4. CASE ScheduleUnannounced
  <2>1. PICK t \in {APISent, SendRetry} :
            queue[t] > 0 /\ queue' = Dispatched(Handled(queue, t),
                                                NotificationSend)
    BY <1>4 DEF ScheduleUnannounced, Waiting
  <2>2. UNCHANGED <<request, pushes>> /\ faults' = faults + 1
    BY <1>4 DEF ScheduleUnannounced, Fault, history
  <2>3. Moved(0, 0, 0, 0, 1)
    BY <1>1, <1>2, <2>1, <2>2, FollowedAhead, Weights DEF Moved
  <2>4. QED
    BY <2>2, <2>3, MovedPays
<1>5. CASE SendNotification
  <2>1. Moved(-1, 1, 1, 1, 0) /\ UNCHANGED request
    BY <1>1, <1>2, <1>5, FollowedAhead, Weights
       DEF SendNotification, Moved, Waiting
  <2>2. QED
    BY <2>1, MovedPays
<1>6. CASE SendNotificationFails
  <2>1. Moved(-1, 0, 0, 0, 0) /\ UNCHANGED request
    BY <1>1, <1>2, <1>6, FollowedAhead, Weights
       DEF SendNotificationFails, Moved, Waiting
  <2>2. QED
    BY <2>1, MovedPays
<1>7. CASE SendNotificationFailsLate
  <2>1. Moved(-1, 0, 0, 1, 1) /\ UNCHANGED request
    BY <1>1, <1>2, <1>7, FollowedAhead, Weights
       DEF SendNotificationFailsLate, Moved, Waiting, Fault
  <2>2. QED
    BY <2>1, MovedPays
<1>8. CASE OnMessageNotificationFailed
  <2>1. Moved(0, 0, 0, 0, 0) /\ UNCHANGED request
    BY <1>1, <1>2, <1>8, FollowedAhead, HandledAhead, Weights
       DEF OnMessageNotificationFailed, Moved, Waiting, history
  <2>2. QED
    BY <2>1, MovedPays
<1>9. QED
  BY <1>3, <1>4, <1>5, <1>6, <1>7, <1>8 DEF NotificationNext

LEMMA TheRestPays ==
    ASSUME TypeOK,
           \/ DispatchAPISent \/ DispatchAPISentFails \/ DeleteMessage
           \/ CheckExpired \/ LosePush \/ PhoneNext \/ GetOutstandingLost
           \/ PostEventFails \/ PhoneForgets \/ Duplicate \/ Lose
           \/ UNCHANGED vars
    PROVE  Paid
<1>1. queue \in [EventTypes -> Nat] /\ pushes \in Nat /\ faults \in Nat
  BY DEF TypeOK
<1>2. /\ AheadIn(queue) \in Nat /\ BehindIn(queue) \in Nat
      /\ queue[NotificationSent] \in Nat
  BY <1>1, SumsAreNat
<1>3. CASE UNCHANGED <<queue, pushes, request>>
             /\ (UNCHANGED faults \/ faults' = faults + 1)
  <2>1. Moved(0, 0, 0, 0, 0) \/ Moved(0, 0, 0, 0, 1)
    BY <1>1, <1>2, <1>3 DEF Moved
  <2>2. QED
    BY <1>3, <2>1, MovedPays
<1>5. CASE DispatchAPISent \/ DispatchAPISentFails
  <2>1. /\ QueueAhead' <= QueueAhead
        /\ BehindIn(queue') = BehindIn(queue)
        /\ queue'[NotificationSent] = queue[NotificationSent]
        /\ pushes' = pushes /\ faults <= faults'
        /\ QueueAhead \in Nat /\ QueueAhead' \in Nat /\ faults' \in Nat
    <3>1. CASE DispatchAPISent
      <4>1. AheadIn(queue') = AheadIn(queue) + 1
            /\ BehindIn(queue') = BehindIn(queue)
            /\ queue'[NotificationSent] = queue[NotificationSent]
            /\ UNCHANGED <<pushes, faults>>
        BY <1>1, <1>2, <3>1, DispatchedAhead, Weights
           DEF DispatchAPISent, Dispatch, history
      <4>2. QueueAhead = 1 + AheadIn(queue) /\ QueueAhead' = AheadIn(queue')
        BY <3>1, <1>2, <4>1 DEF DispatchAPISent, QueueAhead, One, AheadIn
      <4>3. QED
        BY <1>1, <1>2, <4>1, <4>2
    <3>2. CASE DispatchAPISentFails
      <4>1. QueueAhead = 1 + AheadIn(queue) /\ QueueAhead' = AheadIn(queue)
        BY <1>2, <3>2 DEF DispatchAPISentFails, QueueAhead, One, AheadIn
      <4>2. QED
        BY <1>1, <1>2, <3>2, <4>1 DEF DispatchAPISentFails, Fault, history
    <3>3. QED
      BY <1>5, <3>1, <3>2
  <2>2. BehindIn(queue)' = BehindIn(queue')
    BY DEF BehindIn
  <2>3. ASSUME NEW r \in Nat, NEW r2 \in Nat, r2 <= r, NEW b \in Nat,
               NEW n \in Nat, NEW k \in Nat, NEW f2 \in Nat, faults <= f2
        PROVE  /\ (r2 + b) + faults <= (r + b) + f2
               /\ k + (r2 + b) + n + faults <= k + (r + b) + n + f2
               /\ k + r2 + faults <= k + r + f2
    BY <1>1, <2>3
  <2>4. /\ (QueueAhead' + BehindIn(queue)') + faults
             <= (QueueAhead + BehindIn(queue)) + faults'
        /\ pushes' + (QueueAhead' + BehindIn(queue)') + queue[NotificationSent]
             + faults <= pushes + (QueueAhead + BehindIn(queue))
                           + queue'[NotificationSent] + faults'
        /\ pushes' + QueueAhead' + faults <= pushes + QueueAhead + faults'
    BY <1>1, <1>2, <2>1, <2>2, <2>3
  <2>5. QED
    BY <2>4 DEF Paid
<1>7. CASE CheckExpired
  <2>1. UNCHANGED <<request, pushes, faults>>
    BY <1>7 DEF CheckExpired
  <2>2. \/ Moved(0, 0, 0, 0, 0) \/ Moved(0, -1, 0, 0, 0)
    BY <1>1, <1>2, <1>7, <2>1, FollowedAhead, HandledAhead, Weights
       DEF CheckExpired, Moved, Waiting
  <2>3. QED
    BY <2>1, <2>2, MovedPays
<1>8. ASSUME NEW t \in {PhoneSending, PhoneSent, PhoneDelivered, SendFailed},
             queue' = Dispatched(queue, t), UNCHANGED <<request, pushes>>,
             UNCHANGED faults \/ faults' = faults + 1
      PROVE  Paid
  <2>1. Moved(0, 0, 0, 0, 0) \/ Moved(0, 0, 0, 0, 1)
    BY <1>1, <1>2, <1>8, DispatchedAhead, Weights DEF Moved
  <2>2. QED
    BY <1>8, <2>1, MovedPays
<1>9. CASE GetOutstanding \/ GetOutstandingLost
  BY <1>3, <1>8, <1>9
     DEF GetOutstanding, GetOutstandingLost, Dispatch, Fault
<1>10. CASE PostEvent
  BY <1>3, <1>8, <1>10 DEF PostEvent, Dispatch, EventOf, EventNames, history
<1>11. CASE Duplicate \/ Lose
  <2>1. PICK t \in EventTypes :
            /\ queue[t] > 0
            /\ queue' = Dispatched(queue, t) \/ queue' = Handled(queue, t)
    BY <1>11 DEF Duplicate, Lose, Dispatch, Waiting
  <2>2. UNCHANGED <<request, pushes>> /\ faults' = faults + 1
    BY <1>11 DEF Duplicate, Lose, Fault, history
  <2>3. QED
    BY <2>1, <2>2, EventPays
<1>12. QED
  BY <1>3, <1>5, <1>7, <1>9, <1>10, <1>11
     DEF DeleteMessage, LosePush, PhoneNext, Transmit, TransmitFails, Report,
         PostEventFails, PhoneForgets, Fault, vars, history

----------------------------------------------------------------------------
(* The steps of the handlers. *)

\* What the task in hand is worth in the ledger.
HeldSums ==
    /\ Current.step = "idle" =>
          /\ Ahead = QueueAhead /\ Behind = BehindIn(queue)
          /\ Uncounted = queue[NotificationSent] /\ Kept = row
    /\ Current.step = "load" =>
          /\ Ahead = QueueAhead /\ Behind = BehindIn(queue)
          /\ Uncounted = queue[NotificationSent] + 1 /\ Kept = row
    /\ Current.step = "save" =>
          /\ Ahead = QueueAhead
          /\ Behind = BehindIn(queue) + One(Current.event = SendExpired)
          /\ Uncounted = queue[NotificationSent] /\ Kept = Current.message
    /\ Current.step = "dispatch" =>
          /\ Ahead = QueueAhead + 1 /\ Behind = BehindIn(queue)
          /\ Uncounted = queue[NotificationSent] /\ Kept = row

LEMMA HeldSumsHold == TypeOK => HeldSums
<1> SUFFICES ASSUME TypeOK PROVE HeldSums
  OBVIOUS
<1>1. /\ AheadIn(queue) \in Nat /\ BehindIn(queue) \in Nat
      /\ queue[NotificationSent] \in Nat
  BY SumsAreNat DEF TypeOK
<1>2. QED
  BY <1>1 DEF HeldSums, Ahead, QueueAhead, Behind, Uncounted, Kept, Expiring, One

LEMMA HeldSumsHoldNext == TypeOK' => HeldSums'
<1> SUFFICES ASSUME TypeOK' PROVE HeldSums'
  OBVIOUS
<1>1. /\ AheadIn(queue') \in Nat /\ BehindIn(queue') \in Nat
      /\ queue'[NotificationSent] \in Nat
  BY SumsAreNat DEF TypeOK
<1>2. /\ AheadIn(queue)' \in Nat /\ BehindIn(queue)' \in Nat
      /\ queue'[NotificationSent] \in Nat
  BY <1>1 DEF AheadIn, BehindIn
<1>3. QED
  BY <1>2 DEF HeldSums, Ahead, QueueAhead, Behind, Uncounted, Kept, Expiring, One

LEMMA StepStays ==
    ASSUME TypeOK, TypeOK', ChainInv, Affordable, SavesAreClose',
           TasksAreOfChain', pushes' + Ahead' + faults <= pushes + Ahead + faults'
    PROVE  ChainInv'
<1>1. PushesBounded'
  BY LedgerType, LedgerTypeNext, MaxSendAttemptsAssumption
     DEF ChainInv, PushesBounded
<1>2. QED
  BY <1>1, AffordableStays DEF ChainInv

\* The sums after a step that hands one event over.
LEMMA QueueSums ==
    ASSUME TypeOK, TypeOK', UNCHANGED request
    PROVE  /\ QueueAhead' = QueueAhead + (AheadIn(queue') - AheadIn(queue))
           /\ BehindIn(queue)' = BehindIn(queue')
           /\ QueueAhead \in Nat /\ AheadIn(queue) \in Nat
           /\ BehindIn(queue) \in Nat /\ queue[NotificationSent] \in Nat
           /\ queue \in [EventTypes -> Nat] /\ row.SendAttemptCount \in Nat
           /\ pushes \in Nat /\ faults \in Nat
<1>1. queue \in [EventTypes -> Nat] /\ row.SendAttemptCount \in Nat
      /\ pushes \in Nat /\ faults \in Nat
  BY DEF TypeOK, Rows
<1>2. /\ AheadIn(queue) \in Nat /\ BehindIn(queue) \in Nat
      /\ queue[NotificationSent] \in Nat
  BY <1>1, SumsAreNat
<1>3. QueueAhead = One(request # "done") + AheadIn(queue)
      /\ QueueAhead' = One(request' # "done") + AheadIn(queue')
  BY DEF QueueAhead, AheadIn
<1>4. One(request # "done") \in Nat
  BY DEF One
<1>5. AheadIn(queue') \in Nat
  BY SumsAreNat DEF TypeOK
<1>6. QED
  BY <1>1, <1>2, <1>3, <1>4, <1>5 DEF BehindIn

\* Loading a row for one of the listeners moves its event into the task.
LEMMA LoadStays ==
    ASSUME TypeOK, TypeOK', ChainInv, NEW t \in SavedEvents \ {NotificationSent},
           NEW expected \in SUBSET Statuses, NEW m \in Rows,
           Loads(t, expected, m), Exists(m),
           m.SendAttemptCount = row.SendAttemptCount
    PROVE  ChainInv'
<1> USE NamesAreTypes
<1>1. /\ queue[t] > 0 /\ queue' = Handled(queue, t)
      /\ UNCHANGED <<request, row, pushes, faults>>
      /\ t \in EventTypes /\ t # NotificationSent
  BY DEF Loads, SavedEvents, history, NotificationSent, SendExpired, SendFailed,
         PhoneSending, PhoneSent, PhoneDelivered, NotificationScheduledEvent
<1>2. CASE UNCHANGED Current
  BY <1>1, <1>2, EventPays, OtherStepStays
<1>3. CASE row.status \in expected /\ Current = Idle
             /\ Current' = [step |-> "save", event |-> t, message |-> m]
  <2>1. /\ Current.step = "idle" /\ Current'.step = "save"
        /\ Current'.event = t /\ Current'.message = m
    BY <1>3, IdleIsNotBusy
  <2>2. /\ Ahead = QueueAhead /\ Behind = BehindIn(queue)
        /\ Uncounted = queue[NotificationSent] /\ Kept = row
        /\ Ahead' = QueueAhead'
        /\ Behind' = BehindIn(queue)' + One(t = SendExpired)
        /\ Uncounted' = queue'[NotificationSent] /\ Kept' = m
    BY <2>1, HeldSumsHold, HeldSumsHoldNext DEF HeldSums
  <2>3. /\ AheadIn(queue') = AheadIn(queue)
        /\ BehindIn(queue') = BehindIn(queue) - One(t = SendExpired)
        /\ queue'[NotificationSent] = queue[NotificationSent]
        /\ One(t = SendExpired) \in Nat
    <3>1. CASE t = SendExpired
      BY <1>1, <3>1, QueueSums, HandledAhead, Weights DEF One
    <3>2. CASE t # SendExpired
      <4>1. t \in EventTypes \ (AheadTypes \cup BehindTypes)
        BY <1>1, <3>2, Weights DEF SavedEvents
      <4>2. QED
        BY <1>1, <3>2, <4>1, QueueSums, HandledAhead, Weights DEF One
    <3>3. QED
      BY <3>1, <3>2
  <2>4. Ahead' = Ahead /\ Behind' = Behind /\ Uncounted' = Uncounted
    BY <1>1, <2>2, <2>3, QueueSums
  <2>5. Exists(row) /\ Kept'.SendAttemptCount = Kept.SendAttemptCount
        /\ Exists(Kept)
    BY <1>3, <2>2 DEF Exists, Statuses
  <2>6. Affordable
    BY <1>1, <2>4, <2>5, LedgerType DEF Affordable
  <2>7. SavesAreClose' /\ TasksAreOfChain'
    BY <1>1, <2>1, QueueSums DEF SavesAreClose, TasksAreOfChain
  <2>8. QED
    BY <1>1, <2>4, <2>6, <2>7, StepStays, LedgerType
<1>4. QED
  BY <1>2, <1>3 DEF Loads

\* The notification that was sent: its check is scheduled first ...
LEMMA CheckScheduleStays ==
    ASSUME TypeOK, TypeOK', ChainInv, queue[NotificationSent] > 0,
           queue' = Dispatched(Handled(queue, NotificationSent), SendExpiredCheck),
           Current = Idle,
           Current' = [step |-> "load", event |-> NotificationSent,
                       message |-> NoRow],
           UNCHANGED <<request, row, pushes, faults>>
    PROVE  ChainInv'
<1>1. /\ Current.step = "idle" /\ Current'.step = "load"
      /\ Current'.event = NotificationSent
  BY IdleIsNotBusy
<1>2. /\ Ahead = QueueAhead /\ Behind = BehindIn(queue)
      /\ Uncounted = queue[NotificationSent] /\ Kept = row
      /\ Ahead' = QueueAhead' /\ Behind' = BehindIn(queue)'
      /\ Uncounted' = queue'[NotificationSent] + 1 /\ Kept' = row'
  BY <1>1, HeldSumsHold, HeldSumsHoldNext DEF HeldSums
<1>3. /\ AheadIn(queue') = AheadIn(queue) /\ BehindIn(queue') = BehindIn(queue)
      /\ queue'[NotificationSent] = queue[NotificationSent] - 1
  BY QueueSums, FollowedAhead, Weights, NamesAreTypes
<1>4. Ahead' = Ahead /\ Behind' = Behind /\ Uncounted' = Uncounted
      /\ Kept' = Kept
  BY <1>2, <1>3, QueueSums
<1>5. Affordable
  BY <1>4, LedgerType DEF Affordable
<1>6. SavesAreClose' /\ TasksAreOfChain'
  BY <1>1 DEF SavesAreClose, TasksAreOfChain
<1>7. QED
  BY <1>4, <1>5, <1>6, StepStays, LedgerType

\* ... and it is counted after it.
LEMMA CountStays ==
    ASSUME TypeOK, TypeOK', ChainInv, Current.step = "load",
           Current' = IF Exists(row)
                      THEN [step |-> "save", event |-> Current.event,
                            message |-> AddSendAttemptCount(row)]
                      ELSE Idle,
           UNCHANGED <<request, row, queue, pushes, faults>>
    PROVE  ChainInv'
<1>1. Current.event = NotificationSent /\ NotificationSent # SendExpired
  BY DEF ChainInv, TasksAreOfChain, NotificationSent, SendExpired
<1>2. /\ Ahead = QueueAhead /\ Behind = BehindIn(queue)
      /\ Uncounted = queue[NotificationSent] + 1 /\ Kept = row
  BY HeldSumsHold DEF HeldSums
<1>3. QueueAhead' = QueueAhead /\ BehindIn(queue)' = BehindIn(queue)
      /\ queue'[NotificationSent] = queue[NotificationSent]
  BY DEF QueueAhead, AheadIn, BehindIn
<1>4. CASE Exists(row)
  <2>1. /\ Current'.step = "save" /\ Current'.event = NotificationSent
        /\ Current'.message = AddSendAttemptCount(row)
    BY <1>1, <1>4
  <2>2. /\ Ahead' = QueueAhead' /\ Behind' = BehindIn(queue)' + 0
        /\ Uncounted' = queue'[NotificationSent]
        /\ Kept' = AddSendAttemptCount(row)
    BY <1>1, <2>1, HeldSumsHoldNext DEF HeldSums, One
  <2>3. /\ AddSendAttemptCount(row).SendAttemptCount = row.SendAttemptCount + 1
        /\ Exists(AddSendAttemptCount(row))
    BY <1>4 DEF AddSendAttemptCount, Exists, TypeOK, Rows
  <2>4. Ahead' = Ahead /\ Behind' = Behind /\ Uncounted' = Uncounted - 1
        /\ Kept'.SendAttemptCount = Kept.SendAttemptCount + 1
    BY <1>2, <1>3, <2>2, <2>3, QueueSums
  <2>5. Affordable
    BY <1>2, <1>4, <2>4, LedgerType DEF Affordable
  <2>6. SavesAreClose' /\ TasksAreOfChain'
    BY <2>1, <2>3, QueueSums DEF SavesAreClose, TasksAreOfChain, SavedEvents
  <2>7. QED
    BY <2>4, <2>5, <2>6, StepStays, LedgerType
<1>5. CASE ~Exists(row)
  <2>1. Current'.step = "idle"
    BY <1>5, IdleIsNotBusy
  <2>2. /\ Ahead' = QueueAhead' /\ Behind' = BehindIn(queue)' /\ Kept' = row'
    BY <2>1, HeldSumsHoldNext DEF HeldSums
  <2>3. Ahead' = Ahead /\ Behind' = Behind /\ ~Exists(Kept)'
    BY <1>2, <1>3, <1>5, <2>2 DEF Exists
  <2>4. Affordable
    BY <2>3, LedgerType DEF Affordable
  <2>5. SavesAreClose' /\ TasksAreOfChain'
    BY <2>1 DEF SavesAreClose, TasksAreOfChain
  <2>6. QED
    BY <2>3, <2>4, <2>5, StepStays, LedgerType
<1>6. QED
  BY <1>4, <1>5

\* The save.  A retry is granted only while the counter, which knows of every
\* push but the forgiven ones, is below the limit.
LEMMA SaveStays ==
    ASSUME TypeOK, TypeOK', ChainInv, Current.step = "save",
           row' = Current.message,
           Current' = IF Current.event = SendExpired
                           /\ CanBeRescheduled(Current.message)
                      THEN [Current EXCEPT !.step = "dispatch"] ELSE Idle,
           UNCHANGED <<request, queue, pushes, faults>>
    PROVE  ChainInv'
<1> DEFINE e == One(Current.event = SendExpired)
<1>1. /\ Ahead = QueueAhead /\ Behind = BehindIn(queue) + e
      /\ Uncounted = queue[NotificationSent] /\ Kept = Current.message
      /\ e \in {0, 1}
  BY HeldSumsHold DEF HeldSums, One
<1>2. QueueAhead' = QueueAhead /\ BehindIn(queue)' = BehindIn(queue)
      /\ queue'[NotificationSent] = queue[NotificationSent]
  BY DEF QueueAhead, AheadIn, BehindIn
<1>3. CASE Current.event = SendExpired /\ CanBeRescheduled(Current.message)
  <2>1. Current'.step = "dispatch" /\ Current'.event = SendExpired
    <3>1. Current \in Busy
      BY CurrentType, IdleIsNotBusy
    <3>2. QED
      BY <1>3, <3>1 DEF Busy
  <2>2. /\ Ahead' = QueueAhead' + 1 /\ Behind' = BehindIn(queue)'
        /\ Uncounted' = queue'[NotificationSent] /\ Kept' = row'
    BY <2>1, HeldSumsHoldNext DEF HeldSums
  <2>3. e = 1
    BY <1>3 DEF One
  <2> HIDE DEF e
  <2>4. Ahead' = Ahead + 1 /\ Behind' = Behind - 1 /\ Uncounted' = Uncounted
        /\ Kept' = Kept
    BY <1>1, <1>2, <2>2, <2>3, QueueSums
  <2>5. Uncounted <= Behind - 1
    <3>1. queue[NotificationSent] <= BehindIn(queue)
      BY NamesAreTypes DEF TypeOK, BehindIn
    <3>2. QED
      BY <1>1, <2>3, <3>1, QueueSums
  <2>6. Exists(Kept) /\ Kept.SendAttemptCount < MaxSendAttempts
    BY <1>1, <1>3 DEF ChainInv, TasksAreOfChain, CanBeRescheduled
  <2>7. pushes' + Ahead' <= MaxSendAttempts + faults'
    <3>1. pushes + Ahead + Behind
             <= Kept.SendAttemptCount + Uncounted + 1 + faults
      BY <2>6 DEF ChainInv, Balanced
    <3>2. QED
      BY <2>4, <2>5, <2>6, <3>1, LedgerType, MaxSendAttemptsAssumption
  <2>8. Affordable
    BY <2>4, LedgerType DEF Affordable
  <2>9. SavesAreClose' /\ TasksAreOfChain'
    BY <2>1 DEF SavesAreClose, TasksAreOfChain
  <2>10. QED
    BY <2>7, <2>8, <2>9, AffordableStays DEF ChainInv, PushesBounded
<1>4. CASE ~(Current.event = SendExpired /\ CanBeRescheduled(Current.message))
  <2>1. Current'.step = "idle"
    BY <1>4, IdleIsNotBusy
  <2>2. /\ Ahead' = QueueAhead' /\ Behind' = BehindIn(queue)'
        /\ Uncounted' = queue'[NotificationSent] /\ Kept' = row'
    BY <2>1, HeldSumsHoldNext DEF HeldSums
  <2> HIDE DEF e
  <2>3. Ahead' = Ahead /\ Behind' <= Behind /\ Uncounted' = Uncounted
        /\ Kept' = Kept
    BY <1>1, <1>2, <2>2, QueueSums
  <2>4. Affordable
    BY <2>3, LedgerType, LedgerTypeNext DEF Affordable
  <2>5. SavesAreClose' /\ TasksAreOfChain'
    BY <2>1 DEF SavesAreClose, TasksAreOfChain
  <2>6. QED
    BY <2>3, <2>4, <2>5, StepStays, LedgerType
<1>5. QED
  BY <1>3, <1>4

LEMMA RetryStays ==
    ASSUME TypeOK, TypeOK', ChainInv, Current.step = "dispatch",
           queue' = Dispatched(queue, SendRetry), Current' = Idle,
           UNCHANGED <<request, row, pushes, faults>>
    PROVE  ChainInv'
<1>1. Current'.step = "idle"
  BY IdleIsNotBusy
<1>2. /\ Ahead = QueueAhead + 1 /\ Behind = BehindIn(queue)
      /\ Uncounted = queue[NotificationSent] /\ Kept = row
      /\ Ahead' = QueueAhead' /\ Behind' = BehindIn(queue)'
      /\ Uncounted' = queue'[NotificationSent] /\ Kept' = row'
  BY <1>1, HeldSumsHold, HeldSumsHoldNext DEF HeldSums
<1>3. /\ AheadIn(queue') = AheadIn(queue) + 1
      /\ BehindIn(queue') = BehindIn(queue)
      /\ queue'[NotificationSent] = queue[NotificationSent]
  BY QueueSums, DispatchedAhead, Weights, NamesAreTypes
<1>4. Ahead' = Ahead /\ Behind' = Behind /\ Uncounted' = Uncounted
      /\ Kept' = Kept
  BY <1>2, <1>3, QueueSums
<1>5. Affordable
  BY <1>4, LedgerType DEF Affordable
<1>6. SavesAreClose' /\ TasksAreOfChain'
  BY <1>1 DEF SavesAreClose, TasksAreOfChain
<1>7. QED
  BY <1>4, <1>5, <1>6, StepStays, LedgerType

\* A handler that dies takes one attempt, or its event, with it at most.
LEMMA CrashStays ==
    ASSUME TypeOK, TypeOK', ChainInv, Current \in Busy, Current' = Idle,
           queue' = Dispatched(queue, Current.event) \/ UNCHANGED queue,
           faults' = faults + 1, UNCHANGED <<request, row, pushes>>
    PROVE  ChainInv'
<1> USE NamesAreTypes
<1> DEFINE t == Current.event
           s == Current.step
           da == One(t \in AheadTypes)
           db == One(t \in BehindTypes)
           dn == One(t = NotificationSent)
<1>1. Current'.step = "idle" /\ s \in {"load", "save", "dispatch"}
      /\ t \in EventTypes
  BY IdleIsNotBusy DEF Busy
<1>2. /\ Ahead' = QueueAhead' /\ Behind' = BehindIn(queue)'
      /\ Uncounted' = queue'[NotificationSent] /\ Kept' = row'
  BY <1>1, HeldSumsHoldNext DEF HeldSums
<1>3. t \in SavedEvents
  BY <1>1 DEF ChainInv, TasksAreOfChain, SavedEvents
<1>4. da = 0 /\ db \in {0, 1} /\ dn \in {0, 1} /\ db - dn \in {0, 1}
      /\ (t # SendExpired => db = dn)
  BY <1>1, <1>3, Weights DEF SavedEvents, One
<1>5. QueueAhead' = QueueAhead
      /\ \/ BehindIn(queue)' = BehindIn(queue) + db
              /\ queue'[NotificationSent] = queue[NotificationSent] + dn
         \/ BehindIn(queue)' = BehindIn(queue)
              /\ queue'[NotificationSent] = queue[NotificationSent]
  <2>1. CASE queue' = Dispatched(queue, t)
    <3>1. /\ AheadIn(queue') = AheadIn(queue) + da
          /\ BehindIn(queue') = BehindIn(queue) + db
          /\ queue'[NotificationSent] = queue[NotificationSent] + dn
      BY <1>1, <2>1, QueueSums, DispatchedAhead
    <3> HIDE DEF da, db, dn
    <3>2. QED
      BY <1>4, <3>1, QueueSums
  <2>2. CASE UNCHANGED queue
    BY <2>2 DEF QueueAhead, AheadIn, BehindIn
  <2>3. QED
    BY <2>1, <2>2
<1> HIDE DEF da, db, dn
<1>6. Affordable /\ Ahead' <= Ahead
  <2>1. CASE s = "load"
    <3>1. t = NotificationSent
      BY <2>1 DEF ChainInv, TasksAreOfChain
    <3>2. dn = 1 /\ db = 1
      BY <1>4, <3>1 DEF dn, One, SendExpired, NotificationSent
    <3>3. /\ Ahead = QueueAhead /\ Behind = BehindIn(queue)
          /\ Uncounted = queue[NotificationSent] + 1 /\ Kept = row
      BY <2>1, HeldSumsHold DEF HeldSums
    <3>4. /\ Ahead' = Ahead
          /\ \/ Behind' = Behind + 1 /\ Uncounted' = Uncounted
             \/ Behind' = Behind /\ Uncounted' = Uncounted - 1
          /\ Kept' = Kept
      BY <1>2, <1>5, <3>2, <3>3, QueueSums
    <3>5. QED
      BY <3>4, LedgerType DEF Affordable
  <2>2. CASE s = "save"
    <3> DEFINE e == One(t = SendExpired)
    <3>1. /\ Ahead = QueueAhead /\ Behind = BehindIn(queue) + e
          /\ Uncounted = queue[NotificationSent] /\ Kept = Current.message
      BY <2>2, HeldSumsHold DEF HeldSums
    <3>2. e \in {0, 1} /\ (e = 0 => db = dn) /\ (e = 1 => dn = 0)
      BY <1>4 DEF One, dn, SendExpired, NotificationSent
    <3>3. Exists(Kept) /\ (Exists(row) =>
                Kept.SendAttemptCount <= row.SendAttemptCount + 1)
      BY <2>2, <3>1 DEF ChainInv, TasksAreOfChain, SavesAreClose
    <3> HIDE DEF e
    <3>4. /\ Ahead' = Ahead
          /\ Behind' + Uncounted <= Behind + Uncounted' + 1
          /\ Behind' <= Behind + 1
          /\ Kept' = row /\ (Exists(Kept)' => Exists(row))
      <4>1. Exists(Kept)' => Exists(row)
        BY <1>2 DEF Exists
      <4>2. QED
        BY <1>2, <1>4, <1>5, <3>1, <3>2, <4>1, QueueSums
    <3>5. Behind' + Uncounted <= Behind + Uncounted'
      BY <1>2, <1>4, <1>5, <3>1, <3>2, QueueSums
    <3>6. ASSUME Exists(Kept)'
          PROVE  (pushes' + Ahead' + Behind')
                    + (Kept.SendAttemptCount + Uncounted + faults)
                 <= (pushes + Ahead + Behind)
                    + (Kept'.SendAttemptCount + Uncounted' + faults')
      <4>1. Kept.SendAttemptCount <= Kept'.SendAttemptCount + 1
        BY <3>3, <3>4, <3>6
      <4>2. QED
        BY <3>4, <3>5, <4>1, LedgerType, LedgerTypeNext
    <3>7. Ahead' + Behind' + faults <= Ahead + Behind + faults' /\ Ahead' <= Ahead
      BY <3>4, LedgerType, LedgerTypeNext
    <3>8. QED
      BY <3>3, <3>6, <3>7 DEF Affordable
  <2>3. CASE s = "dispatch"
    <3>1. t = SendExpired
      BY <2>3 DEF ChainInv, TasksAreOfChain
    <3>2. dn = 0
      BY <3>1 DEF dn, One, SendExpired, NotificationSent
    <3>3. /\ Ahead = QueueAhead + 1 /\ Behind = BehindIn(queue)
          /\ Uncounted = queue[NotificationSent] /\ Kept = row
      BY <2>3, HeldSumsHold DEF HeldSums
    <3>4. /\ Ahead' = Ahead - 1 /\ Behind' <= Behind + 1
          /\ Uncounted' = Uncounted /\ Kept' = Kept
      BY <1>2, <1>4, <1>5, <3>2, <3>3, QueueSums
    <3>5. QED
      BY <3>4, LedgerType, LedgerTypeNext DEF Affordable
  <2>4. QED
    BY <1>1, <2>1, <2>2, <2>3
<1>7. SavesAreClose' /\ TasksAreOfChain'
  BY <1>1 DEF SavesAreClose, TasksAreOfChain
<1>8. QED
  BY <1>6, <1>7, StepStays, LedgerType, LedgerTypeNext

LEMMA WorkerStays ==
    ASSUME TypeOK, TypeOK', OneAtATime, OneAtATime', ChainInv,
           NEW w \in Workers, HandlerNext(w)
    PROVE  ChainInv'
<1>1. row \in Rows /\ Statuses \subseteq Statuses
  BY DEF TypeOK
<1>2. /\ {PhoneSending, PhoneSent, SendFailed, PhoneDelivered,
          NotificationScheduledEvent, SendExpired}
            \subseteq SavedEvents \ {NotificationSent}
      /\ {"sending"} \in SUBSET Statuses
      /\ {"sending", "expired", "scheduled"} \in SUBSET Statuses
      /\ Statuses \ {"delivered"} \in SUBSET Statuses
      /\ {"sent", "sending", "expired", "scheduled"} \in SUBSET Statuses
      /\ Statuses \in SUBSET Statuses
      /\ {"sending", "scheduled", "pending"} \in SUBSET Statuses
  BY DEF Statuses, SavedEvents, PhoneSending, PhoneSent, SendFailed,
         PhoneDelivered, NotificationScheduledEvent, SendExpired,
         NotificationSent
<1>3. \A m \in {AddSendAttempt(row), Sent(row), Failed(row), Delivered(row),
                Expired(row)} :
          m \in Rows /\ Exists(m) /\ m.SendAttemptCount = row.SendAttemptCount
  BY <1>1 DEF AddSendAttempt, Sent, Failed, Delivered, Expired, Rows, Statuses,
              Exists
<1>4. NotificationScheduled(row) \in Rows
      /\ NotificationScheduled(row).SendAttemptCount = row.SendAttemptCount
      /\ (row.status \in Statuses => Exists(NotificationScheduled(row)))
  BY <1>1 DEF NotificationScheduled, Rows, Statuses, Exists
<1>5. CASE Loads(PhoneSending, {"sending"}, AddSendAttempt(row))
  BY <1>2, <1>3, <1>5, LoadStays
<1>6. CASE Loads(PhoneSent, {"sending", "expired", "scheduled"}, Sent(row))
  BY <1>2, <1>3, <1>6, LoadStays
<1>7. CASE Loads(SendFailed, Statuses \ {"delivered"}, Failed(row))
  BY <1>2, <1>3, <1>7, LoadStays
<1>8. CASE Loads(PhoneDelivered, {"sent", "sending", "expired", "scheduled"},
                 Delivered(row))
  BY <1>2, <1>3, <1>8, LoadStays
<1>9. CASE Loads(SendExpired, {"sending", "scheduled", "pending"}, Expired(row))
  BY <1>2, <1>3, <1>9, LoadStays
<1>10. CASE Loads(NotificationScheduledEvent, Statuses,
                  NotificationScheduled(row))
  <2>1. CASE row.status \in Statuses
    BY <1>2, <1>4, <1>10, <2>1, LoadStays
  <2>2. CASE row.status \notin Statuses
    <3>1. Loads(NotificationScheduledEvent, Statuses, Sent(row))
      BY <1>10, <2>2 DEF Loads
    <3>2. QED
      BY <1>2, <1>3, <3>1, LoadStays
  <2>3. QED
    BY <2>1, <2>2
<1>11. QED
  BY <1>5, <1>6, <1>7, <1>8, <1>9, <1>10, WorkerForm, CheckScheduleStays,
     CountStays, SaveStays, RetryStays DEF history

\* The first step: the message is stored.
LEMMA StoreStays ==
    ASSUME TypeOK, TypeOK', ChainInv, NothingBegan, StoreSentMessage
    PROVE  ChainInv'
<1>1. /\ Current = Idle /\ Current' = Idle /\ pushes = 0 /\ pushes' = 0
      /\ row = NoRow /\ row' = NewMessage /\ faults' = faults
      /\ queue' = queue /\ request = "new" /\ request' = "stored"
  BY CurrentStays DEF StoreSentMessage, NothingBegan, history
<1>2. Current.step = "idle" /\ Current'.step = "idle"
  BY <1>1, IdleIsNotBusy
<1>3. /\ AheadIn(queue)' = 0 /\ BehindIn(queue)' = 0
      /\ queue'[NotificationSent] = 0
  BY <1>1, NamesAreTypes DEF NothingBegan, AheadIn, BehindIn
<1>4. Ahead' = 1 /\ Behind' = 0 /\ Uncounted' = 0 /\ Kept' = NewMessage
  BY <1>1, <1>2, <1>3, HeldSumsHoldNext DEF HeldSums, QueueAhead, One
<1>5. NewMessage.SendAttemptCount = 0 /\ faults \in Nat
  BY DEF NewMessage, TypeOK
<1>6. TokensBounded' /\ Balanced' /\ PushesBounded'
  BY <1>1, <1>4, <1>5, MaxSendAttemptsAssumption
     DEF TokensBounded, Balanced, PushesBounded
<1>7. SavesAreClose' /\ TasksAreOfChain'
  BY <1>2 DEF SavesAreClose, TasksAreOfChain
<1>8. QED
  BY <1>6, <1>7 DEF ChainInv

LEMMA ChainInvStays ==
    ASSUME TypeOK, TypeOK', OneAtATime, OneAtATime', NothingBegan, ChainInv,
           [Next]_vars
    PROVE  ChainInv'
<1>1. CASE \E w \in Workers : HandlerNext(w)
  BY <1>1, WorkerStays
<1>2. CASE \E w \in Workers : Crash(w)
  BY <1>2, CrashForm, CrashStays DEF Fault, history
<1>3. CASE StoreSentMessage
  BY <1>3, StoreStays
<1>4. CASE \/ NotificationNext \/ ScheduleUnannounced
           \/ SendNotificationFailsLate \/ DispatchAPISent
           \/ DispatchAPISentFails \/ DeleteMessage \/ CheckExpired
           \/ LosePush \/ PhoneNext \/ GetOutstandingLost \/ PostEventFails
           \/ PhoneForgets \/ Duplicate \/ Lose \/ UNCHANGED vars
  <2>1. Paid
    BY <1>4, NotificationsPay, TheRestPays
  <2>2. UNCHANGED handler
    BY <1>4 DEF DispatchAPISent, DeleteMessage, NotificationNext, Schedule,
       SendNotification, SendNotificationFails, OnMessageNotificationFailed,
       CheckExpired, LosePush, PhoneNext, GetOutstanding, Transmit,
       TransmitFails, PostEvent, DispatchAPISentFails, ScheduleUnannounced,
       SendNotificationFailsLate, GetOutstandingLost, PostEventFails,
       PhoneForgets, Duplicate, Lose, vars
  <2>3. \/ UNCHANGED row
        \/ row.status \in Outstanding /\ row' = [row EXCEPT !.status = "sending"]
        \/ row' = NoRow
    BY <1>4 DEF DispatchAPISent, DeleteMessage, NotificationNext, Schedule,
       SendNotification, SendNotificationFails, OnMessageNotificationFailed,
       CheckExpired, LosePush, PhoneNext, GetOutstanding, Transmit,
       TransmitFails, PostEvent, DispatchAPISentFails, ScheduleUnannounced,
       SendNotificationFailsLate, GetOutstandingLost, PostEventFails,
       PhoneForgets, Duplicate, Lose, vars
  <2>4. QED
    BY <2>1, <2>2, <2>3, CurrentStays, OtherStepStays
<1>5. QED
  BY <1>1, <1>2, <1>3, <1>4 DEF Next, FaultNext

\* A copy is made of a push that was not lost.
CopiesArePushed == sms + inbox + push <= pushes

LEMMA CopiesArePushedStays ==
    ASSUME TypeOK, CopiesArePushed, [Next]_vars
    PROVE  CopiesArePushed'
<1> USE DEF CopiesArePushed, TypeOK
<1>1. CASE UNCHANGED <<sms, inbox, push, pushes>>
  BY <1>1
<1>2. CASE SendNotification \/ SendNotificationFailsLate
  BY <1>2 DEF SendNotification, SendNotificationFailsLate, phone
<1>3. CASE LosePush \/ GetOutstanding \/ GetOutstandingLost
  BY <1>3 DEF LosePush, GetOutstanding, GetOutstandingLost, phone, history
<1>4. CASE Transmit \/ TransmitFails \/ PhoneForgets
  BY <1>4 DEF Transmit, TransmitFails, PhoneForgets
<1>5. QED
  BY <1>1, <1>2, <1>3, <1>4
     DEF Next, StoreSentMessage, DispatchAPISent, DeleteMessage, NotificationNext,
         Schedule, SendNotificationFails, OnMessageNotificationFailed,
         CheckExpired, PhoneNext, PostEvent, FaultNext,
         DispatchAPISentFails, ScheduleUnannounced, PostEventFails,
         Duplicate, Lose, Crash, vars, history, phone,
         HandlerNext, HandleMessageSending, HandleMessageSent,
         HandleMessageFailed, HandleMessageDelivered,
         HandleMessageNotificationScheduled, HandleMessageExpired,
         Handle, ScheduleExpirationCheck, HandleMessageNotificationSent,
         Update, DispatchSendRetry

LEMMA InitIsLedger == Init => ChainInv /\ NothingBegan /\ CopiesArePushed
<1> SUFFICES ASSUME Init PROVE ChainInv /\ NothingBegan /\ CopiesArePushed
  OBVIOUS
<1>1. TypeOK /\ Current = Idle
  BY InitIsTyped DEF Init, Current
<1>2. Current.step = "idle"
  BY <1>1, IdleIsNotBusy
<1>3. /\ AheadIn(queue) = 0 /\ BehindIn(queue) = 0
      /\ queue[NotificationSent] = 0
  BY NamesAreTypes DEF Init, AheadIn, BehindIn
<1>4. Ahead = 1 /\ Behind = 0 /\ Uncounted = 0 /\ Kept = row
  BY <1>1, <1>2, <1>3, HeldSumsHold DEF HeldSums, QueueAhead, One, Init
<1>5. ~Exists(row) /\ pushes = 0 /\ faults = 0
  BY DEF Init, Exists, NoRow
<1>6. ChainInv
  BY <1>2, <1>4, <1>5, MaxSendAttemptsAssumption
     DEF ChainInv, TokensBounded, Balanced, SavesAreClose, PushesBounded,
         TasksAreOfChain
<1>7. QED
  BY <1>1, <1>6 DEF NothingBegan, Init, CopiesArePushed

\* The recipient gets MaxSendAttempts copies at most, and one more for each
\* thing that went wrong: retries are paid for by counted attempts, whatever is
\* lost, repeated or dies half-way, as long as the handlers do not overlap.
THEOREM CopiesBounded == Spec /\ []OneAtATime => []CopiesAreBounded
<1> DEFINE I == TypeOK /\ NothingBegan /\ ChainInv /\ CopiesArePushed
<1>1. Init /\ OneAtATime => I
  BY InitIsTyped, InitIsLedger
<1>2. I /\ OneAtATime /\ OneAtATime' /\ [Next]_vars => I'
  BY TypeOKIsInductive, NothingBeganStays, ChainInvStays, CopiesArePushedStays
<1>3. I => CopiesAreBounded
  BY LedgerType, MaxSendAttemptsAssumption
     DEF CopiesArePushed, ChainInv, PushesBounded, CopiesAreBounded, TypeOK
<1>4. QED
  BY <1>1, <1>2, <1>3, PTL DEF Spec

----------------------------------------------------------------------------
(* No message is stranded, and an expiry is announced.                      *)
(* As long as nothing goes wrong and nobody deletes the message.            *)

Healthy == faults = 0 /\ "deleted" \notin milestones

\* Something that goes on to a push, to the check after it, or to an outcome.
MovingTypes == AheadTypes \cup BehindTypes \cup {NotificationFailed, SendFailed}

Moving ==
    \/ request # "done"
    \/ \E t \in MovingTypes : queue[t] > 0
    \/ Current.step = "dispatch"
    \/ Current.step = "save" /\ Current.event \in {SendExpired, SendFailed}

\* The message waits for the phone, or will when its scheduling is announced.
Awaits(message) ==
    \/ message.status \in {"pending", "scheduled"}
    \/ message.status = "expired" /\ queue[NotificationScheduledEvent] > 0

Retrying == queue[SendExpired] > 0 \/ Expiring \/ Current.step = "dispatch"

\* A handler has a row in hand that it will not settle.
Counting ==
    \/ Current.step = "load"
    \/ /\ Current.step = "save"
       /\ Current.event \in {NotificationScheduledEvent, NotificationSent}

\* A push is due, or has been made and is not checked yet.
Staged == queue[NotificationSend] > 0 \/ queue[NotificationSent] > 0
            \/ queue[SendExpiredCheck] > 0

\* What a handler is about to save has the status its event stands for.
SavedStatus ==
    Current.step = "save" =>
        /\ Current.event = PhoneSending => Current.message.status = "sending"
        /\ Current.event = PhoneSent => Current.message.status = "sent"
        /\ Current.event = PhoneDelivered => Current.message.status = "delivered"
        /\ Current.event = SendFailed => Current.message.status = "failed"
        /\ Current.event = SendExpired => Current.message.status = "expired"

Strand ==
    /\ request # "new" => Exists(row)
    /\ Awaits(row) \/ Awaits(Kept) => Moving
    /\ Retrying => queue[NotificationScheduledEvent] = 0
    /\ queue[SendExpired] > 0 => ~Counting

Announce ==
    /\ Staged /\ Kept.status = "expired" =>
          queue[NotificationScheduledEvent] > 0
    /\ queue[SendExpired] > 0 => Kept.status # "expired"
    /\ (queue[SendExpired] > 0 \/ Expiring)
          /\ Kept.SendAttemptCount >= MaxSendAttempts => "final" \in milestones
    /\ Kept.status = "expired" => "final" \in milestones \/ Moving

SettleInv == Healthy => Strand /\ Announce

\* Without faults there is one token.
LEMMA OneToken ==
    ASSUME TypeOK, ChainInv, Healthy
    PROVE  /\ \A t, u \in AheadTypes \cup BehindTypes :
                  queue[t] > 0 /\ t # u => queue[u] = 0
           /\ \A t \in AheadTypes \cup BehindTypes :
                  queue[t] > 0 => /\ queue[t] = 1 /\ request = "done"
                                  /\ Current.step # "dispatch" /\ ~Expiring
           /\ Expiring \/ Current.step = "dispatch" =>
                  /\ request = "done"
                  /\ \A t \in AheadTypes \cup BehindTypes : queue[t] = 0
<1>1. /\ queue[APISent] \in Nat /\ queue[SendRetry] \in Nat
      /\ queue[NotificationSend] \in Nat /\ queue[NotificationSent] \in Nat
      /\ queue[SendExpiredCheck] \in Nat /\ queue[SendExpired] \in Nat
  BY NamesAreTypes DEF TypeOK
<1>2. /\ One(request # "done") + (queue[APISent] + queue[SendRetry]
            + queue[NotificationSend]) + One(Current.step = "dispatch")
         + (queue[NotificationSent] + queue[SendExpiredCheck]
            + queue[SendExpired] + One(Expiring)) <= 1
  BY <1>1 DEF ChainInv, TokensBounded, Ahead, Behind, AheadIn, BehindIn, Healthy,
              One
<1> DEFINE asked == One(request # "done")
           held == One(Current.step = "dispatch")
           expiring == One(Expiring)
<1>3. /\ asked \in {0, 1} /\ held \in {0, 1} /\ expiring \in {0, 1}
      /\ request # "done" => asked = 1
      /\ Current.step = "dispatch" => held = 1
      /\ Expiring => expiring = 1
  BY DEF One
<1>4. asked + (queue[APISent] + queue[SendRetry] + queue[NotificationSend]) + held
        + (queue[NotificationSent] + queue[SendExpiredCheck]
           + queue[SendExpired] + expiring) <= 1
  BY <1>2
<1> HIDE DEF asked, held, expiring
<1> DEFINE a == queue[APISent]            b == queue[SendRetry]
           c == queue[NotificationSend]   d == queue[NotificationSent]
           e == queue[SendExpiredCheck]   f == queue[SendExpired]
<1>5. /\ a \in Nat /\ b \in Nat /\ c \in Nat /\ d \in Nat /\ e \in Nat /\ f \in Nat
      /\ asked + (a + b + c) + held + (d + e + f + expiring) <= 1
      /\ \A t \in AheadTypes \cup BehindTypes :
            \/ t = APISent /\ queue[t] = a
            \/ t = SendRetry /\ queue[t] = b
            \/ t = NotificationSend /\ queue[t] = c
            \/ t = NotificationSent /\ queue[t] = d
            \/ t = SendExpiredCheck /\ queue[t] = e
            \/ t = SendExpired /\ queue[t] = f
  BY <1>1, <1>4 DEF AheadTypes, BehindTypes
<1> HIDE DEF a, b, c, d, e, f
<1>6. /\ asked + held + expiring >= 1 => a = 0 /\ b = 0 /\ c = 0 /\ d = 0 /\ e = 0 /\ f = 0
      /\ asked + held + expiring <= 1
      /\ a >= 1 => a = 1 /\ b = 0 /\ c = 0 /\ d = 0 /\ e = 0 /\ f = 0
      /\ b >= 1 => b = 1 /\ a = 0 /\ c = 0 /\ d = 0 /\ e = 0 /\ f = 0
      /\ c >= 1 => c = 1 /\ a = 0 /\ b = 0 /\ d = 0 /\ e = 0 /\ f = 0
      /\ d >= 1 => d = 1 /\ a = 0 /\ b = 0 /\ c = 0 /\ e = 0 /\ f = 0
      /\ e >= 1 => e = 1 /\ a = 0 /\ b = 0 /\ c = 0 /\ d = 0 /\ f = 0
      /\ f >= 1 => f = 1 /\ a = 0 /\ b = 0 /\ c = 0 /\ d = 0 /\ e = 0
  BY <1>3, <1>5
<1>7. /\ asked >= 1 => held = 0 /\ expiring = 0
      /\ held >= 1 => asked = 0
      /\ expiring >= 1 => asked = 0
      /\ a + b + c + d + e + f >= 1 => asked = 0 /\ held = 0 /\ expiring = 0
  BY <1>3, <1>5
<1>8. ASSUME NEW t \in AheadTypes \cup BehindTypes, queue[t] > 0
      PROVE  /\ queue[t] = 1 /\ asked = 0 /\ held = 0 /\ expiring = 0
             /\ \A u \in AheadTypes \cup BehindTypes : t # u => queue[u] = 0
  BY <1>5, <1>6, <1>7, <1>8
<1>9. ASSUME held = 1 \/ expiring = 1
      PROVE  /\ asked = 0
             /\ \A t \in AheadTypes \cup BehindTypes : queue[t] = 0
  BY <1>3, <1>5, <1>6, <1>7, <1>9
<1>10. QED
  BY <1>3, <1>8, <1>9

LEMMA SavedStatusStays ==
    ASSUME TypeOK, OneAtATime, OneAtATime', ChainInv, SavedStatus, [Next]_vars
    PROVE  SavedStatus'
<1>1. CASE \E w \in Workers : HandlerNext(w)
  <2>1. row \in Rows
    BY DEF TypeOK
  <2>2. /\ AddSendAttempt(row).status = "sending" /\ Sent(row).status = "sent"
        /\ Failed(row).status = "failed" /\ Delivered(row).status = "delivered"
        /\ Expired(row).status = "expired"
    BY <2>1 DEF AddSendAttempt, Sent, Failed, Delivered, Expired, Rows
  <2>3. CASE Current.step = "save"
               /\ Current' = IF Current.event = SendExpired
                                  /\ CanBeRescheduled(Current.message)
                             THEN [Current EXCEPT !.step = "dispatch"] ELSE Idle
    <3>1. Current \in Busy
      BY <2>3, CurrentType, IdleIsNotBusy
    <3>2. Current'.step # "save"
      BY <2>3, <3>1, IdleIsNotBusy DEF Busy
    <3>3. QED
      BY <3>2 DEF SavedStatus
  <2>4. CASE Current.step = "load"
               /\ Current' = IF Exists(row)
                             THEN [step |-> "save", event |-> Current.event,
                                   message |-> AddSendAttemptCount(row)]
                             ELSE Idle
    <3>1. Current.event = NotificationSent
      BY <2>4 DEF ChainInv, TasksAreOfChain
    <3>2. QED
      BY <2>4, <3>1, IdleIsNotBusy
         DEF SavedStatus, APISent, SendRetry, NotificationSend, NotificationSent, SendExpiredCheck,
         SendExpired, NotificationScheduledEvent, NotificationFailed, SendFailed,
         PhoneSending, PhoneSent, PhoneDelivered
  <2>5. CASE Current' = Idle \/ Current' = [step |-> "load",
                 event |-> NotificationSent, message |-> NoRow]
    BY <2>5, IdleIsNotBusy DEF SavedStatus
  <2>6. ASSUME NEW t, NEW expected, NEW m, Loads(t, expected, m),
               /\ t = PhoneSending => m.status = "sending"
               /\ t = PhoneSent => m.status = "sent"
               /\ t = PhoneDelivered => m.status = "delivered"
               /\ t = SendFailed => m.status = "failed"
               /\ t = SendExpired => m.status = "expired"
        PROVE  SavedStatus'
    BY <2>6 DEF Loads, SavedStatus
  <2>7. QED
    BY <1>1, <2>2, <2>3, <2>4, <2>5, <2>6, WorkerForm
       DEF APISent, SendRetry, NotificationSend, NotificationSent, SendExpiredCheck,
         SendExpired, NotificationScheduledEvent, NotificationFailed, SendFailed,
         PhoneSending, PhoneSent, PhoneDelivered
<1>2. CASE \E w \in Workers : Crash(w)
  BY <1>2, CrashForm, IdleIsNotBusy DEF SavedStatus
<1>3. CASE UNCHANGED handler
  BY <1>3, CurrentStays DEF SavedStatus
<1>4. QED
  BY <1>1, <1>2, <1>3 DEF Next, StoreSentMessage, DispatchAPISent, DeleteMessage,
         NotificationNext, Schedule, SendNotification, SendNotificationFails,
         OnMessageNotificationFailed, CheckExpired, LosePush, PhoneNext,
         GetOutstanding, Transmit, TransmitFails, PostEvent, FaultNext,
         DispatchAPISentFails, ScheduleUnannounced, SendNotificationFailsLate,
         GetOutstandingLost, PostEventFails, PhoneForgets, Duplicate, Lose, vars

\* A step that leaves the row and the task in hand alone, and moves events on.
LEMMA MoveSettles ==
    ASSUME TypeOK, TypeOK', Strand, Announce, UNCHANGED <<row, Current>>,
           request # "new", milestones \subseteq milestones', Moving => Moving',
           queue'[SendExpired] > 0 => queue[SendExpired] > 0,
           Staged' => Staged \/ queue'[NotificationScheduledEvent] > 0,
           \/ queue'[NotificationScheduledEvent]
                = queue[NotificationScheduledEvent]
           \/ /\ queue[NotificationScheduledEvent] >= 0
              /\ queue'[NotificationScheduledEvent]
                   = queue[NotificationScheduledEvent] + 1
              /\ ~Retrying /\ Moving'
    PROVE  Strand' /\ Announce'
<1>1. UNCHANGED <<Kept, Expiring, Counting>>
  BY DEF Kept, Expiring, Counting
<1>2. queue[NotificationScheduledEvent] \in Nat
      /\ queue'[NotificationScheduledEvent] \in Nat
  BY NamesAreTypes DEF TypeOK
<1>3. /\ Awaits(row)' => Awaits(row) \/ Moving'
      /\ Awaits(Kept)' => Awaits(Kept) \/ Moving'
  BY <1>1, <1>2 DEF Awaits
<1>4. Retrying' => Retrying
  BY <1>1 DEF Retrying
<1>5. Strand'
  BY <1>1, <1>2, <1>3, <1>4 DEF Strand, Exists
<1>6. Announce'
  BY <1>1, <1>2 DEF Announce
<1>7. QED
  BY <1>5, <1>6

LEMMA NotificationsSettle ==
    ASSUME TypeOK, TypeOK', ChainInv, NothingBegan, Healthy, Strand, Announce,
           NotificationNext
    PROVE  Strand' /\ Announce'
<1> USE NamesAreTypes
<1>1. queue \in [EventTypes -> Nat] /\ milestones \in SUBSET Milestones
  BY DEF TypeOK
<1>2. UNCHANGED <<request, row, handler>> /\ milestones \subseteq milestones'
  BY DEF NotificationNext, Schedule, SendNotification, SendNotificationFails,
         OnMessageNotificationFailed, history
<1>3. UNCHANGED Current
  BY <1>2, CurrentStays
<1>4. request # "new"
  BY DEF NothingBegan, NotificationNext, Schedule, SendNotification,
         SendNotificationFails, OnMessageNotificationFailed, Waiting
<1>5. CASE Schedule
  <2>1. PICK t \in {APISent, SendRetry} :
            queue[t] > 0 /\ queue' = Dispatched(Dispatched(Handled(queue, t),
                        NotificationScheduledEvent), NotificationSend)
    BY <1>5 DEF Schedule, Waiting
  <2> DEFINE p == Handled(queue, t)
             q == Dispatched(p, NotificationScheduledEvent)
  <2>2. /\ p \in [EventTypes -> Nat]
        /\ \A u \in EventTypes : p[u] = IF u = t THEN queue[u] - 1 ELSE queue[u]
    BY <1>1, <2>1, HandledCounts
  <2>3. queue' = Dispatched(q, NotificationSend)
    BY <2>1
  <2> HIDE DEF p
  <2>4. /\ q \in [EventTypes -> Nat]
        /\ \A u \in EventTypes : q[u] = IF u = NotificationScheduledEvent
                                        THEN p[u] + 1 ELSE p[u]
    BY <2>2, DispatchedCounts
  <2> HIDE DEF q
  <2>5. \A u \in EventTypes : queue'[u] = IF u = NotificationSend
                                          THEN q[u] + 1 ELSE q[u]
    BY <2>3, <2>4, DispatchedCounts
  <2>6. /\ queue'[NotificationScheduledEvent]
             = queue[NotificationScheduledEvent] + 1
        /\ queue'[NotificationSend] > 0 /\ queue'[SendExpired] = queue[SendExpired]
        /\ queue[NotificationScheduledEvent] >= 0
        /\ queue'[NotificationScheduledEvent] > 0
    BY <1>1, <2>1, <2>2, <2>4, <2>5 DEF APISent, SendRetry, NotificationSend, NotificationSent, SendExpiredCheck,
         SendExpired, NotificationScheduledEvent, NotificationFailed, SendFailed,
         PhoneSending, PhoneSent, PhoneDelivered
  <2>7. ~Retrying
    <3>1. t \in AheadTypes /\ SendExpired \in AheadTypes \cup BehindTypes
          /\ t # SendExpired
      BY DEF AheadTypes, BehindTypes, APISent, SendRetry, SendExpired
    <3>2. queue[SendExpired] = 0 /\ Current.step # "dispatch" /\ ~Expiring
      BY <2>1, <3>1, OneToken
    <3>3. QED
      BY <3>2 DEF Retrying
  <2>8. Moving'
    BY <2>6 DEF Moving, MovingTypes, AheadTypes
  <2>9. QED
    BY <1>2, <1>3, <1>4, <2>6, <2>7, <2>8, MoveSettles
<1>6. ASSUME NEW t \in {NotificationSend, NotificationFailed},
             NEW n \in {NotificationSent, NotificationFailed, SendFailed},
             queue[t] > 0, queue' = Dispatched(Handled(queue, t), n),
             n = NotificationSent => t = NotificationSend
      PROVE  Strand' /\ Announce'
  <2> DEFINE p == Handled(queue, t)
  <2>1. /\ p \in [EventTypes -> Nat]
        /\ \A u \in EventTypes : p[u] = IF u = t THEN queue[u] - 1 ELSE queue[u]
    BY <1>1, <1>6, HandledCounts
  <2>2. queue' = Dispatched(p, n) /\ n \in EventTypes
    BY <1>6
  <2> HIDE DEF p
  <2>3. \A u \in EventTypes : queue'[u] = IF u = n THEN p[u] + 1 ELSE p[u]
    BY <2>1, <2>2, DispatchedCounts
  <2>4. /\ queue'[NotificationScheduledEvent] = queue[NotificationScheduledEvent]
        /\ queue'[SendExpired] = queue[SendExpired]
        /\ queue'[n] > 0
    BY <1>1, <1>6, <2>1, <2>3 DEF APISent, SendRetry, NotificationSend, NotificationSent, SendExpiredCheck,
         SendExpired, NotificationScheduledEvent, NotificationFailed, SendFailed,
         PhoneSending, PhoneSent, PhoneDelivered
  <2>5. Staged' => Staged
    BY <1>1, <1>6, <2>1, <2>3 DEF Staged, APISent, SendRetry, NotificationSend, NotificationSent, SendExpiredCheck,
         SendExpired, NotificationScheduledEvent, NotificationFailed, SendFailed,
         PhoneSending, PhoneSent, PhoneDelivered
  <2>6. Moving'
    BY <2>4 DEF Moving, MovingTypes, BehindTypes
  <2>7. QED
    BY <1>2, <1>3, <1>4, <2>4, <2>5, <2>6, MoveSettles
<1>7. CASE SendNotification \/ SendNotificationFails
  BY <1>6, <1>7 DEF SendNotification, SendNotificationFails, Waiting
<1>8. CASE OnMessageNotificationFailed
  <2>1. Exists(row)
    BY <1>4 DEF Strand
  <2>2. QED
    BY <1>6, <1>8, <2>1, NamesAreTypes
       DEF OnMessageNotificationFailed, Waiting, NotificationSent, SendFailed
<1>9. QED
  BY <1>5, <1>7, <1>8 DEF NotificationNext

\* What the phone posts is no part of the chain.
LEMMA PostsSettle ==
    ASSUME TypeOK, TypeOK', Strand, Announce, UNCHANGED <<row, Current>>,
           request # "new", milestones \subseteq milestones',
           \/ UNCHANGED queue /\ UNCHANGED request
           \/ \E n \in {APISent, PhoneSending, PhoneSent, PhoneDelivered,
                        SendFailed} :
                 /\ queue' = Dispatched(queue, n)
                 /\ UNCHANGED request \/ n = APISent
    PROVE  Strand' /\ Announce'
<1> USE NamesAreTypes
<1>1. queue \in [EventTypes -> Nat]
  BY DEF TypeOK
<1>2. CASE UNCHANGED queue /\ UNCHANGED request
  <2>1. (Moving => Moving') /\ (Staged' => Staged)
    BY <1>2 DEF Moving, Staged
  <2>2. QED
    BY <1>2, <2>1, MoveSettles
<1>3. ASSUME NEW n \in {APISent, PhoneSending, PhoneSent, PhoneDelivered,
                        SendFailed},
             queue' = Dispatched(queue, n), UNCHANGED request \/ n = APISent
      PROVE  Strand' /\ Announce'
  <2>1. \A u \in EventTypes : queue'[u] = IF u = n THEN queue[u] + 1 ELSE queue[u]
    BY <1>1, <1>3, DispatchedCounts
  <2>2. /\ queue'[NotificationScheduledEvent] = queue[NotificationScheduledEvent]
        /\ queue'[SendExpired] = queue[SendExpired]
    BY <1>1, <2>1 DEF APISent, SendRetry, NotificationSend, NotificationSent, SendExpiredCheck,
         SendExpired, NotificationScheduledEvent, NotificationFailed, SendFailed,
         PhoneSending, PhoneSent, PhoneDelivered
  <2>3. Staged' => Staged
    BY <1>1, <2>1 DEF Staged, APISent, SendRetry, NotificationSend, NotificationSent, SendExpiredCheck,
         SendExpired, NotificationScheduledEvent, NotificationFailed, SendFailed,
         PhoneSending, PhoneSent, PhoneDelivered
  <2>4. Moving => Moving'
    <3>1. n \in EventTypes /\ MovingTypes \subseteq EventTypes
      BY DEF MovingTypes, AheadTypes, BehindTypes
    <3>2. \A u \in MovingTypes : queue[u] > 0 => queue'[u] > 0
      BY <1>1, <2>1, <3>1
    <3>3. n = APISent => \E u \in MovingTypes : queue'[u] > 0
      <4>1. APISent \in MovingTypes
        BY DEF MovingTypes, AheadTypes
      <4>2. queue[APISent] \in Nat
        BY <1>1
      <4>3. QED
        BY <2>1, <4>1, <4>2
    <3>4. QED
      BY <1>3, <3>2, <3>3 DEF Moving
  <2>5. QED
    BY <2>2, <2>3, <2>4, MoveSettles
<1>4. QED
  BY <1>2, <1>3

\* The check comes when the message is at rest: it finds the status settled, or
\* hands the token on.
LEMMA CheckSettles ==
    ASSUME TypeOK, TypeOK', ChainInv, NothingBegan, Healthy, Strand, Announce,
           AttemptsArePushed, SlowTimers = TRUE, CheckExpired
    PROVE  Strand' /\ Announce'
<1> USE NamesAreTypes
<1>1. /\ queue \in [EventTypes -> Nat] /\ queue[SendExpiredCheck] > 0
      /\ \A u \in EventTypes \ {SendExpiredCheck} : queue[u] = 0
      /\ Current = Idle
  BY DEF TypeOK, CheckExpired, Waiting, CheckIsDue, Current
<1>2. UNCHANGED <<request, row, Current>>
  BY CurrentStays DEF CheckExpired
<1>3. Current.step = "idle" /\ Current'.step = "idle"
      /\ Kept = row /\ Kept' = row /\ ~Expiring /\ ~Expiring'
  BY <1>1, <1>2, IdleIsNotBusy DEF Kept, Expiring
<1>4. request # "new" /\ Exists(row)
  BY <1>1 DEF NothingBegan, Strand
<1>5. queue[NotificationScheduledEvent] = 0
  BY <1>1 DEF NotificationScheduledEvent, SendExpiredCheck
<1>6. row.status # "expired"
  BY <1>1, <1>3, <1>5 DEF Announce, Staged
<1> DEFINE rest == Handled(queue, SendExpiredCheck)
<1>7. /\ rest \in [EventTypes -> Nat]
      /\ \A u \in EventTypes : rest[u] = IF u = SendExpiredCheck
                                         THEN queue[u] - 1 ELSE queue[u]
  BY <1>1, HandledCounts
<1>8. CheckExpired
         => \/ CountsAsSent(row) /\ queue' = Dispatched(rest, PhoneSent)
            \/ /\ row.status \in {"pending", "scheduled"}
               /\ queue' = Dispatched(rest, SendExpired)
               /\ milestones' = IF IsFinal(row)
                                THEN milestones \cup {"final"} ELSE milestones
            \/ /\ row.status \notin {"pending", "scheduled", "sending"}
               /\ queue' = rest
  BY DEF CheckExpired
<1> HIDE DEF rest
<1>9. CASE CountsAsSent(row) /\ queue' = Dispatched(rest, PhoneSent)
  <2>1. \A u \in EventTypes : queue'[u] = IF u = PhoneSent
                                          THEN rest[u] + 1 ELSE rest[u]
    BY <1>7, <1>9, DispatchedCounts
  <2>2. queue'[SendExpired] = 0
    BY <1>1, <1>7, <2>1 DEF PhoneSent, SendExpired, SendExpiredCheck
  <2>3. row.status = "sending"
    BY <1>9 DEF CountsAsSent
  <2>4. QED
    BY <1>2, <1>3, <1>4, <2>2, <2>3
       DEF Strand, Announce, Awaits, Retrying, Exists
<1>10. CASE /\ row.status \notin {"pending", "scheduled", "sending"}
            /\ queue' = rest
  <2>1. queue'[SendExpired] = 0
    BY <1>1, <1>7, <1>10 DEF SendExpired, SendExpiredCheck
  <2>2. QED
    BY <1>2, <1>3, <1>4, <1>6, <1>10, <2>1
       DEF Strand, Announce, Awaits, Retrying, Exists
<1>11. CASE /\ row.status \in {"pending", "scheduled"}
            /\ queue' = Dispatched(rest, SendExpired)
            /\ milestones' = IF IsFinal(row)
                             THEN milestones \cup {"final"} ELSE milestones
  <2>1. \A u \in EventTypes : queue'[u] = IF u = SendExpired
                                          THEN rest[u] + 1 ELSE rest[u]
    BY <1>7, <1>11, DispatchedCounts
  <2>2. queue'[SendExpired] > 0 /\ queue'[NotificationScheduledEvent] = 0
    BY <1>1, <1>7, <2>1
       DEF SendExpired, SendExpiredCheck, NotificationScheduledEvent
  <2>3. Moving'
    BY <2>2 DEF Moving, MovingTypes, BehindTypes
  <2>4. row.SendAttemptCount >= MaxSendAttempts => "final" \in milestones'
    <3>1. pushes + Ahead <= MaxSendAttempts + faults
      BY DEF ChainInv, PushesBounded
    <3>2. row.SendAttemptCount <= pushes + faults
      BY DEF AttemptsArePushed
    <3>3. faults = 0
      BY DEF Healthy
    <3>4. row.SendAttemptCount \in Nat
      BY DEF TypeOK, Rows
    <3>5. row.SendAttemptCount <= MaxSendAttempts
      BY <3>1, <3>2, <3>3, <3>4, LedgerType, MaxSendAttemptsAssumption
    <3>6. QED
      BY <1>11, <3>4, <3>5, MaxSendAttemptsAssumption DEF IsFinal
  <2>5. ~Counting'
    BY <1>3 DEF Counting
  <2>6. QED
    BY <1>2, <1>3, <1>4, <1>11, <2>2, <2>3, <2>4, <2>5
       DEF Strand, Announce, Exists
<1>12. QED
  BY <1>8, <1>9, <1>10, <1>11

\* The phone claims the message while a handler may have its row in hand.
LEMMA FetchSettles ==
    ASSUME TypeOK, TypeOK', Strand, Announce, NothingBegan, GetOutstanding
    PROVE  Strand' /\ Announce'
<1> USE NamesAreTypes
<1>1. /\ UNCHANGED <<request, Current>> /\ queue \in [EventTypes -> Nat]
      /\ milestones \subseteq milestones'
  BY CurrentStays DEF GetOutstanding, TypeOK
<1>2. CASE row.status \notin Outstanding
  <2>1. UNCHANGED <<row, queue, milestones>>
    BY <1>2 DEF GetOutstanding
  <2>2. UNCHANGED <<Kept, Moving, Retrying, Counting, Staged, Expiring>>
    BY <1>1, <2>1 DEF Kept, Moving, Retrying, Counting, Staged, Expiring
  <2>3. QED
    BY <1>1, <2>1, <2>2 DEF Strand, Announce, Awaits, Exists
<1>3. CASE row.status \in Outstanding
  <2>1. queue' = Dispatched(queue, PhoneSending) /\ UNCHANGED Current
        /\ row' = [row EXCEPT !.status = "sending"] /\ row'.status = "sending"
    BY <1>1, <1>3 DEF GetOutstanding, Dispatch, TypeOK, Rows
  <2>2. \A u \in EventTypes : queue'[u] = IF u = PhoneSending
                                          THEN queue[u] + 1 ELSE queue[u]
    BY <1>1, <2>1, DispatchedCounts
  <2>3. /\ queue'[NotificationScheduledEvent] = queue[NotificationScheduledEvent]
        /\ queue'[SendExpired] = queue[SendExpired]
    BY <1>1, <2>2 DEF NotificationScheduledEvent, SendExpired, PhoneSending
  <2>4. Staged' => Staged
    BY <1>1, <2>2 DEF Staged, APISent, SendRetry, NotificationSend, NotificationSent, SendExpiredCheck,
         SendExpired, NotificationScheduledEvent, NotificationFailed, SendFailed,
         PhoneSending, PhoneSent, PhoneDelivered
  <2>5. Moving => Moving'
    <3>1. MovingTypes \subseteq EventTypes
      BY DEF MovingTypes, AheadTypes, BehindTypes
    <3>2. \A u \in MovingTypes : queue[u] > 0 => queue'[u] > 0
      BY <1>1, <2>2, <3>1
    <3>3. QED
      BY <1>1, <3>2 DEF Moving
  <2>6. UNCHANGED <<Expiring, Counting>> /\ (Retrying' => Retrying)
    BY <1>1, <2>3 DEF Expiring, Counting, Retrying
  <2>7. Exists(row') /\ ~Awaits(row)'
    BY <2>1 DEF Exists, Awaits
  <2>8. CASE Current.step = "save"
    <3>1. UNCHANGED Kept
      BY <1>1, <2>8 DEF Kept
    <3>2. Awaits(Kept)' => Awaits(Kept)
      BY <2>3, <3>1 DEF Awaits
    <3>3. Strand'
      BY <2>3, <2>5, <2>6, <2>7, <3>2 DEF Strand, Exists
    <3>4. Announce'
      BY <1>1, <2>3, <2>4, <2>5, <2>6, <3>1 DEF Announce
    <3>5. QED
      BY <3>3, <3>4
  <2>9. CASE Current.step # "save"
    <3>1. Kept = row /\ Kept' = row'
      BY <1>1, <2>9 DEF Kept
    <3>2. Kept'.SendAttemptCount = Kept.SendAttemptCount
          /\ Kept'.status = "sending"
      BY <2>1, <3>1 DEF TypeOK, Rows
    <3>3. ~Awaits(Kept)'
      BY <3>2 DEF Awaits
    <3>4. Strand'
      BY <2>3, <2>6, <2>7, <3>3 DEF Strand, Exists
    <3>5. Announce'
      BY <1>1, <2>3, <2>6, <3>2 DEF Announce
    <3>6. QED
      BY <3>4, <3>5
  <2>10. QED
    BY <2>8, <2>9
<1>4. QED
  BY <1>2, <1>3

LEMMA StoreSettles ==
    ASSUME TypeOK, TypeOK', NothingBegan, StoreSentMessage
    PROVE  Strand' /\ Announce'
<1>1. /\ Current = Idle /\ Current' = Idle /\ row' = NewMessage
      /\ request' = "stored" /\ \A u \in EventTypes : queue'[u] = 0
  BY CurrentStays DEF StoreSentMessage, NothingBegan
<1>2. Current'.step = "idle" /\ Kept' = NewMessage
  BY <1>1, IdleIsNotBusy DEF Kept
<1>3. NewMessage.status = "pending" /\ Moving' /\ ~Retrying' /\ ~Counting'
      /\ ~Expiring' /\ ~Staged' /\ queue'[SendExpired] = 0
  BY <1>1, <1>2, NamesAreTypes
     DEF NewMessage, Moving, Retrying, Counting, Expiring, Staged
<1>4. QED
  BY <1>1, <1>2, <1>3 DEF Strand, Announce, Exists

\* What a handled event takes from the queue.
LEMMA TakenFromQueue ==
    ASSUME TypeOK, NEW t \in EventTypes, queue[t] > 0, queue' = Handled(queue, t),
           UNCHANGED request
    PROVE  /\ \A u \in EventTypes \ {t} : queue'[u] = queue[u]
           /\ queue'[t] = queue[t] - 1
           /\ queue'[t] > 0 => queue[t] > 0
           /\ Staged' => Staged
           /\ t \notin MovingTypes /\ Current' = Current /\ Moving => Moving'
           /\ t \notin MovingTypes /\ Current.step = "idle" /\ Moving => Moving'
<1>1. queue \in [EventTypes -> Nat]
  BY DEF TypeOK
<1>2. \A u \in EventTypes : queue'[u] = IF u = t THEN queue[u] - 1 ELSE queue[u]
  BY <1>1, HandledCounts
<1>3. /\ \A u \in EventTypes \ {t} : queue'[u] = queue[u]
      /\ queue'[t] = queue[t] - 1
      /\ queue'[t] > 0 => queue[t] > 0
  BY <1>1, <1>2
<1>4. Staged' => Staged
  BY <1>1, <1>2, NamesAreTypes DEF Staged
<1>5. t \notin MovingTypes => \A u \in MovingTypes : queue'[u] = queue[u]
  BY <1>3, NamesAreTypes DEF MovingTypes, AheadTypes, BehindTypes
<1>6. QED
  BY <1>3, <1>4, <1>5 DEF Moving

\* The reports of the phone.
LEMMA ReportSettles ==
    ASSUME TypeOK, TypeOK', Strand, Announce,
           NEW t \in {PhoneSending, PhoneSent, PhoneDelivered}, NEW expected,
           NEW m \in Rows, Loads(t, expected, m),
           m.status \in {"sending", "sent", "delivered"},
           m.SendAttemptCount = row.SendAttemptCount
    PROVE  Strand' /\ Announce'
<1>1. /\ queue[t] > 0 /\ queue' = Handled(queue, t) /\ t \in EventTypes
      /\ UNCHANGED <<request, row, milestones>>
  BY NamesAreTypes DEF Loads, history
<1>2. t \notin MovingTypes /\ t # SendExpired /\ t # SendFailed
      /\ t # NotificationScheduledEvent /\ t # NotificationSent
  BY DEF MovingTypes, AheadTypes, BehindTypes, APISent, SendRetry, NotificationSend, NotificationSent, SendExpiredCheck,
         SendExpired, NotificationScheduledEvent, NotificationFailed, SendFailed,
         PhoneSending, PhoneSent, PhoneDelivered
<1>3. /\ queue'[NotificationScheduledEvent] = queue[NotificationScheduledEvent]
      /\ queue'[SendExpired] = queue[SendExpired] /\ (Staged' => Staged)
  BY <1>1, <1>2, TakenFromQueue, NamesAreTypes
<1>4. Awaits(row)' => Awaits(row)
  BY <1>1, <1>3 DEF Awaits
<1>5. CASE UNCHANGED Current
  <2>1. UNCHANGED <<Kept, Expiring, Counting>> /\ (Moving => Moving')
    BY <1>1, <1>2, <1>5, TakenFromQueue DEF Kept, Expiring, Counting
  <2>2. Awaits(Kept)' => Awaits(Kept)
    BY <1>3, <2>1 DEF Awaits
  <2>3. Retrying' => Retrying
    BY <1>3, <1>5, <2>1 DEF Retrying
  <2>4. Strand'
    BY <1>1, <1>3, <1>4, <2>1, <2>2, <2>3 DEF Strand, Exists
  <2>5. Announce'
    BY <1>1, <1>3, <2>1 DEF Announce
  <2>6. QED
    BY <2>4, <2>5
<1>6. CASE Current = Idle /\ Current' = [step |-> "save", event |-> t,
                                          message |-> m]
  <2>1. /\ Current.step = "idle" /\ Current'.step = "save"
        /\ Current'.event = t /\ Current'.message = m
    BY <1>6, IdleIsNotBusy
  <2>2. Kept = row /\ Kept' = m /\ ~Expiring' /\ ~Counting'
        /\ (Moving => Moving')
    BY <1>1, <1>2, <2>1, TakenFromQueue DEF Kept, Expiring, Counting
  <2>3. ~Awaits(Kept)' /\ (Retrying' => Retrying)
    BY <1>3, <2>1, <2>2 DEF Awaits, Retrying
  <2>4. Strand'
    BY <1>1, <1>3, <1>4, <2>2, <2>3 DEF Strand, Exists
  <2>5. Announce'
    BY <1>1, <1>3, <2>2 DEF Announce
  <2>6. QED
    BY <2>4, <2>5
<1>7. QED
  BY <1>5, <1>6 DEF Loads

\* A failure is taken unless the message was delivered.
LEMMA FailureSettles ==
    ASSUME TypeOK, TypeOK', Strand, Announce, NothingBegan, FollowInv,
           Loads(SendFailed, Statuses \ {"delivered"}, Failed(row))
    PROVE  Strand' /\ Announce'
<1>1. /\ queue[SendFailed] > 0 /\ queue' = Handled(queue, SendFailed)
      /\ UNCHANGED <<request, row, milestones>> /\ SendFailed \in EventTypes
  BY NamesAreTypes DEF Loads, history
<1>2. /\ queue'[NotificationScheduledEvent] = queue[NotificationScheduledEvent]
      /\ queue'[SendExpired] = queue[SendExpired] /\ (Staged' => Staged)
  BY <1>1, TakenFromQueue, NamesAreTypes
     DEF SendFailed, SendExpired, NotificationScheduledEvent
<1>3. Awaits(row)' => Awaits(row)
  BY <1>1, <1>2 DEF Awaits
<1>4. Exists(row)
  BY <1>1, NamesAreTypes DEF Strand, NothingBegan
<1>5. CASE row.status \notin Statuses \ {"delivered"} /\ UNCHANGED Current
  <2>1. row.status = "delivered"
    BY <1>4, <1>5 DEF TypeOK, Rows, Exists
  <2>2. Kept.status \in {"delivered", "none"}
    BY <2>1 DEF Kept, FollowInv, CanFollow
  <2>3. UNCHANGED <<Kept, Expiring, Counting>> /\ (Retrying' => Retrying)
    BY <1>1, <1>2, <1>5 DEF Kept, Expiring, Counting, Retrying
  <2>4. ~Awaits(row)' /\ ~Awaits(Kept)'
    BY <1>1, <2>1, <2>2, <2>3 DEF Awaits
  <2>5. QED
    BY <1>1, <1>2, <2>2, <2>3, <2>4 DEF Strand, Announce, Exists
<1>6. CASE Current = Idle /\ Current' = [step |-> "save", event |-> SendFailed,
                                          message |-> Failed(row)]
  <2>1. /\ Current.step = "idle" /\ Current'.step = "save"
        /\ Current'.event = SendFailed /\ Current'.message = Failed(row)
    BY <1>6, IdleIsNotBusy
  <2>2. Failed(row).status = "failed"
        /\ Failed(row).SendAttemptCount = row.SendAttemptCount
    BY DEF Failed, TypeOK, Rows
  <2>3. Kept = row /\ Kept' = Failed(row) /\ ~Expiring' /\ ~Counting' /\ Moving'
    BY <2>1 DEF Kept, Expiring, Counting, Moving, SendFailed, SendExpired,
                NotificationScheduledEvent, NotificationSent
  <2>4. Retrying' => Retrying
    BY <1>2, <2>1, <2>3 DEF Retrying
  <2>5. QED
    BY <1>1, <1>2, <1>4, <2>2, <2>3, <2>4 DEF Strand, Announce, Exists
<1>7. QED
  BY <1>5, <1>6 DEF Loads

\* The announcement of a notification turns an expired message back.
LEMMA AnnouncementSettles ==
    ASSUME TypeOK, TypeOK', Strand, Announce, NothingBegan,
           Loads(NotificationScheduledEvent, Statuses, NotificationScheduled(row))
    PROVE  Strand' /\ Announce'
<1> DEFINE m == NotificationScheduled(row)
           t == NotificationScheduledEvent
<1>1. /\ queue[t] > 0 /\ queue' = Handled(queue, t) /\ t \in EventTypes
      /\ UNCHANGED <<request, row, milestones>>
  BY NamesAreTypes DEF Loads, history
<1>2. t \notin MovingTypes /\ t # SendExpired
  BY DEF MovingTypes, AheadTypes, BehindTypes, APISent, SendRetry, NotificationSend, NotificationSent, SendExpiredCheck,
         SendExpired, NotificationScheduledEvent, NotificationFailed, SendFailed,
         PhoneSending, PhoneSent, PhoneDelivered
<1>3. queue'[SendExpired] = queue[SendExpired]
      /\ (queue'[t] > 0 => queue[t] > 0)
  BY <1>1, <1>2, TakenFromQueue, NamesAreTypes
<1>4. Exists(row)
  BY <1>1, NamesAreTypes DEF Strand, NothingBegan
<1>5. Current = Idle /\ Current' = [step |-> "save", event |-> t, message |-> m]
  BY <1>4 DEF Loads, Exists, TypeOK, Rows
<1>6. /\ Current.step = "idle" /\ Current'.step = "save"
      /\ Current'.event = t /\ Current'.message = m
  BY <1>5, IdleIsNotBusy
<1>7. Kept = row /\ Kept' = m /\ ~Expiring' /\ (Moving => Moving')
  BY <1>1, <1>2, <1>6, TakenFromQueue DEF Kept, Expiring
<1>8. /\ m.status # "expired"
      /\ m.status \in {"pending", "scheduled"}
           => row.status \in {"pending", "scheduled", "expired"}
  BY DEF NotificationScheduled, TypeOK, Rows
<1>9. ~Retrying
  <2>1. queue[t] # 0
    BY <1>1, NamesAreTypes DEF TypeOK
  <2>2. QED
    BY <2>1 DEF Strand
<1>10. ~Retrying' /\ ~(queue'[SendExpired] > 0)
  BY <1>3, <1>6, <1>7, <1>9 DEF Retrying
<1>11. /\ Awaits(row)' => Awaits(row)
       /\ Awaits(Kept)' => Awaits(row)
  BY <1>1, <1>3, <1>7, <1>8 DEF Awaits
<1> HIDE DEF m, t
<1>12. Strand'
  BY <1>1, <1>4, <1>7, <1>10, <1>11 DEF Strand, Exists
<1>13. Announce'
  BY <1>7, <1>8, <1>10 DEF Announce
<1>14. QED
  BY <1>12, <1>13

\* The expiry takes the token into the hand, or finds the message settled.
LEMMA ExpirySettles ==
    ASSUME TypeOK, TypeOK', Strand, Announce, NothingBegan, FollowInv, ChainInv,
           SavedStatus, Healthy,
           Loads(SendExpired, {"sending", "scheduled", "pending"}, Expired(row))
    PROVE  Strand' /\ Announce'
<1>1. /\ queue[SendExpired] > 0 /\ queue' = Handled(queue, SendExpired)
      /\ UNCHANGED <<request, row, milestones>> /\ SendExpired \in EventTypes
  BY NamesAreTypes DEF Loads, history
<1>2. /\ queue'[NotificationScheduledEvent] = queue[NotificationScheduledEvent]
      /\ queue'[SendExpired] = queue[SendExpired] - 1 /\ (Staged' => Staged)
  BY <1>1, TakenFromQueue, NamesAreTypes
     DEF SendExpired, NotificationScheduledEvent
<1>3. queue'[SendExpired] = 0 /\ ~Staged /\ queue[NotificationScheduledEvent] = 0
  <2>1. queue[SendExpired] = 1 /\ \A u \in (AheadTypes \cup BehindTypes)
                                              \ {SendExpired} : queue[u] = 0
    BY <1>1, OneToken DEF BehindTypes
  <2>2. queue[NotificationSend] = 0 /\ queue[NotificationSent] = 0
        /\ queue[SendExpiredCheck] = 0
    BY <2>1 DEF AheadTypes, BehindTypes, NotificationSend, NotificationSent,
                SendExpiredCheck, SendExpired
  <2>3. QED
    BY <1>1, <1>2, <2>1, <2>2 DEF Staged, Strand, Retrying
<1>4. Exists(row)
  BY <1>1 DEF Strand, NothingBegan
<1>5. CASE row.status \notin {"sending", "scheduled", "pending"}
             /\ UNCHANGED Current
  <2>1. UNCHANGED <<Kept, Expiring, Counting>>
    BY <1>1, <1>5 DEF Kept, Expiring, Counting
  <2>2. Kept.status # "expired" /\ ~Counting
    BY <1>1 DEF Announce, Strand
  <2>3. Kept.status \notin {"pending", "scheduled"}
    <3>1. CASE Current.step = "save"
      <4>1. Current.event \in SavedEvents
            /\ Current.event \notin {NotificationScheduledEvent, NotificationSent}
        BY <2>2, <3>1 DEF ChainInv, TasksAreOfChain, Counting
      <4>2. QED
        BY <3>1, <4>1 DEF SavedStatus, SavedEvents, Kept
    <3>2. CASE Current.step # "save"
      BY <1>5, <3>2 DEF Kept
    <3>3. QED
      BY <3>1, <3>2
  <2>4. ~Awaits(row)' /\ ~Awaits(Kept)'
    BY <1>1, <1>2, <1>3, <1>5, <2>1, <2>2, <2>3 DEF Awaits
  <2>5. Expiring = FALSE
    BY <1>1, OneToken DEF BehindTypes, Expiring
  <2>6. QED
    BY <1>1, <1>2, <1>3, <1>4, <2>1, <2>2, <2>4, <2>5
       DEF Strand, Announce, Exists
<1>6. CASE Current = Idle /\ Current' = [step |-> "save", event |-> SendExpired,
                                          message |-> Expired(row)]
  <2>1. /\ Current.step = "idle" /\ Current'.step = "save"
        /\ Current'.event = SendExpired /\ Current'.message = Expired(row)
    BY <1>6, IdleIsNotBusy
  <2>2. Expired(row).SendAttemptCount = row.SendAttemptCount
    BY DEF Expired, TypeOK, Rows
  <2>3. Kept = row /\ Kept' = Expired(row) /\ Moving'
    BY <2>1 DEF Kept, Moving
  <2>4. Strand'
    BY <1>1, <1>2, <1>3, <1>4, <2>3 DEF Strand, Exists
  <2>5. Announce'
    BY <1>1, <1>2, <1>3, <2>2, <2>3 DEF Announce
  <2>6. QED
    BY <2>4, <2>5
<1>7. QED
  BY <1>5, <1>6 DEF Loads

\* A push that was made: its check is scheduled ...
LEMMA CheckScheduleSettles ==
    ASSUME TypeOK, TypeOK', Strand, Announce, NothingBegan, ChainInv, Healthy,
           queue[NotificationSent] > 0,
           queue' = Dispatched(Handled(queue, NotificationSent), SendExpiredCheck),
           Current = Idle,
           Current' = [step |-> "load", event |-> NotificationSent,
                       message |-> NoRow],
           UNCHANGED <<request, row, push, phone, history, faults>>
    PROVE  Strand' /\ Announce'
<1> USE NamesAreTypes
<1> DEFINE p == Handled(queue, NotificationSent)
<1>1. /\ queue \in [EventTypes -> Nat] /\ p \in [EventTypes -> Nat]
      /\ \A u \in EventTypes : p[u] = IF u = NotificationSent
                                      THEN queue[u] - 1 ELSE queue[u]
  BY HandledCounts DEF TypeOK
<1>2. queue' = Dispatched(p, SendExpiredCheck)
  OBVIOUS
<1> HIDE DEF p
<1>3. \A u \in EventTypes : queue'[u] = IF u = SendExpiredCheck
                                        THEN p[u] + 1 ELSE p[u]
  BY <1>1, <1>2, DispatchedCounts
<1>4. /\ queue'[NotificationScheduledEvent] = queue[NotificationScheduledEvent]
      /\ queue'[SendExpired] = queue[SendExpired]
      /\ queue'[SendExpiredCheck] > 0
  BY <1>1, <1>3 DEF APISent, SendRetry, NotificationSend, NotificationSent, SendExpiredCheck,
         SendExpired, NotificationScheduledEvent, NotificationFailed, SendFailed,
         PhoneSending, PhoneSent, PhoneDelivered
<1>5. queue[SendExpired] = 0
  BY OneToken DEF BehindTypes, NotificationSent, SendExpired
<1>6. Current.step = "idle" /\ Current'.step = "load"
      /\ Kept = row /\ Kept' = row /\ UNCHANGED <<request, row, milestones>>
  BY IdleIsNotBusy DEF Kept, history
<1>7. Moving' /\ ~Retrying' /\ ~Expiring'
  BY <1>4, <1>5, <1>6 DEF Moving, MovingTypes, BehindTypes, Retrying, Expiring
<1>8. request # "new" /\ Exists(row)
  BY DEF NothingBegan, Strand
<1>9. Staged
  BY DEF Staged
<1>10. QED
  BY <1>4, <1>5, <1>6, <1>7, <1>8, <1>9 DEF Strand, Announce, Exists

\* ... and it is counted after it.
LEMMA CountSettles ==
    ASSUME TypeOK, TypeOK', Strand, Announce, ChainInv, Healthy,
           Current.step = "load",
           Current' = IF Exists(row)
                      THEN [step |-> "save", event |-> Current.event,
                            message |-> AddSendAttemptCount(row)]
                      ELSE Idle,
           UNCHANGED <<request, row, queue, push, phone, history, faults>>
    PROVE  Strand' /\ Announce'
<1>1. Current.event = NotificationSent /\ Kept = row
      /\ UNCHANGED <<request, row, queue, milestones>>
  BY DEF ChainInv, TasksAreOfChain, Kept, history
<1>2. ~(queue[SendExpired] > 0)
  BY DEF Strand, Counting
<1>3. Kept'.status = row.status /\ Current'.step \in {"save", "idle"}
      /\ (Current'.step = "save" => Current'.event = NotificationSent)
      /\ Current'.step # "dispatch"
  <2>1. CASE Exists(row)
    BY <1>1, <2>1 DEF Kept, AddSendAttemptCount, TypeOK, Rows
  <2>2. CASE ~Exists(row)
    BY <1>1, <2>2, IdleIsNotBusy DEF Kept
  <2>3. QED
    BY <2>1, <2>2
<1>4. ~Expiring' /\ ~Retrying'
  BY <1>1, <1>2, <1>3 DEF Expiring, Retrying, NotificationSent, SendExpired
<1>5. (Moving => Moving') /\ (Staged' <=> Staged)
  BY <1>1, <1>3 DEF Moving, Staged
<1>6. /\ Awaits(row)' <=> Awaits(row)
      /\ Awaits(Kept)' <=> Awaits(row)
  BY <1>1, <1>3 DEF Awaits
<1>7. Strand'
  BY <1>1, <1>2, <1>4, <1>5, <1>6 DEF Strand, Exists
<1>8. Announce'
  BY <1>1, <1>2, <1>3, <1>4, <1>5 DEF Announce
<1>9. QED
  BY <1>7, <1>8

\* The save makes the row what it was kept for; an expiry is retried, or was
\* announced as the last.
LEMMA SaveSettles ==
    ASSUME TypeOK, TypeOK', Strand, Announce, ChainInv, Healthy, SavedStatus,
           Current.step = "save", row' = Current.message,
           Current' = IF Current.event = SendExpired
                           /\ CanBeRescheduled(Current.message)
                      THEN [Current EXCEPT !.step = "dispatch"] ELSE Idle,
           UNCHANGED <<request, queue, push, phone, history, faults>>
    PROVE  Strand' /\ Announce'
<1>1. UNCHANGED <<request, queue, milestones>> /\ Current \in Busy
      /\ Exists(Current.message) /\ Kept = Current.message
      /\ Kept.SendAttemptCount \in Nat
  BY CurrentType, IdleIsNotBusy, LedgerType
     DEF history, ChainInv, TasksAreOfChain, Kept
<1>2. Current'.step \in {"idle", "dispatch"} /\ Kept' = Kept /\ row' = Kept
      /\ (Current'.step = "dispatch" <=> Current.event = SendExpired
                                           /\ CanBeRescheduled(Kept))
  <2>1. Current'.step = IF Current.event = SendExpired
                             /\ CanBeRescheduled(Current.message)
                        THEN "dispatch" ELSE "idle"
    BY <1>1, IdleIsNotBusy DEF Busy
  <2>2. QED
    BY <1>1, <2>1 DEF Kept
<1>3. ~Expiring' /\ ~Counting' /\ (Staged' <=> Staged) /\ (Retrying' => Retrying)
  BY <1>1, <1>2 DEF Expiring, Counting, Staged, Retrying
<1>4. Kept.status \in {"pending", "scheduled", "expired"} /\ Moving =>
          \/ Moving'
          \/ Expiring /\ Kept.SendAttemptCount >= MaxSendAttempts
                      /\ Kept.status = "expired"
  <2>1. CASE Current.event = SendFailed
    BY <1>1, <2>1 DEF SavedStatus
  <2>2. CASE Current.event = SendExpired
    BY <1>1, <1>2, <2>2, MaxSendAttemptsAssumption
       DEF SavedStatus, Moving, Expiring, CanBeRescheduled
  <2>3. CASE Current.event \notin {SendFailed, SendExpired}
    BY <1>1, <2>3 DEF Moving
  <2>4. QED
    BY <2>1, <2>2, <2>3
<1>5. Awaits(Kept) => Kept.status \in {"pending", "scheduled", "expired"}
      /\ (Awaits(row)' <=> Awaits(Kept)) /\ (Awaits(Kept)' <=> Awaits(Kept))
  BY <1>1, <1>2 DEF Awaits
<1>6. Expiring /\ Kept.status = "expired" => ~Awaits(Kept)
  BY NamesAreTypes DEF Strand, Retrying, Awaits, TypeOK
<1>7. Strand'
  BY <1>1, <1>2, <1>3, <1>4, <1>5, <1>6 DEF Strand, Exists, Awaits
<1>8. Announce'
  BY <1>1, <1>2, <1>3, <1>4 DEF Announce
<1>9. QED
  BY <1>7, <1>8

LEMMA RetrySettles ==
    ASSUME TypeOK, TypeOK', Strand, Announce, Current.step = "dispatch",
           queue' = Dispatched(queue, SendRetry), Current' = Idle,
           UNCHANGED <<request, row, push, phone, history, faults>>
    PROVE  Strand' /\ Announce'
<1> USE NamesAreTypes
<1>1. queue \in [EventTypes -> Nat] /\ UNCHANGED <<request, row, milestones>>
  BY DEF TypeOK, history
<1>2. \A u \in EventTypes : queue'[u] = IF u = SendRetry
                                        THEN queue[u] + 1 ELSE queue[u]
  BY <1>1, DispatchedCounts
<1>3. /\ queue'[NotificationScheduledEvent] = queue[NotificationScheduledEvent]
      /\ queue'[SendExpired] = queue[SendExpired] /\ queue'[SendRetry] > 0
  BY <1>1, <1>2 DEF APISent, SendRetry, NotificationSend, NotificationSent, SendExpiredCheck,
         SendExpired, NotificationScheduledEvent, NotificationFailed, SendFailed,
         PhoneSending, PhoneSent, PhoneDelivered
<1>4. Staged' => Staged
  BY <1>1, <1>2 DEF Staged, APISent, SendRetry, NotificationSend, NotificationSent, SendExpiredCheck,
         SendExpired, NotificationScheduledEvent, NotificationFailed, SendFailed,
         PhoneSending, PhoneSent, PhoneDelivered
<1>5. Current'.step = "idle" /\ Kept = row /\ Kept' = row /\ ~Expiring'
  BY <1>1, IdleIsNotBusy DEF Kept, Expiring
<1>6. Moving' /\ ~Counting' /\ (Retrying' => Retrying)
  BY <1>3, <1>5 DEF Moving, MovingTypes, AheadTypes, Counting, Retrying
<1>7. Strand'
  BY <1>1, <1>3, <1>5, <1>6 DEF Strand, Exists
<1>8. Announce'
  BY <1>1, <1>3, <1>4, <1>5, <1>6 DEF Announce
<1>9. QED
  BY <1>7, <1>8

\* A step after which all is well went wrong in nothing.
LEMMA HealthIsKept ==
    ASSUME TypeOK, [Next]_vars, Healthy'
    PROVE  Healthy /\ ~FaultNext /\ ~DeleteMessage
<1>1. faults \in Nat /\ faults' = 0 /\ "deleted" \notin milestones'
  BY DEF TypeOK, Healthy
<1>2. ~FaultNext
  BY <1>1 DEF FaultNext, DispatchAPISentFails, ScheduleUnannounced,
     SendNotificationFailsLate, GetOutstandingLost, PostEventFails, PhoneForgets,
     Duplicate, Lose, Crash, Fault
<1>3. ~DeleteMessage
  BY <1>1 DEF DeleteMessage
<1>4. Healthy
  BY <1>1, <1>2, <1>3 DEF Next, vars, history, Healthy,
       StoreSentMessage, DispatchAPISent, NotificationNext, Schedule,
       SendNotification, SendNotificationFails, OnMessageNotificationFailed,
       CheckExpired, LosePush, PhoneNext, GetOutstanding, Transmit,
       TransmitFails, Report, PostEvent, HandlerNext, HandleMessageSending,
       HandleMessageSent, HandleMessageFailed, HandleMessageDelivered,
       HandleMessageNotificationScheduled, HandleMessageExpired, Handle,
       ScheduleExpirationCheck, HandleMessageNotificationSent, Update,
       DispatchSendRetry
<1>5. QED
  BY <1>2, <1>3, <1>4

LEMMA SettleInvStays ==
    ASSUME TypeOK, TypeOK', OneAtATime, OneAtATime', NothingBegan, FollowInv,
           ChainInv, SavedStatus, SettleInv, AttemptsArePushed,
           SlowTimers = TRUE, [Next]_vars
    PROVE  SettleInv'
<1> SUFFICES ASSUME Healthy'
             PROVE  Strand' /\ Announce'
  BY DEF SettleInv
<1>1. Healthy /\ ~FaultNext /\ ~DeleteMessage
  BY HealthIsKept
<1>2. Strand /\ Announce
  BY <1>1 DEF SettleInv
<1>3. CASE \E w \in Workers : HandlerNext(w)
  <2>1. /\ AddSendAttempt(row) \in Rows /\ Sent(row) \in Rows
        /\ Delivered(row) \in Rows
        /\ AddSendAttempt(row).status = "sending" /\ Sent(row).status = "sent"
        /\ Delivered(row).status = "delivered"
        /\ AddSendAttempt(row).SendAttemptCount = row.SendAttemptCount
        /\ Sent(row).SendAttemptCount = row.SendAttemptCount
        /\ Delivered(row).SendAttemptCount = row.SendAttemptCount
    BY MutationTypes DEF AddSendAttempt, Sent, Delivered, TypeOK, Rows
  <2>2. ASSUME \/ Loads(PhoneSending, {"sending"}, AddSendAttempt(row))
               \/ Loads(PhoneSent, {"sending", "expired", "scheduled"}, Sent(row))
               \/ Loads(PhoneDelivered,
                        {"sent", "sending", "expired", "scheduled"},
                        Delivered(row))
        PROVE  Strand' /\ Announce'
    BY <1>2, <2>1, <2>2, ReportSettles
  <2>3. QED
    BY <1>1, <1>2, <1>3, <2>2, WorkerForm, FailureSettles, AnnouncementSettles,
       ExpirySettles, CheckScheduleSettles, CountSettles, SaveSettles,
       RetrySettles
<1>4. CASE NotificationNext
  BY <1>1, <1>2, <1>4, NotificationsSettle
<1>5. CASE CheckExpired
  BY <1>1, <1>2, <1>5, CheckSettles
<1>6. CASE GetOutstanding
  BY <1>2, <1>6, FetchSettles
<1>7. CASE StoreSentMessage
  BY <1>7, StoreSettles
<1>8. CASE DispatchAPISent
  <2>1. UNCHANGED <<row, Current, milestones>> /\ request # "new"
    BY <1>8, CurrentStays DEF DispatchAPISent, history
  <2>2. QED
    BY <1>2, <1>8, <2>1, PostsSettle DEF DispatchAPISent, Dispatch
<1>9. CASE LosePush \/ Transmit \/ TransmitFails \/ UNCHANGED vars
  <2>1. UNCHANGED <<request, row, queue, handler>>
    BY <1>9 DEF LosePush, Transmit, TransmitFails, vars
  <2>2. milestones \subseteq milestones'
    BY <1>9 DEF LosePush, Transmit, TransmitFails, Report, vars, history
  <2>3. UNCHANGED <<Current, Kept, Moving, Retrying, Counting, Staged, Expiring>>
    BY <2>1, CurrentStays
       DEF Current, Kept, Moving, Retrying, Counting, Staged, Expiring
  <2>4. QED
    BY <1>2, <2>1, <2>2, <2>3 DEF Strand, Announce, Awaits, Exists
<1>10. CASE PostEvent
  <2>1. UNCHANGED <<request, row, Current, milestones>>
    BY <1>10, CurrentStays DEF PostEvent, history
  <2>2. PICK name \in EventNames :
            IF Exists(row) THEN Dispatch(EventOf(name)) ELSE UNCHANGED queue
    BY <1>10 DEF PostEvent
  <2>3. EventOf(name) \in {PhoneSent, PhoneDelivered, SendFailed}
    BY DEF EventOf, EventNames
  <2>4. CASE request # "new"
    BY <1>2, <2>1, <2>2, <2>3, <2>4, PostsSettle DEF Dispatch
  <2>5. CASE request = "new"
    <3>1. ~Exists(row)
      BY <2>5 DEF NothingBegan, Exists, NoRow
    <3>2. UNCHANGED queue
      BY <2>2, <3>1
    <3>3. UNCHANGED <<Kept, Moving, Retrying, Counting, Staged, Expiring>>
      BY <2>1, <3>2 DEF Kept, Moving, Retrying, Counting, Staged, Expiring
    <3>4. QED
      BY <1>2, <2>1, <3>2, <3>3 DEF Strand, Announce, Awaits, Exists
  <2>6. QED
    BY <2>4, <2>5
<1>11. QED
  BY <1>1, <1>3, <1>4, <1>5, <1>6, <1>7, <1>8, <1>9, <1>10 DEF Next, PhoneNext

LEMMA InitSettles == Init => SavedStatus /\ SettleInv /\ FollowInv
<1> SUFFICES ASSUME Init PROVE SavedStatus /\ SettleInv /\ FollowInv
  OBVIOUS
<1>1. Current = Idle /\ Current.step = "idle"
  BY IdleIsNotBusy DEF Init, Current
<1>2. Kept = NoRow /\ row = NoRow /\ NoRow.status = "none"
      /\ ~Staged /\ ~Retrying /\ queue[SendExpired] = 0 /\ request = "new"
  BY <1>1, NamesAreTypes DEF Init, Kept, NoRow, Staged, Retrying, Expiring
<1>3. ~Expiring
  BY <1>1 DEF Expiring
<1>4. QED
  BY <1>1, <1>2, <1>3
     DEF SavedStatus, SettleInv, Strand, Announce, Awaits, FollowInv

LEMMA Settling ==
    ASSUME SlowTimers = TRUE
    PROVE  Spec /\ []OneAtATime => [](TypeOK /\ SettleInv)
<1> DEFINE I == TypeOK /\ NothingBegan /\ FollowInv /\ ChainInv /\ SavedStatus
                  /\ SettleInv
<1>1. Init /\ OneAtATime => I
  BY InitIsTyped, InitIsLedger, InitSettles
<1>2. I /\ OneAtATime /\ OneAtATime' /\ AttemptsArePushed /\ [Next]_vars => I'
  BY TypeOKIsInductive, NothingBeganStays, FollowInvStays, ChainInvStays,
     SavedStatusStays, SettleInvStays
<1>3. Spec => []AttemptsArePushed
  BY AttemptsPushed
<1>4. QED
  BY <1>1, <1>2, <1>3, PTL DEF Spec

\* When nothing moves any more, nothing is left of the chain.
LEMMA QuietIsStill == Quiet => ~Moving /\ Kept = row
<1> SUFFICES ASSUME Quiet PROVE ~Moving /\ Kept = row
  OBVIOUS
<1>1. Current = Idle /\ Current.step = "idle"
  BY IdleIsNotBusy DEF Quiet, Current
<1>2. QED
  BY <1>1, NamesAreTypes DEF Quiet, Moving, MovingTypes, AheadTypes, BehindTypes,
                             Kept

\* As long as nothing goes wrong, a message that still waits for the phone has
\* an event or a handler that will move it, whatever pushes are lost: retries
\* and expirations hand the one token on and never drop it.
THEOREM NobodyStranded ==
    ASSUME SlowTimers = TRUE
    PROVE  Spec /\ []OneAtATime => [](faults = 0 => NeverStranded)
<1>1. SettleInv /\ faults = 0 => NeverStranded
  BY QuietIsStill DEF SettleInv, Healthy, Strand, Awaits, NeverStranded
<1>2. QED
  BY <1>1, Settling, PTL

\* As long as nothing goes wrong, a message that ends expired was announced as
\* final: the check that announces it and the listener that decides on the retry
\* read the same counter.
THEOREM ExpiryAnnounced ==
    ASSUME SlowTimers = TRUE
    PROVE  Spec /\ []OneAtATime => [](faults = 0 => ExpiryIsAnnounced)
<1>1. SettleInv /\ faults = 0 => ExpiryIsAnnounced
  BY QuietIsStill DEF SettleInv, Healthy, Announce, ExpiryIsAnnounced
<1>2. QED
  BY <1>1, Settling, PTL

----------------------------------------------------------------------------
(* The promise (MessagePromise).  Each of its bounds is an invariant that   *)
(* was shown above; what is left is where a message that is not there has   *)
(* gone.                                                                    *)

\* Nothing has happened to a message that is still to be stored, and one that
\* was stored and is not there was deleted.
WhereItIs ==
    /\ request = "new" => milestones = {}
    /\ request # "new" /\ ~Exists(row) => "deleted" \in milestones

\* Every invariant the promise rests on.
PromiseInv ==
    /\ TypeOK /\ EarnedInv /\ AttemptsArePushed
    /\ NothingBegan /\ FollowInv /\ ChainInv /\ CopiesArePushed /\ WhereItIs

\* Before the message is stored nothing can happen to it.
LEMMA NothingHappensBefore ==
    ASSUME TypeOK, NothingBegan, CopiesArePushed, WhereItIs, request = "new", Next
    PROVE  UNCHANGED milestones
<1>1. /\ push = 0 /\ inbox = 0 /\ ~Exists(row) /\ row.status \notin Outstanding
      /\ \A t \in EventTypes : queue[t] = 0
  BY DEF NothingBegan, CopiesArePushed, TypeOK, NoRow, Exists, Outstanding
<1> QED
  BY <1>1, NamesAreTypes
     DEF Next, StoreSentMessage, DispatchAPISent, DeleteMessage, NotificationNext,
         Schedule, SendNotification, SendNotificationFails,
         OnMessageNotificationFailed, CheckExpired, LosePush, PhoneNext,
         GetOutstanding, Transmit, TransmitFails, PostEvent, FaultNext,
         DispatchAPISentFails, ScheduleUnannounced, SendNotificationFailsLate,
         GetOutstandingLost, PostEventFails, PhoneForgets, Duplicate, Lose, Crash,
         HandlerNext, HandleMessageSending, HandleMessageSent,
         HandleMessageFailed, HandleMessageDelivered,
         HandleMessageNotificationScheduled, HandleMessageExpired,
         Handle, ScheduleExpirationCheck, HandleMessageNotificationSent,
         Update, DispatchSendRetry, Waiting, history

LEMMA RequestMoves ==
    ASSUME Next, request' # request
    PROVE  /\ request' # "new"
           /\ request = "new" => row' = NewMessage
  BY DEF Next, StoreSentMessage, DispatchAPISent, DeleteMessage, NotificationNext,
         Schedule, SendNotification, SendNotificationFails,
         OnMessageNotificationFailed, CheckExpired, LosePush, PhoneNext,
         GetOutstanding, Transmit, TransmitFails, PostEvent, FaultNext,
         DispatchAPISentFails, ScheduleUnannounced, SendNotificationFailsLate,
         GetOutstandingLost, PostEventFails, PhoneForgets, Duplicate, Lose, Crash,
         HandlerNext, HandleMessageSending, HandleMessageSent,
         HandleMessageFailed, HandleMessageDelivered,
         HandleMessageNotificationScheduled, HandleMessageExpired,
         Handle, ScheduleExpirationCheck, HandleMessageNotificationSent,
         Update, DispatchSendRetry, history

LEMMA WhereItStays ==
    ASSUME TypeOK, TypeOK', OneAtATime, OneAtATime', NothingBegan, ChainInv,
           CopiesArePushed, WhereItIs, [Next]_vars
    PROVE  WhereItIs'
<1>1. CASE UNCHANGED vars
  BY <1>1 DEF vars, history, WhereItIs
<1> SUFFICES ASSUME Next PROVE WhereItIs'
  BY <1>1
<1>2. request' = "new" => milestones' = {}
  BY NothingHappensBefore, RequestMoves DEF WhereItIs
<1>3. Exists(NewMessage)
  BY DEF NewMessage, Exists
<1>4. ASSUME request' # "new", ~Exists(row)'
      PROVE  "deleted" \in milestones'
  <2>1. milestones \subseteq milestones'
    BY StepsGrow DEF Grows
  <2>2. CASE request = "new"
    BY <1>3, <1>4, <2>2, RequestMoves DEF Exists
  <2>3. CASE request # "new" /\ ~Exists(row)
    BY <2>1, <2>3 DEF WhereItIs
  <2>4. CASE request # "new" /\ Exists(row)
    <3>1. ASSUME NEW w \in Workers, HandlerNext(w)
          PROVE  Exists(row)'
      <4>1. ASSUME row' # row
            PROVE  Current.step = "save" /\ row' = Current.message
        BY <3>1, <4>1, WorkerForm DEF Loads
      <4> QED
        BY <2>4, <4>1 DEF ChainInv, TasksAreOfChain, Exists
    <3>2. CASE DeleteMessage
      BY <3>2 DEF DeleteMessage
    <3>3. CASE ~DeleteMessage /\ ~\E w \in Workers : HandlerNext(w)
      <4>1. UNCHANGED row \/ row'.status = "sending" \/ row' = NewMessage
        BY <3>3
           DEF TypeOK, Rows, Next, StoreSentMessage, DispatchAPISent, NotificationNext,
             Schedule, SendNotification, SendNotificationFails,
             OnMessageNotificationFailed, CheckExpired, LosePush, PhoneNext,
             GetOutstanding, Transmit, TransmitFails, PostEvent, FaultNext,
             DispatchAPISentFails, ScheduleUnannounced, SendNotificationFailsLate,
             GetOutstandingLost, PostEventFails, PhoneForgets, Duplicate, Lose, Crash
      <4> QED
        BY <1>3, <1>4, <2>4, <4>1 DEF Exists
    <3> QED
      BY <1>4, <3>1, <3>2, <3>3
  <2> QED
    BY <2>2, <2>3, <2>4
<1> QED
  BY <1>2, <1>4 DEF WhereItIs

LEMMA PromiseInvStays ==
    ASSUME PromiseInv, OneAtATime, OneAtATime', [Next]_vars, TypeOK', AttemptsArePushed'
    PROVE  PromiseInv'
  BY EarnedInvIsInductive, NothingBeganStays, FollowInvStays, ChainInvStays,
     CopiesArePushedStays, WhereItStays DEF PromiseInv

\* The owner sees nothing of most steps, except that something went wrong.
LEMMA NothingIsSeen ==
    ASSUME UNCHANGED <<row, pushes, sms, milestones>>, faults' \in {faults, faults + 1}
    PROVE  Promise!Next
  BY DEF Promise!Next, Promise!Nothing

LEMMA EarnedAsPromised ==
    EarnedRow(row)' /\ UNCHANGED <<milestones, pushes>> => Promise!Earned(row'.status)
  BY DEF EarnedRow, FetchedRow, DeliveredRow, FailedRow, ExpiredRow, Promise!Earned

\* A handler's save shows a status that is earned and may follow.
LEMMA SaveAsPromised ==
    ASSUME PromiseInv, PromiseInv', OneAtATime, OneAtATime',
           NEW w \in Workers, HandlerNext(w)
    PROVE  Promise!Next
<1> USE DEF PromiseInv
<1>1. UNCHANGED <<pushes, sms, milestones, faults>>
  BY WorkerForm DEF Loads, history
<1>2. CASE row'.status = row.status
  BY <1>1, <1>2 DEF Promise!Next, Promise!Nothing
<1>3. CASE row'.status # row.status
  <2>1. Current.step = "save" /\ row' = Current.message
    BY <1>3, WorkerForm DEF Loads
  <2>2. row'.status \in Promise!Shown
    BY <2>1 DEF ChainInv, TasksAreOfChain, Exists, TypeOK, Rows, Statuses, Promise!Shown
  <2>3. CanFollow(row.status, row'.status)
    BY <2>1 DEF FollowInv
  <2>4. row.status = "none" => "deleted" \in milestones
    BY <2>1, IdleIsNotBusy DEF NothingBegan, WhereItIs, Exists
  <2>5. Promise!Earned(row'.status)
    BY <1>1, EarnedAsPromised DEF EarnedInv, StatusIsEarned
  <2>6. Promise!Show(row'.status)
    BY <1>1, <1>3, <2>2, <2>3, <2>4, <2>5 DEF Promise!Show, Promise!Shown, CanFollow
  <2> QED
    BY <1>1, <2>2, <2>6 DEF Promise!Next
<1> QED
  BY <1>2, <1>3

\* Every step of the message keeps the promise.
LEMMA StepKeepsPromise ==
    ASSUME PromiseInv, PromiseInv', OneAtATime, OneAtATime', Next
    PROVE  Promise!Next
<1> USE DEF PromiseInv
<1>1. CASE StoreSentMessage
  <2>1. Promise!Accept
    BY <1>1 DEF StoreSentMessage, NothingBegan, WhereItIs, NoRow, NewMessage, history,
                Promise!Accept
  <2> QED
    BY <1>1, <2>1 DEF StoreSentMessage, Promise!Next
<1>2. CASE DeleteMessage
  BY <1>2 DEF DeleteMessage, Exists, NoRow, Promise!Delete, Promise!Next
<1>3. CASE \/ DispatchAPISent \/ DispatchAPISentFails \/ Schedule \/ ScheduleUnannounced
           \/ OnMessageNotificationFailed \/ LosePush \/ PostEvent \/ PostEventFails
           \/ Duplicate \/ Lose \/ \E w \in Workers : Crash(w)
  BY <1>3, NothingIsSeen
     DEF DispatchAPISent, DispatchAPISentFails, Schedule, ScheduleUnannounced,
         OnMessageNotificationFailed, LosePush, PostEvent, PostEventFails, Duplicate,
         Lose, Crash, Fault, history
<1>4. CASE SendNotification \/ SendNotificationFailsLate
  <2>1. pushes' <= MaxSendAttempts + faults'
    BY LedgerTypeNext, MaxSendAttemptsAssumption DEF ChainInv, PushesBounded
  <2>2. Promise!Push /\ faults' \in {faults, faults + 1}
    BY <1>4, <2>1 DEF SendNotification, SendNotificationFailsLate, Fault, Promise!Push
  <2> QED
    BY <2>2 DEF Promise!Next
<1>5. CASE SendNotificationFails \/ TransmitFails
  <2>1. Promise!Fail /\ UNCHANGED faults
    BY <1>5 DEF SendNotificationFails, TransmitFails, Report, Promise!Fail
  <2> QED
    BY <2>1 DEF Promise!Next
<1>6. CASE \E w \in Workers : HandlerNext(w)
  BY <1>6, SaveAsPromised
<1>7. CASE CheckExpired
  <2>1. CASE UNCHANGED milestones
    BY <1>7, <2>1, NothingIsSeen DEF CheckExpired
  <2>2. CASE IsFinal(row) /\ milestones' = milestones \cup {"final"}
    <3>1. pushes + faults >= MaxSendAttempts
      BY <2>2 DEF IsFinal, AttemptsArePushed
    <3> QED
      BY <1>7, <2>2, <3>1 DEF CheckExpired, Promise!GiveUp, Promise!Next
  <2> QED
    BY <1>7, <2>1, <2>2 DEF CheckExpired
<1>8. CASE (GetOutstanding \/ GetOutstandingLost) /\ row.status \in Outstanding
  <2>1. pushes > 0
    BY <1>8 DEF GetOutstanding, GetOutstandingLost, CopiesArePushed, TypeOK
  <2>2. row'.status = "sending" /\ milestones' = milestones \cup {"fetched"}
    BY <1>8 DEF GetOutstanding, GetOutstandingLost, TypeOK, Rows
  <2>3. UNCHANGED <<pushes, sms>> /\ faults' \in {faults, faults + 1}
    BY <1>8 DEF GetOutstanding, GetOutstandingLost, Fault
  <2> QED
    BY <1>8, <2>1, <2>2, <2>3 DEF Outstanding, Promise!Fetch, Promise!Next
<1>9. CASE GetOutstanding /\ row.status \notin Outstanding
  BY <1>9, NothingIsSeen DEF GetOutstanding
<1>10. CASE Transmit \/ PhoneForgets
  <2>1. "fetched" \in milestones /\ sms < pushes
    BY <1>10 DEF Transmit, PhoneForgets, EarnedInv, PhoneIsEarned, CopiesArePushed, TypeOK
  <2>2. CASE sms' = sms + 1
    <3>1. \E results \in SUBSET {"delivered", "failed"} :
              milestones' = milestones \cup results
      <4>1. CASE Transmit
        <5>1. PICK names \in Results : Report(names)
          BY <4>1 DEF Transmit
        <5> DEFINE results == (IF "DELIVERED" \in names THEN {"delivered"} ELSE {})
                                \cup (IF "FAILED" \in names THEN {"failed"} ELSE {})
        <5>2. milestones' = milestones \cup results
          BY <5>1 DEF Report
        <5> QED
          BY <5>2
      <4>2. CASE PhoneForgets
        <5>1. milestones' = milestones \cup {}
          BY <4>2 DEF PhoneForgets
        <5> QED
          BY <5>1
      <4> QED
        BY <1>10, <4>1, <4>2
    <3>2. UNCHANGED <<row, pushes>> /\ faults' \in {faults, faults + 1}
      BY <1>10 DEF Transmit, PhoneForgets, Fault
    <3> QED
      BY <2>1, <2>2, <3>1, <3>2 DEF Promise!Transmit, Promise!Next
  <2>3. CASE PhoneForgets /\ UNCHANGED sms
    BY <2>3, NothingIsSeen DEF PhoneForgets, Fault
  <2> QED
    BY <1>10, <2>2, <2>3 DEF Transmit, PhoneForgets
<1> QED
  BY <1>1, <1>2, <1>3, <1>4, <1>5, <1>6, <1>7, <1>8, <1>9, <1>10
     DEF Next, NotificationNext, PhoneNext, FaultNext, GetOutstandingLost

\* The API, its queue and the phone keep the promise to the owner of a message,
\* whatever is lost, repeated, late or dies half-way, for any number of send
\* attempts and of things that go wrong, as long as no two handlers of the
\* message overlap (SendMessage, the listeners of message_listener.go,
\* CheckExpired and GetOutstanding, taken together).
THEOREM PromiseKept == Spec /\ []OneAtATime => KeepsPromise
<1>2. Init /\ OneAtATime => PromiseInv /\ Promise!Init
  <2> SUFFICES ASSUME Init, OneAtATime PROVE PromiseInv /\ Promise!Init
    OBVIOUS
  <2>1. Promise!Init
    BY DEF Init, NoRow, Promise!Init
  <2>2. FollowInv
    BY IdleIsNotBusy DEF Init, FollowInv, Current
  <2>3. WhereItIs /\ AttemptsArePushed
    BY DEF Init, WhereItIs, AttemptsArePushed, NoRow
  <2> QED
    BY <2>1, <2>2, <2>3, EarnedInit, InitIsTyped, InitIsLedger DEF PromiseInv
<1>3. PromiseInv /\ OneAtATime /\ OneAtATime' /\ TypeOK' /\ AttemptsArePushed'
        /\ [Next]_vars => PromiseInv' /\ [Promise!Next]_(Promise!promise)
  <2> SUFFICES ASSUME PromiseInv, OneAtATime, OneAtATime', TypeOK', AttemptsArePushed',
                      [Next]_vars
               PROVE  PromiseInv' /\ [Promise!Next]_(Promise!promise)
    OBVIOUS
  <2>1. PromiseInv'
    BY PromiseInvStays
  <2>2. UNCHANGED vars => UNCHANGED Promise!promise
    BY DEF vars, history, Promise!promise
  <2> QED
    BY <2>1, <2>2, StepKeepsPromise
<1> QED
  BY <1>2, <1>3, TypeCorrect, AttemptsPushed, PTL DEF Spec, KeepsPromise, Promise!Spec

----------------------------------------------------------------------------
(* One worker. *)

\* With one worker, as in the runs, two handlers never overlap: all of the above
\* holds of every behaviour.
THEOREM OneWorker ==
    ASSUME NEW worker, Workers = {worker}
    PROVE  /\ Spec => OutcomeIsFinal
           /\ Spec => []CopiesAreBounded
           /\ Spec => KeepsPromise
           /\ SlowTimers = TRUE /\ Spec =>
                 [](faults = 0 => NeverStranded /\ ExpiryIsAnnounced)
<1>1. OneAtATime
  BY DEF OneAtATime
<1>2. []OneAtATime
  BY <1>1, PTL
<1>3. Spec => OutcomeIsFinal
  BY <1>2, OutcomeFinal
<1>4. Spec => []CopiesAreBounded
  BY <1>2, CopiesBounded
<1>5. ASSUME SlowTimers = TRUE
      PROVE  Spec => [](faults = 0 => NeverStranded /\ ExpiryIsAnnounced)
  BY <1>2, <1>5, NobodyStranded, ExpiryAnnounced, PTL
<1>6. Spec => KeepsPromise
  BY <1>2, PromiseKept
<1>7. QED
  BY <1>3, <1>4, <1>5, <1>6

----------------------------------------------------------------------------
(* The deliveries of the events of a phone (Deliveries).                     *)

\* A delivery that is over was accepted, or its failure was announced.
NoneIsSilent ==
    \A d \in begun :
        d \in heard \cup noticed \/ mailFaults > 0 \/ \E post \in posts : post.delivery = d

DeliveriesTyped ==
    /\ events \subseteq Mail!Events /\ announced \subseteq Mail!Events
    /\ subscribed \in [Mail!Endpoints -> SUBSET Announced]
    /\ posts \subseteq Mail!Posts
    /\ mailFaults \in Nat

\* What the cache knows of the last e-mail of each kind: it forgets it when the
\* timeout is over at the latest, and until it is told of it no time passes.
MailCached ==
    /\ sent \in [Mail!Kinds -> Mail!Ages] /\ since \in [Mail!Kinds -> Mail!Ages]
    /\ dropped \in [Mail!Kinds -> Mail!Ages]
    /\ mailer \in [Mailers -> [step : {"idle", "load", "send", "cache"},
                               kind : SUBSET Mail!Kinds]]
    /\ \A kind \in Mail!Kinds :
           /\ dropped[kind] < Mail!Timeout(kind)
           /\ sent[kind] > 0 => sent[kind] + since[kind] <= Mail!Timeout(kind)
    /\ \A a \in Mailers : mailer[a].step = "cache" =>
           \A kind \in mailer[a].kind : since[kind] = 0

ToldInv == DeliveriesTyped /\ NoneIsSilent /\ MailCached

LEMMA TimeoutType == \A kind \in Mail!Kinds : Mail!Timeout(kind) \in {1, 4}
  BY DEF Mail!Timeout

LEMMA ToldInit == Mail!Init => ToldInv
<1> SUFFICES ASSUME Mail!Init PROVE ToldInv
  OBVIOUS
<1>1. DeliveriesTyped
  BY DEF Mail!Init, DeliveriesTyped
<1>2. NoneIsSilent
  BY DEF Mail!Init, NoneIsSilent
<1>3. MailCached
  BY TimeoutType DEF Mail!Init, MailCached, Mail!Ages, Mail!Idle
<1> QED
  BY <1>1, <1>2, <1>3 DEF ToldInv

LEMMA SendTold ==
    ASSUME DeliveriesTyped, NoneIsSilent, Mail!Send
    PROVE  (DeliveriesTyped /\ NoneIsSilent)'
<1>1. PICK e \in events :
          /\ events' \subseteq events
          /\ mailFaults' = mailFaults \/ mailFaults' = mailFaults + 1
          /\ posts' = posts \cup { [delivery |-> Mail!Delivery(e, h), attempt |-> 1] :
                                       h \in Mail!LoadByEvent(e.type) }
          /\ begun' = begun \cup { Mail!Delivery(e, h) : h \in Mail!LoadByEvent(e.type) }
          /\ UNCHANGED <<announced, subscribed, heard, noticed>>
  BY DEF Mail!Send, Mail!Fault, Mail!settings
<1>2. ASSUME NEW h \in Mail!LoadByEvent(e.type)
      PROVE  [delivery |-> Mail!Delivery(e, h), attempt |-> 1] \in Mail!Posts
  BY <1>1, <1>2 DEF Mail!LoadByEvent, Mail!Delivery, Mail!Deliveries, Mail!Posts,
     DeliveriesTyped
<1>3. DeliveriesTyped'
  BY <1>1, <1>2 DEF DeliveriesTyped
<1>4. ASSUME NEW d \in begun'
      PROVE  d \in heard' \cup noticed' \/ mailFaults' > 0
                 \/ \E post \in posts' : post.delivery = d
  <2>1. CASE d \in begun
    BY <1>1, <2>1 DEF NoneIsSilent, DeliveriesTyped
  <2>2. CASE \E h \in Mail!LoadByEvent(e.type) : d = Mail!Delivery(e, h)
    <3>1. PICK h \in Mail!LoadByEvent(e.type) : d = Mail!Delivery(e, h)
      BY <2>2
    <3>2. [delivery |-> d, attempt |-> 1] \in posts'
      BY <1>1, <3>1
    <3> QED
      BY <3>2
  <2> QED
    BY <1>1, <1>4, <2>1, <2>2
<1> QED
  BY <1>3, <1>4 DEF NoneIsSilent

LEMMA PostTold ==
    ASSUME DeliveriesTyped, NoneIsSilent, Mail!Post
    PROVE  (DeliveriesTyped /\ NoneIsSilent)'
<1>1. PICK post \in posts :
          /\ \/ Mail!Accepted(post)
             \/ Mail!Retried(post) /\ heard' \in {heard, heard \cup {post.delivery}}
             \/ Mail!Failed(post) /\ heard' \in {heard, heard \cup {post.delivery}}
          /\ UNCHANGED <<events, announced, subscribed>>
  BY DEF Mail!Post, Mail!settings
<1>2. post \in Mail!Posts
  BY DEF DeliveriesTyped
<1>3. SUFFICES
          /\ UNCHANGED begun
          /\ mailFaults' \in Nat /\ mailFaults' >= mailFaults
          /\ heard \subseteq heard' /\ noticed \subseteq noticed'
          /\ posts' \subseteq Mail!Posts
          /\ \A other \in posts \ {post} : other \in posts'
          /\ post.delivery \in heard' \cup noticed' \/ mailFaults' > 0
                 \/ \E next \in posts' : next.delivery = post.delivery
  <2>1. DeliveriesTyped'
    BY <1>1, <1>3 DEF DeliveriesTyped
  <2>2. ASSUME NEW d \in begun'
        PROVE  d \in heard' \cup noticed' \/ mailFaults' > 0
                   \/ \E other \in posts' : other.delivery = d
    BY <1>3, <2>2 DEF NoneIsSilent, DeliveriesTyped
  <2> QED
    BY <2>1, <2>2 DEF NoneIsSilent
<1>4. CASE Mail!Accepted(post)
  BY <1>4 DEF Mail!Accepted, DeliveriesTyped
<1>5. CASE Mail!Retried(post) /\ heard' \in {heard, heard \cup {post.delivery}}
  <2> DEFINE next == [post EXCEPT !.attempt = @ + 1]
  <2>1. /\ next \in [delivery : Mail!Deliveries, attempt : Nat]
        /\ next.delivery = post.delivery /\ next.attempt = post.attempt + 1
    BY <1>2 DEF Mail!Posts
  <2>2. /\ post.attempt \in 1..2
        /\ post.attempt < Mail!LastAttempt(post.delivery.endpoint)
        /\ posts' = (posts \ {post}) \cup
               { n \in {next} : n.attempt <= Mail!Attempts(post.delivery.endpoint) }
        /\ UNCHANGED <<begun, noticed, mailFaults>>
    BY <1>2, <1>5 DEF Mail!Retried, Mail!Posts
  <2>3. next.attempt <= Mail!Attempts(post.delivery.endpoint) /\ next.attempt \in 1..2
    BY <2>1, <2>2 DEF Mail!LastAttempt, Mail!Attempts
  <2>4. next \in Mail!Posts
    BY <2>1, <2>3 DEF Mail!Posts
  <2> HIDE DEF next
  <2>5. posts' = (posts \ {post}) \cup {next}
    BY <2>2, <2>3
  <2> QED
    BY <1>5, <2>1, <2>2, <2>4, <2>5 DEF DeliveriesTyped
<1>6. CASE Mail!Failed(post) /\ heard' \in {heard, heard \cup {post.delivery}}
  BY <1>6 DEF Mail!Failed, Mail!Fault, DeliveriesTyped
<1> QED
  BY <1>1, <1>4, <1>5, <1>6

\* The steps of the user, of the handlers of notices and of time.
LEMMA OthersTold ==
    ASSUME DeliveriesTyped, NoneIsSilent,
           UNCHANGED <<events, posts, begun, heard, noticed>>,
           announced' \subseteq Mail!Events,
           subscribed' \in [Mail!Endpoints -> SUBSET Announced],
           mailFaults' = mailFaults \/ mailFaults' = mailFaults + 1
    PROVE  (DeliveriesTyped /\ NoneIsSilent)'
  BY DEF DeliveriesTyped, NoneIsSilent

LEMMA MailerCached ==
    ASSUME MailCached, NEW a \in Mailers, Mail!WorkerNext(a)
    PROVE  MailCached'
<1> USE TimeoutType DEF Mail!Ages
<1>1. CASE Mail!Suppress(a)
  <2>1. PICK kind \in Mail!Kinds :
            /\ sent[kind] > 0
            /\ dropped' = [dropped EXCEPT ![kind] =
                   IF @ > since[kind] THEN @ ELSE since[kind]]
            /\ UNCHANGED <<mailer, sent, since>>
    BY <1>1 DEF Mail!Suppress
  <2>2. since[kind] < Mail!Timeout(kind)
    BY <2>1 DEF MailCached
  <2>3. dropped' \in [Mail!Kinds -> Mail!Ages]
        /\ \A k \in Mail!Kinds : dropped'[k] < Mail!Timeout(k)
    BY <2>1, <2>2 DEF MailCached
  <2> QED
    BY <2>1, <2>3 DEF MailCached
<1>2. CASE Mail!CanSendEmail(a)
  BY <1>2 DEF Mail!CanSendEmail, Mail!Proceed, Mail!Task, MailCached
<1>3. CASE Mail!LoadUser(a)
  BY <1>3 DEF Mail!LoadUser, Mail!Is, Mail!Proceed, Mail!Idle, MailCached
<1>4. CASE Mail!SendEmail(a)
  <2>1. CASE /\ since' = [kind \in Mail!Kinds |->
                    IF kind \in mailer[a].kind THEN 0 ELSE since[kind]]
             /\ mailer' = [mailer EXCEPT ![a].step = "cache"]
             /\ UNCHANGED <<sent, dropped>>
    <3>1. /\ since' \in [Mail!Kinds -> Mail!Ages]
          /\ \A kind \in Mail!Kinds :
                 /\ kind \in mailer[a].kind => since'[kind] = 0
                 /\ since'[kind] = 0 \/ since'[kind] = since[kind]
      BY <2>1 DEF MailCached
    <3>2. mailer[a].kind \subseteq Mail!Kinds
      BY DEF MailCached
    <3>3. /\ mailer' \in [Mailers -> [step : {"idle", "load", "send", "cache"},
                                     kind : SUBSET Mail!Kinds]]
          /\ mailer'[a].kind = mailer[a].kind
          /\ \A b \in Mailers \ {a} : mailer'[b] = mailer[b]
      BY <2>1 DEF MailCached
    <3>4. \A kind \in Mail!Kinds :
              sent'[kind] > 0 => sent'[kind] + since'[kind] <= Mail!Timeout(kind)
      BY <2>1, <3>1 DEF MailCached
    <3>5. ASSUME NEW b \in Mailers, mailer'[b].step = "cache", NEW kind \in mailer'[b].kind
          PROVE  since'[kind] = 0
      <4>1. CASE b = a
        BY <3>1, <3>2, <3>3, <3>5, <4>1
      <4>2. CASE b # a
        <5>1. since[kind] = 0 /\ kind \in Mail!Kinds
          BY <3>3, <3>5, <4>2 DEF MailCached
        <5> QED
          BY <3>1, <5>1
      <4> QED
        BY <4>1, <4>2
    <3> QED
      BY <2>1, <3>1, <3>3, <3>4, <3>5 DEF MailCached
  <2>2. CASE mailer' = [mailer EXCEPT ![a] = Mail!Idle] /\ UNCHANGED <<since, sent, dropped>>
    BY <2>2 DEF MailCached, Mail!Idle
  <2> QED
    BY <1>4, <2>1, <2>2 DEF Mail!SendEmail, Mail!Proceed
<1>5. CASE Mail!AddToCache(a)
  <2>1. /\ mailer[a].step = "cache"
        /\ mailer' = [mailer EXCEPT ![a] = Mail!Idle] /\ UNCHANGED <<since, dropped>>
        /\ \/ sent' = [kind \in Mail!Kinds |->
                  IF kind \in mailer[a].kind THEN Mail!Timeout(kind) ELSE sent[kind]]
           \/ UNCHANGED sent
    BY <1>5 DEF Mail!AddToCache, Mail!Is, Mail!Proceed
  <2> QED
    BY <2>1 DEF MailCached, Mail!Idle
<1> QED
  BY <1>1, <1>2, <1>3, <1>4, <1>5 DEF Mail!WorkerNext

LEMMA TickCached ==
    ASSUME MailCached, Mail!Tick
    PROVE  MailCached'
  BY TimeoutType DEF Mail!Tick, MailCached, Mail!Ages, Mail!Idle

LEMMA ToldNext == ToldInv /\ [Mail!Next]_(Mail!vars) => ToldInv'
<1> SUFFICES ASSUME DeliveriesTyped, NoneIsSilent, MailCached, [Mail!Next]_(Mail!vars)
             PROVE  (DeliveriesTyped /\ NoneIsSilent)' /\ MailCached'
  BY DEF ToldInv
<1> USE DEF Mail!settings, Mail!sending, Mail!mail
<1>0. /\ announced \subseteq Mail!Events
      /\ subscribed \in [Mail!Endpoints -> SUBSET Announced]
  BY DEF DeliveriesTyped
<1>1. CASE UNCHANGED Mail!vars
  BY <1>0, <1>1, OthersTold DEF Mail!vars, MailCached
<1>2. ASSUME NEW a \in Mailers, Mail!WorkerNext(a)
      PROVE  (DeliveriesTyped /\ NoneIsSilent)' /\ MailCached'
  <2>1. /\ UNCHANGED <<events, announced, subscribed, posts, begun, heard, noticed>>
        /\ mailFaults' = mailFaults \/ mailFaults' = mailFaults + 1
    BY <1>2 DEF Mail!WorkerNext, Mail!Suppress, Mail!CanSendEmail, Mail!LoadUser,
       Mail!SendEmail, Mail!AddToCache, Mail!Fault
  <2> QED
    BY <1>0, <1>2, <2>1, OthersTold, MailerCached
<1>3. CASE Mail!Configure
  <2>1. subscribed' \in [Mail!Endpoints -> SUBSET Announced]
    BY <1>0, <1>3 DEF Mail!Configure
  <2> QED
    BY <1>0, <1>3, <2>1, OthersTold DEF Mail!Configure, MailCached
<1>4. CASE Mail!SetNotifications \/ Mail!DeleteAllForUser
  BY <1>0, <1>4, OthersTold DEF Mail!SetNotifications, Mail!DeleteAllForUser, MailCached
<1>5. CASE Mail!Announce
  <2>1. events' \subseteq Mail!Events /\ announced' \subseteq Mail!Events
    BY <1>0, <1>5 DEF Mail!Announce, DeliveriesTyped
  <2> QED
    BY <1>5, <2>1 DEF Mail!Announce, DeliveriesTyped, NoneIsSilent, MailCached
<1>6. CASE Mail!Send
  BY <1>6, SendTold DEF Mail!Send, MailCached
<1>7. CASE Mail!Post
  BY <1>7, PostTold DEF Mail!Post, MailCached
<1>8. CASE Mail!Tick
  BY <1>0, <1>8, OthersTold, TickCached DEF Mail!Tick
<1> QED
  BY <1>1, <1>2, <1>3, <1>4, <1>5, <1>6, <1>7, <1>8 DEF Mail!Next

----------------------------------------------------------------------------
(* A message and the deliveries beside it.                                   *)

LEMMA BothBehave == BothSpec => Spec /\ Mail!Spec
<1> DEFINE both == <<vars, mailVars, which>>
<1>1. BothInit => Init /\ Mail!Init
  BY DEF BothInit
<1>2. [BothNext]_both => [Next]_vars /\ [Mail!Next]_(Mail!vars)
  BY DEF BothNext, mailVars, Mail!vars, Mail!settings, Mail!sending, Mail!mail
<1> HIDE DEF both
<1>3. BothInit /\ [][BothNext]_both => Spec /\ Mail!Spec
  BY <1>1, <1>2, PTL DEF Spec, Mail!Spec
<1> QED
  BY <1>3 DEF BothSpec, both

LEMMA MailTold == Mail!Spec => []ToldInv
  BY ToldInit, ToldNext, PTL DEF Mail!Spec

\* Nothing fails in silence, for any webhooks, channels, events, handlers and
\* faults: a post that is over was accepted or its failure announced, and a
\* notice is dropped only while the cache remembers an e-mail younger than the
\* timeout (Send of webhook_service.go and discord_service.go, canSendEmail,
\* addToCache).
THEOREM FailureTold == BothSpec => []FailureIsTold
<1>1. ToldInv => FailureIsTold
  BY DEF ToldInv, NoneIsSilent, MailCached, FailureIsTold, Mail!FailureIsTold
<1> QED
  BY <1>1, BothBehave, MailTold, PTL

\* What the theorem above does not need of the types: what was begun is a
\* delivery, and what was accepted or announced had been begun.
BegunTyped ==
    /\ enabled \subseteq Mail!Settings
    /\ events \subseteq announced
    /\ begun \subseteq Mail!Deliveries /\ heard \subseteq begun /\ noticed \subseteq begun
    /\ \A post \in posts : post.delivery \in begun
    /\ notices \in [Mail!Kinds -> Nat]
    /\ changes \in 0..MaxChanges /\ ticks \in 0..MaxTicks /\ mailFaults \in 0..MaxMailFaults

LEMMA BegunInit == Mail!Init => BegunTyped
<1> USE DeliveriesAssumption
<1> QED
  BY DEF Mail!Init, BegunTyped

LEMMA BegunNext == ToldInv /\ BegunTyped /\ [Mail!Next]_(Mail!vars) => BegunTyped'
<1> SUFFICES ASSUME DeliveriesTyped, MailCached, BegunTyped, [Mail!Next]_(Mail!vars)
             PROVE  BegunTyped'
  BY DEF ToldInv
<1> USE DeliveriesAssumption DEF Mail!settings, Mail!sending, Mail!mail
<1>0. \/ mailFaults' = mailFaults
      \/ mailFaults < MaxMailFaults /\ mailFaults' = mailFaults + 1
  BY DEF Mail!Next, Mail!WorkerNext, Mail!Suppress, Mail!CanSendEmail, Mail!LoadUser,
         Mail!SendEmail, Mail!AddToCache, Mail!Fault, Mail!Configure,
         Mail!SetNotifications, Mail!DeleteAllForUser, Mail!Announce, Mail!Send,
         Mail!Post, Mail!Accepted, Mail!Retried, Mail!Failed, Mail!Tick, Mail!vars
<1>1. mailFaults' \in 0..MaxMailFaults
  BY <1>0 DEF BegunTyped
<1>2. CASE UNCHANGED Mail!vars
  BY <1>2 DEF Mail!vars, BegunTyped
<1>3. ASSUME NEW a \in Mailers, Mail!WorkerNext(a) PROVE BegunTyped'
  <2>1. /\ UNCHANGED <<enabled, events, announced, begun, heard, noticed, posts,
                       changes, ticks>>
        /\ \/ UNCHANGED notices
           \/ \E kind \in Mail!Kinds : /\ notices[kind] > 0
                                       /\ notices' = [notices EXCEPT ![kind] = @ - 1]
    BY <1>3 DEF Mail!WorkerNext, Mail!Suppress, Mail!CanSendEmail, Mail!LoadUser,
                Mail!SendEmail, Mail!AddToCache
  <2>2. notices' \in [Mail!Kinds -> Nat]
    BY <2>1 DEF BegunTyped
  <2> QED
    BY <1>1, <2>1, <2>2 DEF BegunTyped
<1>4. CASE Mail!Configure \/ Mail!SetNotifications \/ Mail!DeleteAllForUser
  <2>1. /\ UNCHANGED <<events, announced, begun, heard, noticed, posts, notices, ticks>>
        /\ changes < MaxChanges /\ changes' = changes + 1
        /\ enabled' = enabled \/ enabled' \in SUBSET Mail!Settings
    BY <1>4 DEF Mail!Configure, Mail!SetNotifications, Mail!DeleteAllForUser, Mail!Change
  <2>2. changes' \in 0..MaxChanges
    BY <2>1 DEF BegunTyped
  <2> QED
    BY <1>1, <2>1, <2>2 DEF BegunTyped
<1>5. CASE Mail!Announce
  BY <1>1, <1>5 DEF Mail!Announce, BegunTyped
<1>6. CASE Mail!Send
  <2>1. PICK e \in events :
          /\ events' \subseteq events /\ UNCHANGED <<announced, heard, noticed, enabled,
                                                     changes, ticks>>
          /\ posts' = posts \cup { [delivery |-> Mail!Delivery(e, h), attempt |-> 1] :
                                       h \in Mail!LoadByEvent(e.type) }
          /\ begun' = begun \cup { Mail!Delivery(e, h) : h \in Mail!LoadByEvent(e.type) }
          /\ notices' = [kind \in Mail!Kinds |->
                IF kind \in Mail!NoticesOf(e) THEN notices[kind] + 1 ELSE notices[kind]]
    BY <1>6 DEF Mail!Send
  <2>2. \A h \in Mail!LoadByEvent(e.type) : Mail!Delivery(e, h) \in Mail!Deliveries
    BY <2>1 DEF Mail!LoadByEvent, Mail!Delivery, Mail!Deliveries, DeliveriesTyped
  <2>3. \A post \in posts' : post.delivery \in begun'
    BY <2>1 DEF BegunTyped
  <2>4. notices' \in [Mail!Kinds -> Nat]
    BY <2>1 DEF BegunTyped
  <2> QED
    BY <1>1, <2>1, <2>2, <2>3, <2>4 DEF BegunTyped
<1>7. CASE Mail!Post
  <2>1. PICK post \in posts :
          /\ Mail!Accepted(post) \/ Mail!Retried(post) \/ Mail!Failed(post)
          /\ Mail!Accepted(post) \/ heard' \in {heard, heard \cup {post.delivery}}
          /\ UNCHANGED <<enabled, events, announced, changes, ticks>>
    BY <1>7 DEF Mail!Post
  <2>2. post.delivery \in begun /\ begun' = begun
    BY <2>1 DEF BegunTyped, Mail!Accepted, Mail!Retried, Mail!Failed
  <2>3. heard' \subseteq begun
    BY <2>1, <2>2 DEF BegunTyped, Mail!Accepted
  <2>4. noticed' \subseteq begun /\ notices' \in [Mail!Kinds -> Nat]
    <3>1. CASE Mail!Accepted(post) \/ Mail!Retried(post)
      BY <3>1 DEF BegunTyped, Mail!Accepted, Mail!Retried
    <3>2. CASE Mail!Failed(post)
      BY <2>2, <3>2 DEF BegunTyped, Mail!Failed, Mail!Kinds
    <3> QED
      BY <2>1, <3>1, <3>2
  <2>5. \A other \in posts' : other.delivery \in begun
    <3>1. CASE Mail!Retried(post)
      <4>1. [post EXCEPT !.attempt = @ + 1].delivery = post.delivery
        BY DEF DeliveriesTyped, Mail!Posts
      <4>2. \A other \in posts' : other \in posts \/ other = [post EXCEPT !.attempt = @ + 1]
        BY <3>1 DEF Mail!Retried
      <4> QED
        BY <2>2, <4>1, <4>2 DEF BegunTyped
    <3>2. CASE Mail!Accepted(post) \/ Mail!Failed(post)
      BY <3>2 DEF BegunTyped, Mail!Accepted, Mail!Failed
    <3> QED
      BY <2>1, <3>1, <3>2
  <2> QED
    BY <1>1, <2>1, <2>2, <2>3, <2>4, <2>5 DEF BegunTyped
<1>8. CASE Mail!Tick
  BY <1>1, <1>8 DEF Mail!Tick, BegunTyped
<1> QED
  BY <1>2, <1>3, <1>4, <1>5, <1>6, <1>7, <1>8 DEF Mail!Next

\* The message and the deliveries beside it keep their types, for any number of
\* workers, webhooks, channels, events, changes and faults.
THEOREM BothTyped == BothSpec => []BothTypeOK
<1>1. ToldInv /\ BegunTyped => Mail!TypeOK
  BY DEF ToldInv, DeliveriesTyped, MailCached, BegunTyped, Mail!TypeOK
<1>2. Mail!Spec => []BegunTyped
  <2>1. ToldInv /\ BegunTyped /\ [Mail!Next]_(Mail!vars) => (ToldInv /\ BegunTyped)'
    BY BegunNext, ToldNext
  <2> QED
    BY BegunInit, ToldInit, <2>1, PTL DEF Mail!Spec
<1>3. TypeOK /\ Mail!TypeOK => BothTypeOK
  BY DEF BothTypeOK
<1> QED
  BY <1>1, <1>2, <1>3, BothBehave, MailTold, TypeCorrect, PTL
============================================================================
