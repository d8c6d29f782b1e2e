------------------------- MODULE ConversationProofs -------------------------
(****************************************************************************)
(* The count of unread messages is exact for any number of messages and of  *)
(* handlers, and however often events are delivered: a conversation has one *)
(* thread row at a time, and every write to it counts what it brings.  The  *)
(* archive is the user's: a handler takes a thread from it for an arrival,  *)
(* and does nothing else to it.  And when events are handled in their order *)
(* and without a deletion in between, the thread ends up showing a message  *)
(* as it is stored.                                                         *)
(****************************************************************************)
EXTENDS Conversation, FiniteSetTheorems, TLAPS

USE ConversationAssumption

\* There is one row at most, a row that is not there counts nothing, and a row
\* that is there counts what has arrived.
UnreadInv ==
    /\ \A t, u \in thread : t = u
    /\ thread = {} => arrivals = 0
    /\ UnreadIsExact

----------------------------------------------------------------------------
(* What the operators return. *)

LEMMA ArrivedType == ASSUME NEW event PROVE Arrived(event) \in {0, 1}
  BY DEF Arrived

LEMMA NowType ==
    ASSUME announced \in Times, announced < MaxAnnounced
    PROVE  now \in Times
  BY DEF Times, now

LEMMA ActivityType ==
    ASSUME NEW t \in Threads, NEW task \in Tasks, task.event \in Updates
    PROVE  /\ ActivityUpdates(t, task) \in Threads
           /\ ActivityUpdates(t, task).id = t.id
           /\ ActivityUpdates(t, task).UnreadCount =
                  t.UnreadCount + Arrived(task.event)
<1>1. /\ task.event.time \in Times /\ task.event.id \in MessageIDs
      /\ task.event.type \in Statuses
  BY DEF Updates
<1>2. t.UnreadCount + Arrived(task.event) \in Nat
  BY ArrivedType DEF Threads
<1>3. (IF task.unarchive THEN FALSE ELSE t.IsArchived) \in BOOLEAN
  BY DEF Threads
<1> QED
  BY <1>1, <1>2, <1>3 DEF ActivityUpdates, Threads

LEMMA ConflictType ==
    ASSUME NEW t \in Threads, NEW event
    PROVE  /\ Conflict(t, event) \in Threads
           /\ Conflict(t, event).UnreadCount = t.UnreadCount + Arrived(event)
<1>1. t.UnreadCount + Arrived(event) \in Nat
  BY ArrivedType DEF Threads
<1> QED
  BY <1>1 DEF Conflict, Threads

LEMMA TaskType ==
    ASSUME NEW step \in {"insert", "activity", "preview", "remove", "messages",
                         "account"},
           NEW event \in Events, NEW loaded \in SUBSET Threads,
           NEW unarchive \in BOOLEAN
    PROVE  /\ Task(step, event, loaded, unarchive) \in Tasks
           /\ Task(step, event, loaded, unarchive).step = step
           /\ Task(step, event, loaded, unarchive).event = event
  BY DEF Task, Tasks

LEMMA IdleType == Idle \in Tasks /\ Idle.step = "idle"
  BY DEF Idle, Task, Tasks

\* Only an update of a message leads to an insert or to an update.
LEMMA LoadType ==
    ASSUME NEW event \in Events, thread \subseteq Threads,
           NEW task \in Load(event)
    PROVE  /\ task \in Tasks
           /\ task.step \in {"insert", "activity"} => task.event \in Updates
<1>1. CASE event.type = "thread"
  <2>1. task = Task("messages", event, {}, FALSE)
    BY <1>1 DEF Load
  <2> QED
    BY <2>1, TaskType
<1>2. CASE event.type = "account"
  <2>1. task = Task("account", event, {}, FALSE)
    BY <1>2 DEF Load
  <2> QED
    BY <2>1, TaskType
<1>3. CASE event.type = "deleted"
  <2>1. task \in LoadForDeleted(event)
    BY <1>3 DEF Load
  <2>2. \/ task = Idle
        \/ \E t \in thread : \/ task = Task("remove", event, {t}, FALSE)
                             \/ task = Task("preview", event, {t}, FALSE)
    BY <2>1 DEF LoadForDeleted
  <2>3. CASE task = Idle
    BY <2>3, IdleType
  <2>4. ASSUME NEW t \in thread,
               \/ task = Task("remove", event, {t}, FALSE)
               \/ task = Task("preview", event, {t}, FALSE)
        PROVE  task \in Tasks /\ task.step \notin {"insert", "activity"}
    <3> DEFINE loaded == {t}
    <3>1. loaded \in SUBSET Threads
      OBVIOUS
    <3> HIDE DEF loaded
    <3>2. /\ Task("remove", event, loaded, FALSE) \in Tasks
          /\ Task("remove", event, loaded, FALSE).step = "remove"
          /\ Task("preview", event, loaded, FALSE) \in Tasks
          /\ Task("preview", event, loaded, FALSE).step = "preview"
      BY <3>1 DEF Task, Tasks
    <3> QED
      BY <2>4, <3>2 DEF loaded
  <2> QED
    BY <2>2, <2>3, <2>4
<1>4. CASE event.type \notin {"thread", "account", "deleted"}
  <2>1. event \in Updates
    BY <1>4 DEF Events, Deletions
  <2>2. task \in LoadForUpdate(event)
    BY <1>4 DEF Load
  <2>3. CASE thread = {}
    <3>1. task = Task("insert", event, {}, FALSE)
      BY <2>2, <2>3 DEF LoadForUpdate
    <3> QED
      BY <2>1, <3>1 DEF Task, Tasks
  <2>4. CASE thread # {}
    <3>1. PICK t \in thread :
              task = IF Ignored(t, event) THEN Idle
                     ELSE Task("activity", event, {t}, Unarchives(t, event))
      BY <2>2, <2>4 DEF LoadForUpdate
    <3> DEFINE loaded == {t}
               unarchive == Unarchives(t, event)
               new == Task("activity", event, loaded, unarchive)
    <3>2. unarchive \in BOOLEAN /\ loaded \in SUBSET Threads
      BY DEF Unarchives
    <3> HIDE DEF loaded, unarchive
    <3>5. new \in Tasks /\ new.event = event
      BY <3>2, TaskType
    <3>3. CASE Ignored(t, event)
      BY <3>1, <3>3, IdleType
    <3>4. CASE ~Ignored(t, event)
      BY <2>1, <3>1, <3>4, <3>5 DEF loaded, unarchive
    <3> QED
      BY <3>3, <3>4
  <2> QED
    BY <2>3, <2>4
<1> QED
  BY <1>1, <1>2, <1>3, <1>4

----------------------------------------------------------------------------
(* Type correctness. *)

\* The requests, which write messages and announce events.
LEMMA AnnounceType ==
    ASSUME TypeOK, NEW event, Announce(event), event \in Events
    PROVE  queue' \subseteq Events /\ announced' \in Times
  BY NowType DEF Announce, TypeOK

LEMMA UpdateEventType ==
    ASSUME TypeOK, announced < MaxAnnounced, NEW type \in Statuses,
           NEW id \in MessageIDs
    PROVE  Event(type, id, {}) \in Events
  BY NowType DEF Event, Events, Updates, TypeOK

LEMMA DeletionEventType ==
    ASSUME TypeOK, announced < MaxAnnounced,
           NEW type \in {"deleted", "thread", "account"},
           NEW id \in MessageIDs \cup {NoID}, NEW prev \in SUBSET Messages
    PROVE  Event(type, id, prev) \in Events
  BY NowType DEF Event, Events, Deletions, TypeOK

LEMMA StoreMessageType ==
    ASSUME TypeOK, NEW id \in MessageIDs, NEW status \in {"pending", "received"},
           StoreMessage(id, status), Note
    PROVE  TypeOK'
<1>1. now \in Times
  BY NowType DEF StoreMessage, TypeOK
<1>2. [id |-> id, status |-> status, time |-> now] \in Messages
  BY <1>1 DEF Messages, Statuses
<1>3. Request("announce", status, id) \in Requests
  BY <1>1 DEF Request, Requests
<1> QED
  BY <1>2, <1>3 DEF StoreMessage, TypeOK, history, Note

LEMMA AnnounceMessageType ==
    ASSUME TypeOK, AnnounceMessage, Note
    PROVE  TypeOK'
<1>1. PICK r \in requests :
          /\ r.op = "announce"
          /\ requests' = requests \ {r}
          /\ Announce(Event(r.type, r.id, {}))
          /\ UNCHANGED <<rows, used, pending, thread, created, worker, history>>
  BY DEF AnnounceMessage
<1>2. r.type \in Statuses /\ r.id \in MessageIDs
  BY <1>1 DEF TypeOK, Requests, Statuses
<1>3. Event(r.type, r.id, {}) \in Events
  BY <1>1, <1>2, UpdateEventType DEF Announce
<1> QED
  BY <1>1, <1>3, AnnounceType DEF TypeOK, history, Note

LEMMA ReceiveMessageType ==
    ASSUME TypeOK, NEW id \in MessageIDs, ReceiveMessage(id), Note
    PROVE  TypeOK'
<1>1. announced < MaxAnnounced /\ now \in Times
  BY NowType DEF ReceiveMessage, Announce, TypeOK
<1>2. Event("received", id, {}) \in Events
  BY <1>1, UpdateEventType DEF Statuses
<1>3. Request("store", "received", id) \in Requests
  BY <1>1 DEF Request, Requests
<1> QED
  BY <1>2, <1>3, AnnounceType DEF ReceiveMessage, TypeOK, history, Note

LEMMA StoreReceivedMessageType ==
    ASSUME TypeOK, StoreReceivedMessage, Note
    PROVE  TypeOK'
<1>1. PICK r \in requests :
          /\ r.op = "store"
          /\ requests' = requests \ {r}
          /\ \/ /\ rows' = rows \cup
                    {[id |-> r.id, status |-> "received", time |-> r.time]}
                /\ UNCHANGED faults
             \/ Fault /\ UNCHANGED rows
          /\ UNCHANGED <<used, pending, queue, announced, thread, created, worker,
                         arrivals>>
  BY DEF StoreReceivedMessage
<1>2. [id |-> r.id, status |-> "received", time |-> r.time] \in Messages
  BY <1>1 DEF TypeOK, Requests, Messages, Statuses
<1>3. faults' \in 0..MaxFaults
  BY <1>1 DEF Fault, TypeOK
<1> QED
  BY <1>1, <1>2, <1>3 DEF TypeOK, Note

LEMMA FetchType ==
    ASSUME TypeOK, Fetch, Note
    PROVE  TypeOK'
<1>1. PICK m \in rows :
          /\ rows' = (rows \ {m}) \cup {[m EXCEPT !.status = "sending"]}
          /\ Announce(Event("sending", m.id, {}))
          /\ UNCHANGED <<used, requests, pending, thread, created, worker, history>>
  BY DEF Fetch
<1>2. m.id \in MessageIDs /\ [m EXCEPT !.status = "sending"] \in Messages
  BY DEF TypeOK, Messages, Statuses
<1>3. Event("sending", m.id, {}) \in Events
  BY <1>1, <1>2, UpdateEventType DEF Announce, Statuses
<1> QED
  BY <1>1, <1>2, <1>3, AnnounceType DEF TypeOK, history, Note

LEMMA ReportDeliveredType ==
    ASSUME TypeOK, ReportDelivered, Note
    PROVE  TypeOK'
<1>1. PICK m \in rows :
          /\ Announce(Event("delivered", m.id, {}))
          /\ UNCHANGED <<messages, thread, created, worker, history>>
  BY DEF ReportDelivered
<1>2. m.id \in MessageIDs
  BY DEF TypeOK, Messages
<1>3. Event("delivered", m.id, {}) \in Events
  BY <1>1, <1>2, UpdateEventType DEF Announce, Statuses
<1> QED
  BY <1>1, <1>3, AnnounceType DEF TypeOK, messages, history, Note

LEMMA UpdateMessageType ==
    ASSUME TypeOK, UpdateMessage, Note
    PROVE  TypeOK'
<1>1. PICK e \in pending :
          /\ pending' = pending \ {e}
          /\ rows' = { IF m.id # e.id \/ m.status # "sending" THEN m
                       ELSE [m EXCEPT !.status = e.type,
                                 !.time = IF @ < e.time THEN e.time ELSE @] :
                       m \in rows }
          /\ UNCHANGED <<used, requests, queue, announced, thread, created, worker,
                         history>>
  BY DEF UpdateMessage
<1>2. e.type \in Statuses /\ e.time \in Times
  BY DEF TypeOK, Updates
<1>3. ASSUME NEW m \in rows
      PROVE  [m EXCEPT !.status = e.type,
                  !.time = IF @ < e.time THEN e.time ELSE @] \in Messages
  BY <1>2 DEF TypeOK, Messages
<1>4. rows' \subseteq Messages
  BY <1>1, <1>3 DEF TypeOK
<1> QED
  BY <1>1, <1>4 DEF TypeOK, history, Note

\* The deletions.
LEMMA DeleteMessageType ==
    ASSUME TypeOK, DeleteMessage, Note
    PROVE  TypeOK'
<1>1. PICK m \in rows :
          /\ announced < MaxAnnounced
          /\ rows' = rows \ {m}
          /\ requests' = requests \cup {Request("previous", "deleted", m.id)}
          /\ UNCHANGED <<used, pending, queue, announced, thread, created, worker,
                         history>>
  BY DEF DeleteMessage
<1>2. m.id \in MessageIDs /\ now \in Times
  BY <1>1, NowType DEF TypeOK, Messages
<1>3. Request("previous", "deleted", m.id) \in Requests
  BY <1>2 DEF Request, Requests
<1> QED
  BY <1>1, <1>3 DEF TypeOK, history, Note

LEMMA AnnounceDeletedType ==
    ASSUME TypeOK, AnnounceDeleted, Note
    PROVE  TypeOK'
<1>1. PICK r \in requests :
          /\ r.op = "previous"
          /\ requests' = requests \ {r}
          /\ \/ /\ \E prev \in Previous(r.id) : Announce(Event("deleted", r.id, prev))
                /\ UNCHANGED faults
             \/ Fault /\ Announce(Event("deleted", r.id, {}))
          /\ UNCHANGED <<rows, used, pending, thread, created, worker, arrivals>>
  BY DEF AnnounceDeleted
<1>2. r.id \in MessageIDs \cup {NoID}
  BY DEF TypeOK, Requests
<1>3. \A prev \in Previous(r.id) : prev \in SUBSET Messages
  BY DEF Previous, TypeOK
<1>4. PICK prev \in SUBSET Messages : Announce(Event("deleted", r.id, prev))
  <2>1. {} \in SUBSET Messages
    OBVIOUS
  <2> QED
    BY <1>1, <1>3, <2>1
<1>5. Event("deleted", r.id, prev) \in Events
  <2>1. announced < MaxAnnounced
    BY <1>4 DEF Announce
  <2> QED
    BY <1>2, <2>1, DeletionEventType
<1>6. faults' \in 0..MaxFaults
  BY <1>1 DEF Fault, TypeOK
<1> QED
  BY <1>1, <1>4, <1>5, <1>6, AnnounceType DEF TypeOK, Note

LEMMA DeleteThreadType ==
    ASSUME TypeOK, DeleteThread, Note
    PROVE  TypeOK'
<1>1. now \in Times
  BY NowType DEF DeleteThread, TypeOK
<1>2. Request("thread", "thread", NoID) \in Requests
  BY <1>1 DEF Request, Requests
<1> QED
  BY <1>2 DEF DeleteThread, TypeOK, Note

LEMMA AnnounceThreadDeletedType ==
    ASSUME TypeOK, AnnounceThreadDeleted, Note
    PROVE  TypeOK'
<1>1. PICK r \in requests :
          /\ requests' = requests \ {r}
          /\ Announce(Event("thread", NoID, {}))
          /\ UNCHANGED <<rows, used, pending, thread, created, worker, history>>
  BY DEF AnnounceThreadDeleted
<1>2. Event("thread", NoID, {}) \in Events
  BY <1>1, DeletionEventType DEF Announce
<1> QED
  BY <1>1, <1>2, AnnounceType DEF TypeOK, history, Note

LEMMA DeleteAccountType ==
    ASSUME TypeOK, DeleteAccount, Note
    PROVE  TypeOK'
<1>1. Event("account", NoID, {}) \in Events
  BY DeletionEventType DEF DeleteAccount, Announce
<1> QED
  BY <1>1, AnnounceType DEF DeleteAccount, TypeOK, messages, history, Note

LEMMA UpdateStatusType ==
    ASSUME TypeOK, UpdateStatus, Note
    PROVE  TypeOK'
<1>1. PICK t \in thread :
          /\ \/ /\ \E archived \in BOOLEAN :
                       thread' = {[t EXCEPT !.IsArchived = archived]}
                /\ UNCHANGED arrivals
             \/ /\ t.UnreadCount > 0
                /\ thread' = {[t EXCEPT !.UnreadCount = 0]}
                /\ arrivals' = 0
          /\ UNCHANGED <<messages, queue, announced, created, worker, faults>>
  BY DEF UpdateStatus
<1>2. /\ \A archived \in BOOLEAN : [t EXCEPT !.IsArchived = archived] \in Threads
      /\ [t EXCEPT !.UnreadCount = 0] \in Threads
  BY DEF TypeOK, Threads
<1> QED
  BY <1>1, <1>2 DEF TypeOK, messages, Note

----------------------------------------------------------------------------
\* The handlers.
LEMMA DeliverType ==
    ASSUME TypeOK, NEW w \in Workers, Deliver(w), Note
    PROVE  TypeOK'
<1>1. PICK event \in queue :
          /\ pending' = IF event.type \in {"sending", "delivered"}
                        THEN pending \cup {event} ELSE pending
          /\ queue' = queue \ {event} \/ queue' = queue
          /\ faults' = faults \/ Fault
          /\ \E task \in Load(event) :
                 \/ worker' = [worker EXCEPT ![w] = task]
                 \/ worker' = [worker EXCEPT ![w] = [task EXCEPT !.unarchive = FALSE]]
          /\ UNCHANGED <<rows, used, requests, announced, thread, created, arrivals>>
  BY DEF Deliver
<1>7. PICK task \in Load(event) :
          \/ worker' = [worker EXCEPT ![w] = task]
          \/ worker' = [worker EXCEPT ![w] = [task EXCEPT !.unarchive = FALSE]]
  BY <1>1
<1>2. /\ task \in Tasks
      /\ task.step \in {"insert", "activity"} => task.event \in Updates
  BY LoadType DEF TypeOK
<1>3. PICK new \in Tasks :
          /\ worker' = [worker EXCEPT ![w] = new]
          /\ new.step \in {"insert", "activity"} => new.event \in Updates
  <2>1. [task EXCEPT !.unarchive = FALSE] \in Tasks
    BY <1>2 DEF Tasks
  <2>2. /\ [task EXCEPT !.unarchive = FALSE].step = task.step
        /\ [task EXCEPT !.unarchive = FALSE].event = task.event
    BY <1>2 DEF Tasks
  <2> QED
    BY <1>2, <1>7, <2>1, <2>2
<1>4. /\ worker' \in [Workers -> Tasks]
      /\ \A v \in Workers : worker'[v].step \in {"insert", "activity"} =>
             worker'[v].event \in Updates
  BY <1>3 DEF TypeOK
<1>5. pending' \subseteq Updates
  BY <1>1 DEF TypeOK, Events, Deletions
<1>6. faults' \in 0..MaxFaults /\ queue' \subseteq Events
  BY <1>1 DEF Fault, TypeOK
<1> QED
  BY <1>1, <1>4, <1>5, <1>6 DEF TypeOK, Note

\* What the other handlers have in common: they end in Idle.
LEMMA DoneType ==
    ASSUME TypeOK, NEW w \in Workers, worker' = [worker EXCEPT ![w] = Idle]
    PROVE  /\ worker' \in [Workers -> Tasks]
           /\ \A v \in Workers : worker'[v].step \in {"insert", "activity"} =>
                  worker'[v].event \in Updates
  BY IdleType DEF TypeOK

LEMMA CreateThreadType ==
    ASSUME TypeOK, NEW w \in Workers, CreateThread(w), Note
    PROVE  TypeOK'
<1> DEFINE event == worker[w].event
           new == [id |-> created + 1, IsArchived |-> FALSE,
                   UnreadCount |-> Arrived(event), Status |-> event.type,
                   LastMessageID |-> event.id, OrderTimestamp |-> event.time]
<1>1. /\ \/ created < MaxThreads /\ created' = created + 1 /\ thread' = {new}
         \/ thread' = { Conflict(t, event) : t \in thread } /\ created' = created
      /\ arrivals' = arrivals + Arrived(event)
      /\ worker' = [worker EXCEPT ![w] = Idle]
      /\ UNCHANGED <<messages, queue, announced, faults>>
  BY DEF CreateThread
<1>2. event \in Updates
  BY DEF CreateThread, TypeOK
<1>3. /\ event.type \in Statuses /\ event.id \in MessageIDs /\ event.time \in Times
      /\ Arrived(event) \in Nat
  BY <1>2, ArrivedType DEF Updates
<1> HIDE DEF event
<1>4. created < MaxThreads => new \in Threads
  BY <1>3 DEF TypeOK, Threads
<1>5. thread' \subseteq Threads
  <2> HIDE DEF new
  <2>1. thread \subseteq Threads /\ \A t \in Threads : Conflict(t, event) \in Threads
    BY ConflictType DEF TypeOK
  <2> QED
    BY <1>1, <1>4, <2>1
<1>6. arrivals' \in Nat /\ created' \in 0..MaxThreads
  BY <1>1, <1>3 DEF TypeOK
<1> QED
  BY <1>1, <1>5, <1>6, DoneType DEF TypeOK, messages, Note

LEMMA UpdateActivityType ==
    ASSUME TypeOK, NEW w \in Workers, UpdateActivity(w), Note
    PROVE  TypeOK'
<1>1. worker[w] \in Tasks /\ worker[w].event \in Updates
  BY DEF UpdateActivity, TypeOK
<1>2. thread' \subseteq Threads
  <2>1. \A t \in Threads : ActivityUpdates(t, worker[w]) \in Threads
    BY <1>1, ActivityType
  <2>2. \/ thread' = thread
        \/ thread' = { ActivityUpdates(t, worker[w]) :
                         t \in { u \in thread : Loaded(u, w) } }
    BY DEF UpdateActivity
  <2>3. thread \subseteq Threads
    BY DEF TypeOK
  <2> QED
    BY <2>1, <2>2, <2>3
<1>3. arrivals' \in Nat
  BY ArrivedType DEF UpdateActivity, TypeOK
<1> QED
  BY <1>2, <1>3, DoneType DEF UpdateActivity, TypeOK, messages, Note

LEMMA ShowPreviousType ==
    ASSUME TypeOK, NEW w \in Workers, ShowPrevious(w), Note
    PROVE  TypeOK'
<1>1. PICK prev \in worker[w].event.prev :
          thread' = { IF ~Loaded(t, w) THEN t
                      ELSE [t EXCEPT !.LastMessageID = prev.id,
                                     !.Status = prev.status] : t \in thread }
  BY DEF ShowPrevious
<1>2. worker[w].event \in Events \cup {NoEvent}
  BY DEF TypeOK, Tasks
<1>3. worker[w].event.prev \in SUBSET Messages
  BY <1>2 DEF Events, Updates, Deletions, NoEvent
<1>4. prev.id \in MessageIDs /\ prev.status \in Statuses
  BY <1>3 DEF Messages
<1>5. \A t \in Threads :
          [t EXCEPT !.LastMessageID = prev.id, !.Status = prev.status] \in Threads
  BY <1>4 DEF Threads
<1>6. thread' \subseteq Threads
  BY <1>1, <1>5 DEF TypeOK
<1> QED
  BY <1>6, DoneType DEF ShowPrevious, TypeOK, messages, history, Note

LEMMA RemoveThreadType ==
    ASSUME TypeOK, NEW w \in Workers, RemoveThread(w), Note
    PROVE  TypeOK'
  BY DoneType DEF RemoveThread, TypeOK, messages, Note

LEMMA DeleteAllForUserType ==
    ASSUME TypeOK, NEW w \in Workers, DeleteAllForUser(w), Note
    PROVE  TypeOK'
<1>1. worker[w] \in Tasks /\ worker' = [worker EXCEPT ![w].step = "messages"]
  BY DEF DeleteAllForUser, TypeOK
<1>2. [worker[w] EXCEPT !.step = "messages"] \in Tasks
  BY <1>1 DEF Tasks
<1>3. [worker[w] EXCEPT !.step = "messages"].step = "messages"
  BY <1>1 DEF Tasks
<1>4. /\ worker' \in [Workers -> Tasks]
      /\ \A v \in Workers : worker'[v].step \in {"insert", "activity"} =>
             worker'[v].event \in Updates
  BY <1>1, <1>2, <1>3 DEF TypeOK
<1> QED
  BY <1>4 DEF DeleteAllForUser, TypeOK, messages, Note

LEMMA DeleteMessagesType ==
    ASSUME TypeOK, NEW w \in Workers, DeleteMessages(w), Note
    PROVE  TypeOK'
  BY DoneType DEF DeleteMessages, TypeOK, history, Note

LEMMA TypeInit == Init => TypeOK
  BY IdleType DEF Init, TypeOK, Times

LEMMA TypeNext == TypeOK /\ [Next]_vars => TypeOK'
<1> SUFFICES ASSUME TypeOK, [Next]_vars PROVE TypeOK'
  OBVIOUS
<1>1. CASE UNCHANGED vars
  BY <1>1 DEF vars, messages, history, TypeOK
<1>2. CASE Next
  <2>1. Note
    BY <1>2 DEF Next
  <2>2. CASE \E id \in MessageIDs, status \in {"pending", "received"} :
                 StoreMessage(id, status)
    BY <2>1, <2>2, StoreMessageType
  <2>3. CASE \E id \in MessageIDs : ReceiveMessage(id)
    BY <2>1, <2>3, ReceiveMessageType
  <2>4. CASE Fetch \/ ReportDelivered \/ UpdateMessage
    BY <2>1, <2>4, FetchType, ReportDeliveredType, UpdateMessageType
  <2>5. CASE DeleteMessage \/ DeleteThread \/ DeleteAccount \/ UpdateStatus
    BY <2>1, <2>5, DeleteMessageType, DeleteThreadType, DeleteAccountType,
       UpdateStatusType
  <2>6. CASE RequestNext
    BY <2>1, <2>6, AnnounceMessageType, StoreReceivedMessageType,
       AnnounceDeletedType, AnnounceThreadDeletedType DEF RequestNext
  <2>7. CASE \E w \in Workers : Deliver(w)
    BY <2>1, <2>7, DeliverType
  <2>8. CASE \E w \in Workers : HandlerNext(w)
    BY <2>1, <2>8, CreateThreadType, UpdateActivityType, ShowPreviousType,
       RemoveThreadType, DeleteAllForUserType, DeleteMessagesType DEF HandlerNext
  <2> QED
    BY <1>2, <2>2, <2>3, <2>4, <2>5, <2>6, <2>7, <2>8 DEF Next
<1> QED
  BY <1>1, <1>2

\* Every row, request, event and handler is what the code makes it: an event
\* that updates a thread names a message, and a thread shows one.
THEOREM TypeCorrect == Spec => []TypeOK
  BY TypeInit, TypeNext, PTL DEF Spec
----------------------------------------------------------------------------
(* The count. *)

LEMMA UnreadInit == Init => UnreadInv
  BY DEF Init, UnreadInv, UnreadIsExact

LEMMA UpdateStatusCounts ==
    ASSUME TypeOK, UnreadInv, UpdateStatus
    PROVE  UnreadInv'
<1>1. PICK t \in thread :
          \/ /\ \E archived \in BOOLEAN :
                    thread' = {[t EXCEPT !.IsArchived = archived]}
             /\ UNCHANGED arrivals
          \/ /\ thread' = {[t EXCEPT !.UnreadCount = 0]}
             /\ arrivals' = 0
  BY DEF UpdateStatus
<1>2. /\ t \in Threads /\ t.UnreadCount = arrivals
      /\ \A archived \in BOOLEAN :
             [t EXCEPT !.IsArchived = archived].UnreadCount = t.UnreadCount
      /\ [t EXCEPT !.UnreadCount = 0].UnreadCount = 0
  BY DEF TypeOK, Threads, UnreadInv, UnreadIsExact
<1>3. CASE thread' = {[t EXCEPT !.UnreadCount = 0]} /\ arrivals' = 0
  BY <1>2, <1>3 DEF UnreadInv, UnreadIsExact
<1>4. ASSUME NEW archived \in BOOLEAN,
             thread' = {[t EXCEPT !.IsArchived = archived]}, arrivals' = arrivals
      PROVE  UnreadInv'
  BY <1>2, <1>4 DEF UnreadInv, UnreadIsExact
<1> QED
  BY <1>1, <1>3, <1>4

\* A row that is created counts its own message; a conflict adds it.
LEMMA CreateThreadCounts ==
    ASSUME TypeOK, UnreadInv, NEW w \in Workers, CreateThread(w)
    PROVE  UnreadInv'
<1> DEFINE event == worker[w].event
<1>1. arrivals' = arrivals + Arrived(event)
  BY DEF CreateThread
<1>2. CASE thread = {}
  <2>1. PICK t : thread' = {t} /\ t.UnreadCount = Arrived(event)
    <3> DEFINE new == [id |-> created + 1, IsArchived |-> FALSE,
                       UnreadCount |-> Arrived(event), Status |-> event.type,
                       LastMessageID |-> event.id, OrderTimestamp |-> event.time]
    <3>1. thread' = {new}
      BY <1>2 DEF CreateThread
    <3>2. new.UnreadCount = Arrived(event)
      OBVIOUS
    <3> QED
      BY <3>1, <3>2
  <2>2. arrivals' = Arrived(event)
    BY <1>1, <1>2, ArrivedType DEF UnreadInv
  <2> QED
    BY <2>1, <2>2 DEF UnreadInv, UnreadIsExact
<1>3. CASE thread # {}
  <2>1. thread' = { Conflict(t, event) : t \in thread }
    BY <1>3 DEF CreateThread
  <2>2. \A t \in thread : Conflict(t, event).UnreadCount = arrivals + Arrived(event)
    BY ConflictType DEF TypeOK, UnreadInv, UnreadIsExact
  <2> HIDE DEF event
  <2> QED
    BY <1>1, <1>3, <2>1, <2>2 DEF UnreadInv, UnreadIsExact
<1> QED
  BY <1>2, <1>3

\* An update adds itself to the row as it is, not as it was loaded.
LEMMA UpdateActivityCounts ==
    ASSUME TypeOK, UnreadInv, NEW w \in Workers, UpdateActivity(w)
    PROVE  UnreadInv'
<1> DEFINE there == { t \in thread : Loaded(t, w) }
<1>1. CASE there = {}
  BY <1>1 DEF UpdateActivity, UnreadInv, UnreadIsExact
<1>2. CASE there # {}
  <2>1. /\ thread' = { ActivityUpdates(t, worker[w]) : t \in there }
        /\ arrivals' = arrivals + Arrived(worker[w].event)
    BY <1>2 DEF UpdateActivity
  <2>2. worker[w] \in Tasks /\ worker[w].event \in Updates
    BY DEF UpdateActivity, TypeOK
  <2>3. \A t \in there : ActivityUpdates(t, worker[w]).UnreadCount =
                             arrivals + Arrived(worker[w].event)
    BY <2>2, ActivityType DEF TypeOK, UnreadInv, UnreadIsExact
  <2>4. \A t, u \in there : t = u
    BY DEF UnreadInv
  <2> HIDE DEF there
  <2> QED
    BY <1>2, <2>1, <2>3, <2>4 DEF UnreadInv, UnreadIsExact
<1> QED
  BY <1>1, <1>2

LEMMA ShowPreviousCounts ==
    ASSUME TypeOK, UnreadInv, NEW w \in Workers, ShowPrevious(w)
    PROVE  UnreadInv'
<1>1. PICK prev \in worker[w].event.prev :
          thread' = { IF ~Loaded(t, w) THEN t
                      ELSE [t EXCEPT !.LastMessageID = prev.id,
                                     !.Status = prev.status] : t \in thread }
  BY DEF ShowPrevious
<1>2. \A t \in Threads :
          [t EXCEPT !.LastMessageID = prev.id,
                    !.Status = prev.status].UnreadCount = t.UnreadCount
  BY DEF Threads
<1>3. \A t \in thread' : t.UnreadCount = arrivals
  BY <1>1, <1>2 DEF TypeOK, UnreadInv, UnreadIsExact
<1> DEFINE Shown(t) == IF ~Loaded(t, w) THEN t
                       ELSE [t EXCEPT !.LastMessageID = prev.id,
                                      !.Status = prev.status]
<1>4. \A t, u \in thread' : t = u
  <2>1. thread' = { Shown(t) : t \in thread }
    BY <1>1
  <2>2. \A t, u \in thread : t = u
    BY DEF UnreadInv
  <2> HIDE DEF Shown
  <2> QED
    BY <2>1, <2>2
<1>5. thread' = {} => thread = {}
  BY <1>1
<1>6. arrivals' = arrivals
  BY DEF ShowPrevious, history
<1> QED
  BY <1>3, <1>4, <1>5, <1>6 DEF UnreadInv, UnreadIsExact

LEMMA UnreadNext == TypeOK /\ UnreadInv /\ [Next]_vars => UnreadInv'
<1> SUFFICES ASSUME TypeOK, UnreadInv, [Next]_vars PROVE UnreadInv'
  OBVIOUS
<1>1. CASE thread' = thread /\ arrivals' = arrivals
  BY <1>1 DEF UnreadInv, UnreadIsExact
<1>2. CASE DeleteThread
  BY <1>2 DEF DeleteThread, UnreadInv, UnreadIsExact
<1>3. CASE UpdateStatus
  BY <1>3, UpdateStatusCounts
<1>4. ASSUME NEW w \in Workers, HandlerNext(w)
      PROVE  UnreadInv'
  <2>1. CASE CreateThread(w)
    BY <2>1, CreateThreadCounts
  <2>2. CASE UpdateActivity(w)
    BY <2>2, UpdateActivityCounts
  <2>3. CASE ShowPrevious(w)
    BY <2>3, ShowPreviousCounts
  <2>4. CASE RemoveThread(w)
    BY <2>4 DEF RemoveThread, UnreadInv, UnreadIsExact
  <2>5. CASE DeleteAllForUser(w)
    BY <2>5 DEF DeleteAllForUser, UnreadInv, UnreadIsExact
  <2>6. CASE DeleteMessages(w)
    BY <1>1, <2>6 DEF DeleteMessages, history
  <2> QED
    BY <1>4, <2>1, <2>2, <2>3, <2>4, <2>5, <2>6 DEF HandlerNext
<1>5. CASE UNCHANGED vars
  BY <1>1, <1>5 DEF vars, history
<1>6. CASE \E id \in MessageIDs :
               \/ \E status \in {"pending", "received"} : StoreMessage(id, status)
               \/ ReceiveMessage(id)
  BY <1>1, <1>6 DEF StoreMessage, ReceiveMessage, history
<1>7. CASE Fetch \/ ReportDelivered \/ UpdateMessage \/ DeleteMessage \/ DeleteAccount
  BY <1>1, <1>7 DEF Fetch, ReportDelivered, UpdateMessage, DeleteMessage,
                    DeleteAccount, history
<1>8. CASE RequestNext
  BY <1>1, <1>8 DEF RequestNext, AnnounceMessage, StoreReceivedMessage,
                    AnnounceDeleted, AnnounceThreadDeleted, history
<1>9. CASE \E w \in Workers : Deliver(w)
  BY <1>1, <1>9 DEF Deliver
<1> QED
  BY <1>2, <1>3, <1>4, <1>5, <1>6, <1>7, <1>8, <1>9 DEF Next

\* No arrival is lost from the count of unread messages or counted twice, for
\* any number of handlers that load, insert and update the same row.
THEOREM UnreadCountIsExact == Spec => []UnreadIsExact
<1>1. Init => TypeOK /\ UnreadInv
  BY TypeInit, UnreadInit
<1>2. TypeOK /\ UnreadInv /\ [Next]_vars => (TypeOK /\ UnreadInv)'
  BY TypeNext, UnreadNext
<1>3. UnreadInv => UnreadIsExact
  BY DEF UnreadInv
<1> QED
  BY <1>1, <1>2, <1>3, PTL DEF Spec

----------------------------------------------------------------------------
(* The archive. *)

\* What ArchivedByChoice says of a step.
ChosenOrBrought ==
    \A t \in thread, u \in thread' :
        t.id = u.id /\ t.IsArchived # u.IsArchived =>
            \/ UpdateStatus
            \/ \E w \in Workers : worker[w].unarchive /\ t.IsArchived

LEMMA CreateThreadKeepsArchive ==
    ASSUME TypeOK, UnreadInv, NEW w \in Workers, CreateThread(w)
    PROVE  ChosenOrBrought
<1> DEFINE event == worker[w].event
<1>1. CASE thread = {}
  BY <1>1 DEF ChosenOrBrought
<1>2. CASE thread # {}
  <2>1. thread' = { Conflict(t, event) : t \in thread }
    BY <1>2 DEF CreateThread
  <2>2. \A t \in thread : Conflict(t, event).IsArchived = t.IsArchived
    BY DEF Conflict, TypeOK, Threads
  <2>3. \A t, u \in thread : t = u
    BY DEF UnreadInv
  <2> HIDE DEF event
  <2> QED
    BY <2>1, <2>2, <2>3 DEF ChosenOrBrought
<1> QED
  BY <1>1, <1>2

LEMMA UpdateActivityKeepsArchive ==
    ASSUME TypeOK, UnreadInv, NEW w \in Workers, UpdateActivity(w)
    PROVE  ChosenOrBrought
<1> DEFINE there == { t \in thread : Loaded(t, w) }
<1>1. \A t, u \in thread : t = u
  BY DEF UnreadInv
<1>2. CASE there = {}
  BY <1>1, <1>2 DEF UpdateActivity, ChosenOrBrought
<1>3. CASE there # {}
  <2>1. thread' = { ActivityUpdates(t, worker[w]) : t \in there }
    BY <1>3 DEF UpdateActivity
  <2>2. ASSUME NEW t \in thread, NEW u \in thread', t.IsArchived # u.IsArchived
        PROVE  worker[w].unarchive /\ t.IsArchived
    <3>1. u = ActivityUpdates(t, worker[w])
      BY <1>1, <2>1
    <3>2. t.IsArchived \in BOOLEAN /\ t \in Threads
      BY DEF TypeOK, Threads
    <3>3. u.IsArchived = IF worker[w].unarchive THEN FALSE ELSE t.IsArchived
      BY <3>1, <3>2 DEF ActivityUpdates, Threads
    <3> QED
      BY <2>2, <3>2, <3>3
  <2> QED
    BY <2>2 DEF ChosenOrBrought
<1> QED
  BY <1>2, <1>3

LEMMA ShowPreviousKeepsArchive ==
    ASSUME TypeOK, UnreadInv, NEW w \in Workers, ShowPrevious(w)
    PROVE  ChosenOrBrought
<1>1. PICK prev \in worker[w].event.prev :
          thread' = { IF ~Loaded(t, w) THEN t
                      ELSE [t EXCEPT !.LastMessageID = prev.id,
                                     !.Status = prev.status] : t \in thread }
  BY DEF ShowPrevious
<1>2. \A t \in Threads :
          [t EXCEPT !.LastMessageID = prev.id,
                    !.Status = prev.status].IsArchived = t.IsArchived
  BY DEF Threads
<1>3. \A u \in thread' : \E t \in thread : u.IsArchived = t.IsArchived
  BY <1>1, <1>2 DEF TypeOK
<1>4. \A t, u \in thread : t = u
  BY DEF UnreadInv
<1> QED
  BY <1>3, <1>4 DEF ChosenOrBrought

\* No handler archives a thread, and only one that saw an arrival for an archived
\* thread brings one back: an update of a row that was loaded before the user
\* chose leaves the choice alone.
THEOREM ArchiveIsChosen == Spec => ArchivedByChoice
<1>1. TypeOK /\ UnreadInv /\ [Next]_vars => [ChosenOrBrought]_vars
  <2> SUFFICES ASSUME TypeOK, UnreadInv, Next PROVE ChosenOrBrought
    OBVIOUS
  <2>1. \A t, u \in thread : t = u
    BY DEF UnreadInv
  <2>2. CASE UNCHANGED thread \/ thread' = {}
    BY <2>1, <2>2 DEF ChosenOrBrought
  <2>3. CASE UpdateStatus
    BY <2>3 DEF ChosenOrBrought
  <2>4. ASSUME NEW w \in Workers, HandlerNext(w) PROVE ChosenOrBrought
    <3>1. CASE CreateThread(w)
      BY <3>1, CreateThreadKeepsArchive
    <3>2. CASE UpdateActivity(w)
      BY <3>2, UpdateActivityKeepsArchive
    <3>3. CASE ShowPrevious(w)
      BY <3>3, ShowPreviousKeepsArchive
    <3>4. CASE RemoveThread(w)
      BY <2>1, <3>4 DEF RemoveThread, ChosenOrBrought
    <3>5. CASE DeleteAllForUser(w) \/ DeleteMessages(w)
      BY <2>2, <3>5 DEF DeleteAllForUser, DeleteMessages
    <3> QED
      BY <2>4, <3>1, <3>2, <3>3, <3>4, <3>5 DEF HandlerNext
  <2>5. CASE \E id \in MessageIDs :
                 \/ \E status \in {"pending", "received"} : StoreMessage(id, status)
                 \/ ReceiveMessage(id)
    BY <2>2, <2>5 DEF StoreMessage, ReceiveMessage
  <2>6. CASE Fetch \/ ReportDelivered \/ UpdateMessage \/ DeleteMessage
                \/ DeleteThread \/ DeleteAccount
    BY <2>2, <2>6 DEF Fetch, ReportDelivered, UpdateMessage, DeleteMessage,
                      DeleteThread, DeleteAccount
  <2>7. CASE RequestNext
    BY <2>2, <2>7 DEF RequestNext, AnnounceMessage, StoreReceivedMessage,
                      AnnounceDeleted, AnnounceThreadDeleted
  <2>8. CASE \E w \in Workers : Deliver(w)
    BY <2>2, <2>8 DEF Deliver
  <2> QED
    BY <2>3, <2>4, <2>5, <2>6, <2>7, <2>8 DEF Next
<1>2. Init => TypeOK /\ UnreadInv
  BY TypeInit, UnreadInit
<1>3. TypeOK /\ UnreadInv /\ [Next]_vars => (TypeOK /\ UnreadInv)'
  BY TypeNext, UnreadNext
<1> QED
  BY <1>1, <1>2, <1>3, PTL DEF Spec, ArchivedByChoice, ChosenOrBrought
----------------------------------------------------------------------------
(* The list of conversations, as long as events are handled in their order, *)
(* deletions overlap with nothing and nothing goes wrong.                   *)

\* The events that have not been handled to their end.
Words == queue \cup InHand

IsUpdate(e) == e.type \in Statuses

\* A message is stored with the status, or is about to get it.
Fits(stored, asked, told, id, status) ==
    \/ \E m \in stored : m.id = id /\ m.status = status
    \/ status = "received" /\ \E r \in asked : r.op = "store" /\ r.id = id
    \/ /\ status = "delivered"
       /\ \E m \in stored : m.id = id /\ m.status = "sending"
       /\ \E e \in told : e.type = "delivered" /\ e.id = id

\* A deletion has everything to itself.
Alone ==
    /\ \A r \in requests : r.op \in {"previous", "thread"} =>
           requests = {r} /\ Words = {} /\ pending = {}
    /\ \A e \in Words : e.type \in {"deleted", "thread", "account"} =>
           requests = {} /\ Words = {e} /\ pending = {}

RowsAreKnown ==
    /\ \A m, n \in rows : m.id = n.id => m = n
    /\ \A m \in rows : m.id \in used

\* Of a message that is not yet fetched, only its arrival is told.
ArrivalIsFirst ==
    \A m \in rows : m.status \in {"pending", "received"} =>
        \A e \in Words \cup pending : IsUpdate(e) /\ e.id = m.id => e.type = m.status

RequestsFit ==
    \A r \in requests :
        /\ r.op \in {"announce", "store", "previous"} => r.id \in used
        /\ r.op = "announce" =>
               /\ \E m \in rows : m.id = r.id /\ m.status = r.type
               /\ \A e \in Words \cup pending : IsUpdate(e) => e.id # r.id
               /\ \A t \in thread : t.LastMessageID # r.id
        /\ r.op \in {"store", "previous"} => \A m \in rows : m.id # r.id
        /\ r.op = "store" =>
               \A e \in Words \cup pending :
                   IsUpdate(e) /\ e.id = r.id => e.type = "received"
        /\ \A q \in requests :
               /\ r.op \in {"announce", "store"} /\ q.op \in {"announce", "store"}
               /\ q.id = r.id
               => q = r

\* What is told and shown is known, and told in its order.
InOrder ==
    /\ \A e \in Words \cup pending :
           IsUpdate(e) \/ e.type = "deleted" => e.id \in used
    /\ \A e \in Words : e.time <= announced
    /\ \A t \in thread : t.LastMessageID \in used
    /\ \A t \in thread : t.OrderTimestamp <= announced
    /\ \A t \in thread, e \in Words : t.OrderTimestamp <= e.time
    /\ \A e \in InHand, f \in queue : e.time <= f.time
    /\ \A e \in InHand : e \notin queue
    /\ \A e \in pending : e.type \in {"sending", "delivered"}

\* A delivery is the last that is told of a message.
DeliveryIsLast ==
    /\ \A e, f \in queue :
           e.type = "delivered" /\ IsUpdate(f) /\ f.id = e.id /\ e # f =>
               f.time < e.time
    /\ \A e \in InHand \cup pending, f \in queue :
           e.type = "delivered" /\ IsUpdate(f) => f.id # e.id
    /\ \A e \in pending, t \in thread :
           e.type = "delivered" /\ t.LastMessageID = e.id =>
               e \in InHand \/ t.Status = "delivered"
    /\ \A t \in thread, f \in Words :
           t.Status = "delivered" /\ IsUpdate(f) => f.id # t.LastMessageID

OneAtATime ==
    /\ \A v, w \in Workers : worker[v] # Idle /\ worker[w] # Idle => v = w
    /\ \A e, f \in InHand \cup pending : e = f

\* What a handler has loaded is still there.
HandsFit ==
    \A w \in Workers :
        /\ worker[w].step = "insert" => thread = {}
        /\ worker[w].step \in {"activity", "preview"} => thread # {}
        /\ worker[w].step \in {"activity", "preview", "remove"} =>
               \A t \in thread : \E l \in worker[w].loaded : l.id = t.id
        /\ worker[w].step \in {"preview", "remove"} => worker[w].event.type = "deleted"
        /\ worker[w].step = "preview" => worker[w].event.prev # {}
        /\ worker[w].step = "remove" => worker[w].event.prev = {}
        /\ worker[w].step = "messages" =>
               thread = {} /\ worker[w].event.type \in {"thread", "account"}
        /\ worker[w].step = "account" => worker[w].event.type = "account"

DeletionsFit ==
    /\ \A e \in Words : e.type = "deleted" =>
           /\ e.prev \subseteq rows
           /\ e.prev = {} <=> rows = {}
           /\ \A m \in rows : m.id # e.id
    /\ \A e \in Words : e.type = "thread" => thread = {}
    /\ \A r \in requests : r.op = "thread" => thread = {}

\* The last that is told of a message is what it is.
LastWordFits ==
    \A e \in Words :
        IsUpdate(e) /\ (\A f \in Words : f.id = e.id => f.time <= e.time) =>
            Fits(rows, requests, queue \cup pending, e.id, e.type)

\* A thread shows what a message is, or something is still to be told of it.
ShownFits ==
    \A t \in thread :
        \/ \E f \in Words : /\ IsUpdate(f) \/ f.type = "deleted"
                            /\ f.id = t.LastMessageID
        \/ \E r \in requests : r.op = "previous" /\ r.id = t.LastMessageID
        \/ Fits(rows, requests, queue \cup pending, t.LastMessageID, t.Status)

\* All messages of the conversation are about to be deleted.
Emptying ==
    \/ \E r \in requests : r.op = "thread"
    \/ \E e \in Words : e.type = "thread"
    \/ \E w \in Workers : worker[w].step = "messages"

MessagesAreShown ==
    /\ rows # {} => \/ thread # {} \/ Emptying
                    \/ \E e \in Words : IsUpdate(e)
                    \/ \E r \in requests : r.op = "announce"
    /\ (\E r \in requests : r.op = "store") =>
           thread # {} \/ \E e \in Words : IsUpdate(e)

Mirrors ==
    /\ Alone
    /\ RowsAreKnown /\ ArrivalIsFirst /\ RequestsFit
    /\ InOrder /\ DeliveryIsLast /\ OneAtATime /\ HandsFit
    /\ DeletionsFit /\ LastWordFits /\ ShownFits /\ MessagesAreShown

Undisturbed == orderly /\ faults = 0

\* The sets of what is under way are finite.
UnderWayIsFinite ==
    IsFiniteSet(requests) /\ IsFiniteSet(queue) /\ IsFiniteSet(pending)

MirrorInv == UnderWayIsFinite /\ (Undisturbed => Mirrors)

----------------------------------------------------------------------------
(* What is under way. *)

LEMMA InHandIsFinite == IsFiniteSet(InHand)
<1> DEFINE busy == { v \in Workers : worker[v] # Idle }
           held == [v \in busy |-> worker[v].event]
<1>1. busy \in SUBSET Workers
  OBVIOUS
<1>2. held \in Surjection(busy, InHand)
  BY DEF InHand, Surjection
<1>3. IsFiniteSet(busy)
  <2>1. IsFiniteSet(Workers)
    BY ConversationAssumption
  <2> HIDE DEF busy
  <2> QED
    BY <1>1, <2>1, FS_Subset
<1> HIDE DEF busy, held
<1> QED
  BY <1>2, <1>3, FS_Surjection

\* Two sets of which one element is all there is.
LEMMA OnlyOne ==
    ASSUME NEW S, NEW T, IsFiniteSet(S), IsFiniteSet(T),
           Cardinality(S) + Cardinality(T) <= 1, NEW x \in S
    PROVE  S = {x} /\ T = {}
<1>1. /\ Cardinality(S) \in Nat /\ Cardinality(T) \in Nat
      /\ IsFiniteSet(S \ {x}) /\ Cardinality(S \ {x}) = Cardinality(S) - 1
  BY FS_CardinalityType, FS_RemoveElement
<1>2. Cardinality(S \ {x}) \in Nat
  BY <1>1, FS_CardinalityType
<1>3. Cardinality(S \ {x}) = 0 /\ Cardinality(T) = 0
  BY <1>1, <1>2
<1>4. S \ {x} = {} /\ T = {}
  BY <1>1, <1>3, FS_EmptySet
<1> QED
  BY <1>4

LEMMA NoOverlap ==
    ASSUME TypeOK, UnderWayIsFinite, ~Overlap
    PROVE  Alone
<1> DEFINE told == queue \cup InHand \cup pending
<1>1. IsFiniteSet(told) /\ IsFiniteSet(requests)
  BY InHandIsFinite, FS_Union DEF UnderWayIsFinite
<1>2. Cardinality(told) \in Nat /\ Cardinality(requests) \in Nat
  BY <1>1, FS_CardinalityType
<1>3. ASSUME NEW r \in requests, r.op \in {"previous", "thread"}
      PROVE  requests = {r} /\ Words = {} /\ pending = {}
  <2>1. Cardinality(requests) + Cardinality(told) <= 1
    BY <1>2, <1>3 DEF Overlap
  <2>2. requests = {r} /\ told = {}
    <3> HIDE DEF told
    <3> QED
      BY <1>1, <2>1, OnlyOne
  <2> QED
    BY <2>2 DEF Words
<1>4. ASSUME NEW e \in Words, e.type \in {"deleted", "thread", "account"}
      PROVE  requests = {} /\ Words = {e} /\ pending = {}
  <2>1. Cardinality(told) + Cardinality(requests) <= 1
    BY <1>2, <1>4 DEF Overlap, Words
  <2>2. e \in told
    BY DEF Words
  <2>3. told = {e} /\ requests = {}
    <3> HIDE DEF told
    <3> QED
      BY <1>1, <2>1, <2>2, OnlyOne
  <2>4. Words = {e}
    BY <2>3 DEF Words
  <2>5. pending = {}
    <3>1. e \in queue \cup InHand
      BY DEF Words
    <3>2. pending \subseteq {e}
      BY <2>3
    <3>3. \A f \in pending : f.type \in Statuses
      BY DEF TypeOK, Updates
    <3> QED
      BY <3>2, <3>3, <1>4 DEF Statuses
  <2> QED
    BY <2>3, <2>4, <2>5
<1> QED
  BY <1>3, <1>4 DEF Alone

LEMMA UnderWayNext == UnderWayIsFinite /\ [Next]_vars => UnderWayIsFinite'
<1> SUFFICES ASSUME UnderWayIsFinite, [Next]_vars PROVE UnderWayIsFinite'
  OBVIOUS
<1>1. /\ \/ \E r : requests' \subseteq requests \cup {r}
         \/ requests' \subseteq requests
      /\ \/ \E e : queue' \subseteq queue \cup {e}
         \/ queue' \subseteq queue
      /\ \/ \E e : pending' \subseteq pending \cup {e}
         \/ pending' \subseteq pending
  <2>1. CASE UNCHANGED vars
    BY <2>1 DEF vars, messages
  <2>2. CASE \E id \in MessageIDs :
                 \/ \E status \in {"pending", "received"} : StoreMessage(id, status)
                 \/ ReceiveMessage(id)
    BY <2>2 DEF StoreMessage, ReceiveMessage, Announce
  <2>3. CASE Fetch \/ ReportDelivered \/ UpdateMessage
    BY <2>3 DEF Fetch, ReportDelivered, UpdateMessage, Announce, messages
  <2>4. CASE DeleteMessage \/ DeleteThread \/ DeleteAccount \/ UpdateStatus
    BY <2>4 DEF DeleteMessage, DeleteThread, DeleteAccount, UpdateStatus, Announce,
                messages
  <2>5. CASE AnnounceMessage
    BY <2>5 DEF AnnounceMessage, Announce
  <2>6. CASE StoreReceivedMessage
    BY <2>6 DEF StoreReceivedMessage
  <2>7. CASE AnnounceDeleted \/ AnnounceThreadDeleted
    BY <2>7 DEF AnnounceDeleted, AnnounceThreadDeleted, Announce
  <2>8. ASSUME NEW w \in Workers, Deliver(w)
        PROVE  <1>1!:
    <3>1. PICK e \in queue :
              /\ pending' = IF e.type \in {"sending", "delivered"}
                            THEN pending \cup {e} ELSE pending
              /\ queue' = queue \ {e} \/ queue' = queue
              /\ requests' = requests
      BY <2>8 DEF Deliver
    <3> QED
      BY <3>1
  <2>9. CASE \E w \in Workers : HandlerNext(w)
    BY <2>9 DEF HandlerNext, CreateThread, UpdateActivity, ShowPrevious,
                RemoveThread, DeleteAllForUser, DeleteMessages, messages
  <2> QED
    BY <2>1, <2>2, <2>3, <2>4, <2>5, <2>6, <2>7, <2>8, <2>9 DEF Next, RequestNext
<1> QED
  BY <1>1, FS_Subset, FS_AddElement DEF UnderWayIsFinite

\* What is undisturbed has been so before.
LEMMA StaysUndisturbed ==
    ASSUME TypeOK, UnderWayIsFinite, Next, Undisturbed'
    PROVE  Undisturbed /\ ~Overtakes /\ Alone'
<1>1. orderly /\ ~Overtakes /\ ~Overlap'
  BY DEF Next, Note, Undisturbed
<1>2. faults \in Nat /\ faults' = 0
  BY DEF TypeOK, Undisturbed
<1>3. faults' = faults \/ faults' = faults + 1
  <2>1. CASE \E id \in MessageIDs :
                 \/ \E status \in {"pending", "received"} : StoreMessage(id, status)
                 \/ ReceiveMessage(id)
    BY <2>1 DEF StoreMessage, ReceiveMessage, history
  <2>2. CASE Fetch \/ ReportDelivered \/ UpdateMessage \/ DeleteMessage
                \/ DeleteThread \/ DeleteAccount \/ UpdateStatus
    BY <2>2 DEF Fetch, ReportDelivered, UpdateMessage, DeleteMessage, DeleteThread,
                DeleteAccount, UpdateStatus, history
  <2>3. CASE RequestNext
    BY <2>3 DEF RequestNext, AnnounceMessage, StoreReceivedMessage, AnnounceDeleted,
                AnnounceThreadDeleted, Fault, history
  <2>4. CASE \E w \in Workers : Deliver(w)
    BY <2>4 DEF Deliver, Fault
  <2>5. CASE \E w \in Workers : HandlerNext(w)
    BY <2>5 DEF HandlerNext, CreateThread, UpdateActivity, ShowPrevious,
                RemoveThread, DeleteAllForUser, DeleteMessages, history
  <2> QED
    BY <2>1, <2>2, <2>3, <2>4, <2>5 DEF Next
<1>4. UnderWayIsFinite'
  BY UnderWayNext
<1>5. Alone'
  <2>1. TypeOK'
    BY TypeNext
  <2>2. TypeOK /\ UnderWayIsFinite /\ ~Overlap => Alone
    BY NoOverlap
  <2> QED
    BY <1>1, <1>4, <2>1, <2>2, NoOverlap, PTL
<1> QED
  BY <1>1, <1>2, <1>3, <1>5 DEF Undisturbed

----------------------------------------------------------------------------
(* The requests keep the list right. *)

LEMMA EventFields ==
    ASSUME NEW type, NEW id, NEW prev
    PROVE  /\ Event(type, id, prev).type = type /\ Event(type, id, prev).id = id
           /\ Event(type, id, prev).time = announced + 1
           /\ Event(type, id, prev).prev = prev
  BY DEF Event, now

LEMMA TimesAreNatural ==
    ASSUME TypeOK
    PROVE  /\ announced \in Nat
           /\ \A e \in Words \cup pending : e.time \in Nat
           /\ \A t \in thread : t.OrderTimestamp \in Nat
<1>1. \A e \in Events \cup {NoEvent} : e.time \in Nat
  BY DEF Events, Updates, Deletions, NoEvent, Times
<1>2. Words \subseteq Events \cup {NoEvent}
  BY DEF Words, InHand, TypeOK, Tasks
<1>3. pending \subseteq Events
  BY DEF TypeOK, Events
<1>4. announced \in Nat /\ \A t \in thread : t.OrderTimestamp \in Nat
  BY DEF TypeOK, Threads, Times
<1> QED
  BY <1>1, <1>2, <1>3, <1>4

\* A handler that is at rest holds nothing.
LEMMA NoHandsAtWork ==
    ASSUME InHand = {}
    PROVE  \A w \in Workers : worker[w] = Idle /\ worker[w].step = "idle"
  BY IdleType DEF InHand

LEMMA HandsKept ==
    ASSUME UNCHANGED worker
    PROVE  InHand' = InHand
  BY DEF InHand

LEMMA HandsStillFit ==
    ASSUME HandsFit, UNCHANGED <<worker, thread>>
    PROVE  HandsFit'
  BY DEF HandsFit

LEMMA StoreMessageMirrors ==
    ASSUME TypeOK, Mirrors, Alone', NEW id \in MessageIDs,
           NEW status \in {"pending", "received"}, StoreMessage(id, status)
    PROVE  Mirrors'
<1> DEFINE m == [id |-> id, status |-> status, time |-> now]
           r == Request("announce", status, id)
<1>1. /\ id \notin used /\ used' = used \cup {id}
      /\ rows' = rows \cup {m} /\ requests' = requests \cup {r}
      /\ UNCHANGED <<pending, queue, announced, thread, worker>>
  BY DEF StoreMessage
<1>2. m.id = id /\ m.status = status /\ r.op = "announce" /\ r.type = status /\ r.id = id
  BY DEF Request
<1>3. InHand' = InHand /\ Words' = Words
  BY <1>1, HandsKept DEF Words
<1> HIDE DEF m, r
<1>4. RowsAreKnown'
  BY <1>1, <1>2 DEF Mirrors, RowsAreKnown
<1>5. ArrivalIsFirst'
  BY <1>1, <1>2, <1>3 DEF Mirrors, ArrivalIsFirst, InOrder
<1>6. RequestsFit'
  BY <1>1, <1>2, <1>3 DEF Mirrors, RequestsFit, InOrder
<1>7. InOrder'
  BY <1>1, <1>2, <1>3 DEF Mirrors, InOrder
<1>8. DeliveryIsLast' /\ OneAtATime' /\ HandsFit'
  BY <1>1, <1>3, HandsStillFit DEF Mirrors, DeliveryIsLast, OneAtATime
<1>9. DeletionsFit'
  BY <1>1, <1>2, <1>3 DEF Alone, Mirrors, DeletionsFit
<1>10. LastWordFits'
  BY <1>1, <1>3 DEF Mirrors, LastWordFits, Fits
<1>11. ShownFits'
  BY <1>1, <1>3 DEF Mirrors, ShownFits, Fits
<1>12. MessagesAreShown'
  BY <1>1, <1>2, <1>3 DEF Mirrors, MessagesAreShown
<1> QED
  BY <1>4, <1>5, <1>6, <1>7, <1>8, <1>9, <1>10, <1>11, <1>12 DEF Mirrors

LEMMA AnnounceMessageMirrors ==
    ASSUME TypeOK, Mirrors, Alone', AnnounceMessage
    PROVE  Mirrors'
<1>1. PICK r \in requests :
          /\ r.op = "announce"
          /\ requests' = requests \ {r}
          /\ Announce(Event(r.type, r.id, {}))
          /\ UNCHANGED <<rows, used, pending, thread, created, worker, history>>
  BY DEF AnnounceMessage
<1> DEFINE e == Event(r.type, r.id, {})
<1>2. /\ e.type = r.type /\ e.id = r.id /\ e.time = announced + 1
      /\ r.type \in {"pending", "received"} /\ IsUpdate(e)
  BY <1>1, EventFields DEF TypeOK, Requests, Statuses, IsUpdate
<1>3. queue' = queue \cup {e} /\ announced' = announced + 1
  BY <1>1 DEF Announce, now
<1>4. InHand' = InHand /\ Words' = Words \cup {e}
  BY <1>1, <1>3, HandsKept DEF Words
<1> HIDE DEF e
<1>5. RowsAreKnown'
  BY <1>1 DEF Mirrors, RowsAreKnown
<1>6. ArrivalIsFirst'
  BY <1>1, <1>2, <1>4 DEF Mirrors, ArrivalIsFirst, RequestsFit, RowsAreKnown
<1>7. RequestsFit'
  BY <1>1, <1>2, <1>4 DEF Mirrors, RequestsFit
<1>8. InOrder'
  BY <1>1, <1>2, <1>3, <1>4, TimesAreNatural DEF Mirrors, InOrder, RequestsFit, Words
<1>9. DeliveryIsLast'
  <2>1. /\ \A f \in Words \cup pending : IsUpdate(f) => f.id # e.id
        /\ \A t \in thread : t.LastMessageID # e.id
        /\ e.type # "delivered"
    BY <1>1, <1>2 DEF Mirrors, RequestsFit
  <2>2. \A f \in InHand \cup queue \cup pending : f.type = "delivered" => f.id # e.id
    BY <2>1 DEF IsUpdate, Statuses, Words
  <2> QED
    BY <1>1, <1>3, <1>4, <2>1, <2>2 DEF Mirrors, DeliveryIsLast
<1>10. OneAtATime' /\ HandsFit'
  BY <1>1, <1>4, HandsStillFit DEF Mirrors, OneAtATime
<1>11. DeletionsFit'
  BY <1>1, <1>2, <1>4 DEF Mirrors, DeletionsFit, Alone, IsUpdate, Statuses
<1>12. LastWordFits'
  BY <1>1, <1>2, <1>3, <1>4 DEF Mirrors, LastWordFits, Fits, RequestsFit
<1>13. ShownFits'
  BY <1>1, <1>3, <1>4 DEF Mirrors, ShownFits, Fits
<1>14. MessagesAreShown'
  BY <1>1, <1>2, <1>4 DEF Mirrors, MessagesAreShown
<1> QED
  BY <1>5, <1>6, <1>7, <1>8, <1>9, <1>10, <1>11, <1>12, <1>13, <1>14 DEF Mirrors

LEMMA ReceiveMessageMirrors ==
    ASSUME TypeOK, Mirrors, Alone', NEW id \in MessageIDs, ReceiveMessage(id)
    PROVE  Mirrors'
<1> DEFINE e == Event("received", id, {})
           r == Request("store", "received", id)
<1>1. /\ id \notin used /\ used' = used \cup {id}
      /\ requests' = requests \cup {r} /\ queue' = queue \cup {e}
      /\ announced' = announced + 1
      /\ UNCHANGED <<rows, pending, thread, worker>>
  BY DEF ReceiveMessage, Announce, now
<1>2. /\ e.type = "received" /\ e.id = id /\ e.time = announced + 1 /\ IsUpdate(e)
      /\ r.op = "store" /\ r.id = id
  BY EventFields DEF IsUpdate, Statuses, Request
<1>3. InHand' = InHand /\ Words' = Words \cup {e}
  BY <1>1, HandsKept DEF Words
<1> HIDE DEF e, r
<1>4. RowsAreKnown'
  BY <1>1 DEF Mirrors, RowsAreKnown
<1>5. ArrivalIsFirst'
  BY <1>1, <1>2, <1>3 DEF Mirrors, ArrivalIsFirst, RowsAreKnown
<1>6. RequestsFit'
  BY <1>1, <1>2, <1>3 DEF Mirrors, RequestsFit, InOrder, RowsAreKnown
<1>7. InOrder'
  BY <1>1, <1>2, <1>3, TimesAreNatural DEF Mirrors, InOrder, Words
<1>8. DeliveryIsLast'
  <2>1. /\ \A f \in Words \cup pending : IsUpdate(f) => f.id # e.id
        /\ \A t \in thread : t.LastMessageID # e.id
        /\ e.type # "delivered"
    BY <1>1, <1>2 DEF Mirrors, InOrder
  <2>2. \A f \in InHand \cup queue \cup pending : f.type = "delivered" => f.id # e.id
    BY <2>1 DEF IsUpdate, Statuses, Words
  <2> QED
    BY <1>1, <1>3, <2>1, <2>2 DEF Mirrors, DeliveryIsLast
<1>9. OneAtATime' /\ HandsFit'
  BY <1>1, <1>3, HandsStillFit DEF Mirrors, OneAtATime
<1>10. DeletionsFit'
  BY <1>1, <1>2, <1>3 DEF Mirrors, DeletionsFit, Alone
<1>11. LastWordFits'
  BY <1>1, <1>2, <1>3 DEF Mirrors, LastWordFits, Fits
<1>12. ShownFits'
  BY <1>1, <1>3 DEF Mirrors, ShownFits, Fits
<1>13. MessagesAreShown'
  BY <1>1, <1>2, <1>3 DEF Mirrors, MessagesAreShown
<1> QED
  BY <1>4, <1>5, <1>6, <1>7, <1>8, <1>9, <1>10, <1>11, <1>12, <1>13 DEF Mirrors

LEMMA StoreReceivedMessageMirrors ==
    ASSUME TypeOK, Mirrors, Alone', faults' = 0, StoreReceivedMessage
    PROVE  Mirrors'
<1>1. PICK r \in requests :
          /\ r.op = "store"
          /\ requests' = requests \ {r}
          /\ \/ rows' = rows \cup
                    {[id |-> r.id, status |-> "received", time |-> r.time]}
             \/ Fault
          /\ UNCHANGED <<used, pending, queue, announced, thread, created, worker,
                         arrivals>>
  BY DEF StoreReceivedMessage
<1> DEFINE m == [id |-> r.id, status |-> "received", time |-> r.time]
<1>2. m.id = r.id /\ m.status = "received"
  OBVIOUS
<1>3. rows' = rows \cup {m}
  BY <1>1 DEF Fault, TypeOK
<1>4. InHand' = InHand /\ Words' = Words
  BY <1>1, HandsKept DEF Words
<1> HIDE DEF m
<1>5. RowsAreKnown'
  BY <1>1, <1>2, <1>3 DEF Mirrors, RowsAreKnown, RequestsFit
<1>6. ArrivalIsFirst'
  BY <1>1, <1>2, <1>3, <1>4 DEF Mirrors, ArrivalIsFirst, RequestsFit
<1>7. RequestsFit'
  <2>1. \A q \in requests' : q.op \in {"store", "previous"} => q.id # m.id
    BY <1>1, <1>2 DEF Mirrors, RequestsFit, Alone
  <2> QED
    BY <1>1, <1>2, <1>3, <1>4, <2>1 DEF Mirrors, RequestsFit
<1>8. InOrder' /\ DeliveryIsLast' /\ OneAtATime' /\ HandsFit'
  BY <1>1, <1>4, HandsStillFit DEF Mirrors, InOrder, DeliveryIsLast, OneAtATime
<1>9. DeletionsFit'
  BY <1>1, <1>2, <1>3, <1>4 DEF Alone, Mirrors, DeletionsFit
<1>10. LastWordFits'
  BY <1>1, <1>2, <1>3, <1>4 DEF Mirrors, LastWordFits, Fits
<1>11. ShownFits'
  BY <1>1, <1>2, <1>3, <1>4 DEF Mirrors, ShownFits, Fits
<1>12. MessagesAreShown'
  BY <1>1, <1>2, <1>3, <1>4 DEF Mirrors, MessagesAreShown
<1> QED
  BY <1>5, <1>6, <1>7, <1>8, <1>9, <1>10, <1>11, <1>12 DEF Mirrors

\* Without a deletion, what a thread shows or a handler holds as delivered is
\* stored so.
LEMMA DeliveredIsStored ==
    ASSUME TypeOK, Mirrors,
           NEW m \in rows, m.status \in {"pending", "sending"},
           ~ \E e \in queue \cup pending : e.type = "delivered" /\ e.id = m.id,
           \A e \in Words : e.type \notin {"deleted", "thread", "account"},
           \A r \in requests : r.op # "previous"
    PROVE  /\ \A t \in thread : t.LastMessageID = m.id => t.Status # "delivered"
           /\ \A e \in InHand : e.type = "delivered" => e.id # m.id
<1>1. ~Fits(rows, requests, queue \cup pending, m.id, "delivered")
  BY DEF Fits, Mirrors, RowsAreKnown
<1>2. ASSUME NEW t \in thread, t.LastMessageID = m.id, t.Status = "delivered"
      PROVE  FALSE
  <2>1. PICK f \in Words : IsUpdate(f) /\ f.id = m.id
    BY <1>1, <1>2 DEF Mirrors, ShownFits
  <2> QED
    BY <1>2, <2>1 DEF Mirrors, DeliveryIsLast
<1>3. ASSUME NEW e \in InHand, e.type = "delivered", e.id = m.id
      PROVE  FALSE
  <2>1. \A f \in queue : IsUpdate(f)
    BY DEF Words, TypeOK, Events, Updates, Deletions, IsUpdate
  <2>2. \A f \in Words : f.id = e.id => f = e
    BY <1>3, <2>1 DEF Mirrors, DeliveryIsLast, OneAtATime, Words
  <2>3. e \in Words /\ IsUpdate(e) /\ e.time <= e.time
    BY <1>3, TimesAreNatural DEF Words, IsUpdate, Statuses
  <2> QED
    BY <1>1, <1>3, <2>2, <2>3 DEF Mirrors, LastWordFits
<1> QED
  BY <1>2, <1>3

\* Who announces an update, announces it while nothing is deleted.
LEMMA NothingIsDeleted ==
    ASSUME Alone', NEW e \in Words', IsUpdate(e), Words \subseteq Words',
           UNCHANGED requests
    PROVE  /\ \A f \in Words : f.type \notin {"deleted", "thread", "account"}
           /\ \A r \in requests : r.op \notin {"previous", "thread"}
  BY DEF Alone, IsUpdate, Statuses

LEMMA FetchMirrors ==
    ASSUME TypeOK, Mirrors, Alone', Fetch
    PROVE  Mirrors'
<1>1. PICK m \in rows :
          /\ m.status = "pending"
          /\ \A r \in requests : r.op = "announce" => r.id # m.id
          /\ rows' = (rows \ {m}) \cup {[m EXCEPT !.status = "sending"]}
          /\ Announce(Event("sending", m.id, {}))
          /\ UNCHANGED <<used, requests, pending, thread, created, worker, history>>
  BY DEF Fetch
<1> DEFINE e == Event("sending", m.id, {})
           n == [m EXCEPT !.status = "sending"]
<1>2. /\ e.type = "sending" /\ e.id = m.id /\ e.time = announced + 1 /\ IsUpdate(e)
      /\ n.id = m.id /\ n.status = "sending"
  BY EventFields DEF IsUpdate, Statuses, TypeOK, Messages
<1>3. /\ queue' = queue \cup {e} /\ announced' = announced + 1
      /\ rows' = (rows \ {m}) \cup {n}
  BY <1>1 DEF Announce, now
<1>4. InHand' = InHand /\ Words' = Words \cup {e}
  BY <1>1, <1>3, HandsKept DEF Words
<1> HIDE DEF e, n
<1>5. /\ \A f \in Words : f.type \notin {"deleted", "thread", "account"}
      /\ \A r \in requests : r.op \notin {"previous", "thread"}
  BY <1>1, <1>2, <1>4, NothingIsDeleted
<1>6. \A o \in rows : o.id = m.id => o = m
  BY DEF Mirrors, RowsAreKnown
<1>7. \A f \in Words \cup pending : IsUpdate(f) /\ f.id = m.id => f.type = "pending"
  BY <1>1 DEF Mirrors, ArrivalIsFirst
<1>8. \A f \in queue \cup InHand \cup pending : f.type = "delivered" => f.id # m.id
  BY <1>7 DEF IsUpdate, Statuses, Words
<1>9. \A t \in thread : t.LastMessageID = m.id => t.Status # "delivered"
  BY <1>1, <1>5, <1>8, DeliveredIsStored
<1>10. RowsAreKnown'
  BY <1>1, <1>2, <1>3 DEF Mirrors, RowsAreKnown
<1>11. ArrivalIsFirst'
  BY <1>1, <1>2, <1>3, <1>4, <1>6 DEF Mirrors, ArrivalIsFirst
<1>12. RequestsFit'
  BY <1>1, <1>2, <1>3, <1>4, <1>6 DEF Mirrors, RequestsFit
<1>13. InOrder'
  BY <1>1, <1>2, <1>3, <1>4, TimesAreNatural DEF Mirrors, InOrder, RowsAreKnown, Words
<1>14. DeliveryIsLast'
  BY <1>1, <1>2, <1>3, <1>4, <1>8, <1>9 DEF Mirrors, DeliveryIsLast
<1>15. OneAtATime' /\ HandsFit'
  BY <1>1, <1>4, HandsStillFit DEF Mirrors, OneAtATime
<1>16. DeletionsFit'
  BY <1>1, <1>2, <1>4, <1>5 DEF DeletionsFit
<1>17. ASSUME NEW id, id # m.id, NEW status,
              Fits(rows, requests, queue \cup pending, id, status)
       PROVE  Fits(rows', requests', queue' \cup pending', id, status)
  BY <1>1, <1>3, <1>17 DEF Fits
<1>18. LastWordFits'
  <2>1. ASSUME NEW f \in Words, \A g \in Words' : g.id = f.id => g.time <= f.time
        PROVE  f.id # m.id
    BY <1>2, <1>4, <2>1, TimesAreNatural DEF Mirrors, InOrder
  <2>2. Fits(rows', requests', queue' \cup pending', e.id, e.type)
    BY <1>2, <1>3 DEF Fits
  <2> QED
    BY <1>2, <1>4, <1>17, <2>1, <2>2 DEF Mirrors, LastWordFits
<1>19. ShownFits'
  BY <1>1, <1>2, <1>4, <1>17 DEF Mirrors, ShownFits
<1>20. MessagesAreShown'
  BY <1>2, <1>4 DEF MessagesAreShown
<1> QED
  BY <1>10, <1>11, <1>12, <1>13, <1>14, <1>15, <1>16, <1>18, <1>19, <1>20
     DEF Mirrors

LEMMA ReportDeliveredMirrors ==
    ASSUME TypeOK, Mirrors, Alone', ReportDelivered
    PROVE  Mirrors'
<1>1. PICK m \in rows :
          /\ m.status = "sending"
          /\ ~ \E e \in queue \cup pending : e.type = "delivered" /\ e.id = m.id
          /\ Announce(Event("delivered", m.id, {}))
          /\ UNCHANGED <<messages, thread, created, worker, history>>
  BY DEF ReportDelivered
<1> DEFINE e == Event("delivered", m.id, {})
<1>2. e.type = "delivered" /\ e.id = m.id /\ e.time = announced + 1 /\ IsUpdate(e)
  BY EventFields DEF IsUpdate, Statuses
<1>3. /\ queue' = queue \cup {e} /\ announced' = announced + 1
      /\ UNCHANGED <<rows, used, requests, pending, thread, worker>>
  BY <1>1 DEF Announce, now, messages
<1>4. InHand' = InHand /\ Words' = Words \cup {e}
  BY <1>3, HandsKept DEF Words
<1> HIDE DEF e
<1>5. /\ \A f \in Words : f.type \notin {"deleted", "thread", "account"}
      /\ \A r \in requests : r.op \notin {"previous", "thread"}
  BY <1>2, <1>3, <1>4, NothingIsDeleted
<1>6. \A o \in rows : o.id = m.id => o = m
  BY DEF Mirrors, RowsAreKnown
<1>7. /\ \A t \in thread : t.LastMessageID = m.id => t.Status # "delivered"
      /\ \A f \in InHand : f.type = "delivered" => f.id # m.id
  BY <1>1, <1>5, DeliveredIsStored
<1>8. RowsAreKnown'
  BY <1>3 DEF Mirrors, RowsAreKnown
<1>9. ArrivalIsFirst'
  BY <1>1, <1>2, <1>3, <1>4, <1>6 DEF Mirrors, ArrivalIsFirst
<1>10. RequestsFit'
  <2>1. \A r \in requests : r.op \in {"announce", "store"} => r.id # m.id
    <3>1. \A r \in requests : r.op = "announce" => r.type \in {"pending", "received"}
      BY DEF TypeOK, Requests
    <3> QED
      BY <1>1, <1>6, <3>1 DEF Mirrors, RequestsFit
  <2> QED
    BY <1>2, <1>3, <1>4, <2>1 DEF Mirrors, RequestsFit
<1>11. InOrder'
  BY <1>2, <1>3, <1>4, TimesAreNatural DEF Mirrors, InOrder, RowsAreKnown, Words
<1>12. DeliveryIsLast'
  <2>1. \A f \in queue : f.time < e.time
    BY <1>2, TimesAreNatural DEF Mirrors, InOrder, Words
  <2> QED
    BY <1>1, <1>2, <1>3, <1>4, <1>7, <2>1 DEF Mirrors, DeliveryIsLast
<1>13. OneAtATime' /\ HandsFit'
  BY <1>3, <1>4, HandsStillFit DEF Mirrors, OneAtATime
<1>14. DeletionsFit'
  BY <1>2, <1>3, <1>4, <1>5 DEF DeletionsFit
<1>15. LastWordFits'
  BY <1>1, <1>2, <1>3, <1>4 DEF Mirrors, LastWordFits, Fits
<1>16. ShownFits'
  BY <1>3, <1>4 DEF Mirrors, ShownFits, Fits
<1>17. MessagesAreShown'
  BY <1>2, <1>4 DEF MessagesAreShown
<1> QED
  BY <1>8, <1>9, <1>10, <1>11, <1>12, <1>13, <1>14, <1>15, <1>16, <1>17 DEF Mirrors

LEMMA UpdateMessageMirrors ==
    ASSUME TypeOK, Mirrors, Alone', UpdateMessage
    PROVE  Mirrors'
<1> DEFINE Updated(m, e) == IF m.id # e.id \/ m.status # "sending" THEN m
                            ELSE [m EXCEPT !.status = e.type,
                                      !.time = IF @ < e.time THEN e.time ELSE @]
<1>1. PICK e \in pending :
          /\ pending' = pending \ {e}
          /\ rows' = { Updated(m, e) : m \in rows }
          /\ UNCHANGED <<used, requests, queue, announced, thread, created, worker,
                         history>>
  BY DEF UpdateMessage
<1>2. \A m \in rows :
          /\ Updated(m, e).id = m.id
          /\ Updated(m, e).status =
                 IF m.id # e.id \/ m.status # "sending" THEN m.status ELSE e.type
  BY DEF TypeOK, Messages
<1>3. InHand' = InHand /\ Words' = Words
  BY <1>1, HandsKept DEF Words
<1>4. /\ pending = {e} /\ pending' = {} /\ e.type \in {"sending", "delivered"}
      /\ InHand \subseteq {e}
  <2>1. \A f \in InHand \cup pending : f = e
    BY <1>1 DEF Mirrors, OneAtATime
  <2>2. pending = {e} /\ InHand \subseteq {e}
    BY <1>1, <2>1
  <2> QED
    BY <1>1, <2>2 DEF Mirrors, InOrder
<1> HIDE DEF Updated
<1>5. \A f \in Words : f.type \notin {"deleted", "thread", "account"}
  BY <1>4 DEF Mirrors, Alone
<1>6. RowsAreKnown'
  BY <1>1, <1>2 DEF Mirrors, RowsAreKnown
<1>7. ArrivalIsFirst'
  BY <1>1, <1>2, <1>3, <1>4 DEF Mirrors, ArrivalIsFirst
<1>8. RequestsFit'
  <2>1. \A r \in requests : r.op = "announce" => r.type \in {"pending", "received"}
    BY DEF TypeOK, Requests
  <2>2. \A r \in requests : r.op = "announce" =>
            \E m \in rows' : m.id = r.id /\ m.status = r.type
    BY <1>1, <1>2, <2>1 DEF Mirrors, RequestsFit
  <2> QED
    BY <1>1, <1>2, <1>3, <1>4, <2>2 DEF Mirrors, RequestsFit
<1>9. InOrder' /\ DeliveryIsLast' /\ OneAtATime' /\ HandsFit'
  BY <1>1, <1>3, <1>4, HandsStillFit
     DEF Mirrors, InOrder, DeliveryIsLast, OneAtATime
<1>10. DeletionsFit'
  <2>1. \A r \in requests : r.op # "thread"
    BY <1>4 DEF Mirrors, Alone
  <2> QED
    BY <1>1, <1>3, <1>5, <2>1 DEF DeletionsFit
<1>11. ASSUME NEW id, NEW status, Fits(rows, requests, queue \cup pending, id, status),
              ~(e.type = "delivered" /\ e.id = id /\ status = "sending")
       PROVE  Fits(rows', requests', queue' \cup pending', id, status)
  <2>1. CASE \E m \in rows : m.id = id /\ m.status = status
    BY <1>1, <1>2, <1>4, <1>11, <2>1 DEF Fits
  <2>2. CASE status = "received" /\ \E r \in requests : r.op = "store" /\ r.id = id
    BY <1>1, <2>2 DEF Fits
  <2>3. ASSUME status = "delivered", NEW m \in rows, m.id = id, m.status = "sending",
               NEW f \in queue \cup pending, f.type = "delivered", f.id = id
        PROVE  Fits(rows', requests', queue' \cup pending', id, status)
    <3>1. CASE e.id = id /\ e.type = "delivered"
      <4>1. Updated(m, e).id = id /\ Updated(m, e).status = "delivered"
        BY <1>2, <2>3, <3>1
      <4> QED
        BY <1>1, <2>3, <4>1 DEF Fits
    <3>2. CASE ~(e.id = id /\ e.type = "delivered")
      <4>1. f \in queue'
        BY <1>1, <1>4, <2>3, <3>2
      <4>2. Updated(m, e).id = id /\ Updated(m, e).status = "sending"
        BY <1>2, <1>4, <2>3, <3>2
      <4> QED
        BY <1>1, <2>3, <4>1, <4>2 DEF Fits
    <3> QED
      BY <3>1, <3>2
  <2> QED
    BY <1>11, <2>1, <2>2, <2>3 DEF Fits
<1>12. LastWordFits'
  <2>1. ASSUME NEW f \in Words, IsUpdate(f), e.type = "delivered", e.id = f.id
        PROVE  f.type # "sending"
    BY <1>4, <2>1 DEF Mirrors, DeliveryIsLast, Words
  <2> QED
    BY <1>1, <1>3, <1>11, <2>1 DEF Mirrors, LastWordFits
<1>13. ShownFits'
  <2>1. ASSUME NEW t \in thread, e.type = "delivered", e.id = t.LastMessageID,
               e \notin InHand
        PROVE  t.Status # "sending"
    BY <1>4, <2>1 DEF Mirrors, DeliveryIsLast
  <2>2. e \in InHand => e \in Words
    BY DEF Words
  <2>3. IsUpdate(e)
    BY <1>4 DEF IsUpdate, Statuses
  <2> QED
    BY <1>1, <1>3, <1>11, <2>1, <2>2, <2>3 DEF Mirrors, ShownFits
<1>14. MessagesAreShown'
  <2>1. Emptying' <=> Emptying
    BY <1>1, <1>3 DEF Emptying
  <2>2. rows' # {} => rows # {}
    BY <1>1
  <2> QED
    BY <1>1, <1>3, <2>1, <2>2 DEF Mirrors, MessagesAreShown
<1> QED
  BY <1>6, <1>7, <1>8, <1>9, <1>10, <1>12, <1>13, <1>14 DEF Mirrors

----------------------------------------------------------------------------
(* The deletions keep the list right. *)

\* When nothing is told, most is as it should be.
LEMMA SilenceFits ==
    ASSUME RowsAreKnown, InHand = {}, queue = {}, pending = {},
           \A t \in thread : t.LastMessageID \in used /\ t.OrderTimestamp <= announced
    PROVE  /\ ArrivalIsFirst /\ InOrder /\ DeliveryIsLast /\ OneAtATime /\ HandsFit
           /\ LastWordFits
<1>1. Words = {} /\ \A w \in Workers : worker[w] = Idle /\ worker[w].step = "idle"
  BY NoHandsAtWork DEF Words
<1>2. HandsFit
  BY <1>1 DEF HandsFit
<1> QED
  BY <1>1, <1>2 DEF ArrivalIsFirst, InOrder, DeliveryIsLast, OneAtATime, LastWordFits

LEMMA DeleteMessageMirrors ==
    ASSUME TypeOK, Mirrors, Alone', DeleteMessage
    PROVE  Mirrors'
<1>1. PICK m \in rows :
          /\ rows' = rows \ {m}
          /\ requests' = requests \cup {Request("previous", "deleted", m.id)}
          /\ UNCHANGED <<used, pending, queue, announced, thread, created, worker,
                         history>>
  BY DEF DeleteMessage
<1> DEFINE r == Request("previous", "deleted", m.id)
<1>2. r.op = "previous" /\ r.id = m.id /\ requests' = requests \cup {r}
  BY <1>1 DEF Request
<1>3. InHand' = InHand /\ Words' = Words
  BY <1>1, HandsKept DEF Words
<1> HIDE DEF r
<1>4. requests' = {r} /\ Words = {} /\ pending' = {} /\ pending = {}
  BY <1>1, <1>2, <1>3 DEF Alone
<1>5. RowsAreKnown'
  BY <1>1 DEF Mirrors, RowsAreKnown
<1>6. InHand = {} /\ queue = {}
  BY <1>4 DEF Words
<1>7. /\ ArrivalIsFirst' /\ InOrder' /\ DeliveryIsLast' /\ OneAtATime' /\ HandsFit'
      /\ LastWordFits'
  <2>1. (/\ RowsAreKnown /\ InHand = {} /\ queue = {} /\ pending = {}
         /\ \A t \in thread :
                t.LastMessageID \in used /\ t.OrderTimestamp <= announced)'
    BY <1>1, <1>3, <1>4, <1>5, <1>6 DEF Mirrors, InOrder
  <2> QED
    BY <2>1, SilenceFits, PTL
<1>8. RequestsFit'
  BY <1>1, <1>2, <1>3, <1>4 DEF RequestsFit, Mirrors, RowsAreKnown
<1>9. DeletionsFit'
  BY <1>2, <1>3, <1>4 DEF DeletionsFit
<1>10. ShownFits'
  BY <1>1, <1>2, <1>3, <1>4 DEF Mirrors, ShownFits, Fits
<1>11. MessagesAreShown'
  <2>1. \A q \in requests : q.op = "previous"
    BY <1>1, <1>2, <1>4
  <2>2. ~Emptying
    BY <1>4, <1>6, <2>1, NoHandsAtWork DEF Emptying
  <2> QED
    BY <1>1, <1>2, <1>4, <2>1, <2>2 DEF Mirrors, MessagesAreShown
<1> QED
  BY <1>5, <1>7, <1>8, <1>9, <1>10, <1>11 DEF Mirrors

LEMMA AnnounceDeletedMirrors ==
    ASSUME TypeOK, Mirrors, Alone', faults' = 0, AnnounceDeleted
    PROVE  Mirrors'
<1>1. PICK r \in requests :
          /\ r.op = "previous"
          /\ requests' = requests \ {r}
          /\ \/ \E prev \in Previous(r.id) : Announce(Event("deleted", r.id, prev))
             \/ Fault
          /\ UNCHANGED <<rows, used, pending, thread, created, worker, arrivals>>
  BY DEF AnnounceDeleted
<1>2. PICK prev \in Previous(r.id) : Announce(Event("deleted", r.id, prev))
  BY <1>1 DEF Fault, TypeOK
<1>3. prev \subseteq rows /\ (prev = {} <=> rows = {})
  BY DEF Previous
<1> DEFINE e == Event("deleted", r.id, prev)
<1>4. /\ e.type = "deleted" /\ e.id = r.id /\ e.time = announced + 1
      /\ e.prev = prev /\ ~IsUpdate(e)
  BY EventFields DEF IsUpdate, Statuses
<1>5. requests = {r} /\ Words = {} /\ pending = {}
  BY <1>1 DEF Mirrors, Alone
<1>6. queue' = {e} /\ InHand' = {} /\ InHand = {} /\ Words' = {e}
  BY <1>1, <1>2, <1>5, HandsKept DEF Announce, Words
<1>7. announced' = announced + 1 /\ requests' = {} /\ pending' = {}
  BY <1>1, <1>2, <1>5 DEF Announce, now
<1> HIDE DEF e
<1>8. RowsAreKnown' /\ ArrivalIsFirst'
  BY <1>1, <1>4, <1>6, <1>7 DEF Mirrors, RowsAreKnown, ArrivalIsFirst
<1>9. RequestsFit'
  BY <1>7 DEF RequestsFit
<1>10. InOrder'
  BY <1>1, <1>4, <1>5, <1>6, <1>7, TimesAreNatural DEF Mirrors, InOrder, RequestsFit
<1>11. DeliveryIsLast' /\ OneAtATime' /\ HandsFit'
  BY <1>1, <1>4, <1>6, <1>7, HandsStillFit DEF Mirrors, DeliveryIsLast, OneAtATime
<1>12. DeletionsFit'
  BY <1>1, <1>3, <1>4, <1>6, <1>7 DEF Mirrors, DeletionsFit, RequestsFit
<1>13. LastWordFits'
  BY <1>4, <1>6 DEF LastWordFits
<1>14. ShownFits'
  <2>1. queue = {} /\ queue' \cup pending' = {e}
    BY <1>5, <1>6, <1>7 DEF Words
  <2> QED
    BY <1>1, <1>4, <1>5, <1>6, <1>7, <2>1 DEF Mirrors, ShownFits, Fits
<1>15. MessagesAreShown'
  <2>1. ~Emptying
    BY <1>1, <1>5, <1>6, NoHandsAtWork DEF Emptying
  <2> QED
    BY <1>1, <1>5, <1>7, <2>1 DEF Mirrors, MessagesAreShown
<1> QED
  BY <1>8, <1>9, <1>10, <1>11, <1>12, <1>13, <1>14, <1>15 DEF Mirrors

LEMMA DeleteThreadMirrors ==
    ASSUME TypeOK, Mirrors, Alone', DeleteThread
    PROVE  Mirrors'
<1> DEFINE r == Request("thread", "thread", NoID)
<1>1. /\ thread' = {} /\ requests' = requests \cup {r}
      /\ UNCHANGED <<rows, used, pending, queue, announced, worker>>
  BY DEF DeleteThread
<1>2. r.op = "thread"
  BY DEF Request
<1>3. InHand' = InHand /\ Words' = Words
  BY <1>1, HandsKept DEF Words
<1> HIDE DEF r
<1>4. requests' = {r} /\ Words = {} /\ pending = {}
  BY <1>1, <1>2, <1>3 DEF Alone
<1>5. InHand = {} /\ queue = {}
  BY <1>4 DEF Words
<1>6. RowsAreKnown'
  BY <1>1 DEF Mirrors, RowsAreKnown
<1>7. /\ ArrivalIsFirst' /\ InOrder' /\ DeliveryIsLast' /\ OneAtATime' /\ HandsFit'
      /\ LastWordFits'
  <2>1. (/\ RowsAreKnown /\ InHand = {} /\ queue = {} /\ pending = {}
         /\ \A t \in thread :
                t.LastMessageID \in used /\ t.OrderTimestamp <= announced)'
    BY <1>1, <1>3, <1>4, <1>5, <1>6
  <2> QED
    BY <2>1, SilenceFits, PTL
<1>8. RequestsFit'
  BY <1>2, <1>4 DEF RequestsFit
<1>9. DeletionsFit' /\ ShownFits'
  BY <1>1, <1>3, <1>4 DEF DeletionsFit, ShownFits
<1>10. MessagesAreShown'
  BY <1>2, <1>4 DEF MessagesAreShown, Emptying
<1> QED
  BY <1>6, <1>7, <1>8, <1>9, <1>10 DEF Mirrors

LEMMA AnnounceThreadDeletedMirrors ==
    ASSUME TypeOK, Mirrors, Alone', AnnounceThreadDeleted
    PROVE  Mirrors'
<1>1. PICK r \in requests :
          /\ r.op = "thread"
          /\ requests' = requests \ {r}
          /\ Announce(Event("thread", NoID, {}))
          /\ UNCHANGED <<rows, used, pending, thread, created, worker, history>>
  BY DEF AnnounceThreadDeleted
<1> DEFINE e == Event("thread", NoID, {})
<1>2. e.type = "thread" /\ e.time = announced + 1 /\ ~IsUpdate(e)
  BY EventFields DEF IsUpdate, Statuses
<1>3. requests = {r} /\ Words = {} /\ pending = {} /\ thread = {}
  BY <1>1 DEF Mirrors, Alone, DeletionsFit
<1>4. /\ queue' = {e} /\ InHand' = {} /\ Words' = {e}
      /\ announced' = announced + 1 /\ requests' = {} /\ pending' = {} /\ thread' = {}
  BY <1>1, <1>3, HandsKept DEF Announce, Words, now
<1> HIDE DEF e
<1>5. RowsAreKnown' /\ ArrivalIsFirst' /\ RequestsFit'
  BY <1>1, <1>2, <1>4 DEF Mirrors, RowsAreKnown, ArrivalIsFirst, RequestsFit
<1>6. InOrder'
  BY <1>2, <1>4, TimesAreNatural DEF InOrder
<1>7. DeliveryIsLast' /\ OneAtATime' /\ HandsFit'
  BY <1>1, <1>2, <1>4, HandsStillFit DEF Mirrors, DeliveryIsLast, OneAtATime
<1>8. DeletionsFit' /\ LastWordFits' /\ ShownFits' /\ MessagesAreShown'
  BY <1>2, <1>4 DEF DeletionsFit, LastWordFits, ShownFits, MessagesAreShown, Emptying
<1> QED
  BY <1>5, <1>6, <1>7, <1>8 DEF Mirrors

LEMMA DeleteAccountMirrors ==
    ASSUME TypeOK, Mirrors, Alone', DeleteAccount
    PROVE  Mirrors'
<1> DEFINE e == Event("account", NoID, {})
<1>1. e.type = "account" /\ e.time = announced + 1 /\ ~IsUpdate(e)
  BY EventFields DEF IsUpdate, Statuses
<1>2. /\ queue' = queue \cup {e} /\ announced' = announced + 1
      /\ UNCHANGED <<rows, used, requests, pending, thread, worker>>
  BY DEF DeleteAccount, Announce, messages, now
<1>3. InHand' = InHand /\ Words' = Words \cup {e}
  BY <1>2, HandsKept DEF Words
<1> HIDE DEF e
<1>4. requests = {} /\ Words' = {e} /\ pending = {}
  BY <1>1, <1>2, <1>3 DEF Alone
<1>5. Words = {} /\ InHand = {} /\ queue = {}
  BY <1>1, <1>3, <1>4, TimesAreNatural DEF Mirrors, InOrder, Words
<1>6. RowsAreKnown' /\ ArrivalIsFirst' /\ RequestsFit'
  BY <1>1, <1>2, <1>4 DEF Mirrors, RowsAreKnown, ArrivalIsFirst, RequestsFit
<1>7. InOrder'
  BY <1>1, <1>2, <1>3, <1>4, <1>5, TimesAreNatural DEF Mirrors, InOrder
<1>8. DeliveryIsLast' /\ OneAtATime' /\ HandsFit'
  <2>1. DeliveryIsLast'
    BY <1>1, <1>2, <1>3, <1>4, <1>5 DEF DeliveryIsLast
  <2> QED
    BY <1>2, <1>3, <2>1, HandsStillFit DEF Mirrors, OneAtATime
<1>9. DeletionsFit' /\ LastWordFits'
  BY <1>1, <1>2, <1>4 DEF DeletionsFit, LastWordFits
<1>10. ShownFits'
  BY <1>2, <1>4, <1>5 DEF Mirrors, ShownFits, Fits
<1>11. MessagesAreShown'
  BY <1>2, <1>4, <1>5 DEF Mirrors, MessagesAreShown, Emptying
<1> QED
  BY <1>6, <1>7, <1>8, <1>9, <1>10, <1>11 DEF Mirrors

\* The user changes nothing of what a thread shows.
LEMMA UpdateStatusMirrors ==
    ASSUME TypeOK, UnreadInv, Mirrors, Alone', UpdateStatus
    PROVE  Mirrors'
<1>1. PICK t \in thread :
          \/ \E archived \in BOOLEAN :
                 thread' = {[t EXCEPT !.IsArchived = archived]}
          \/ thread' = {[t EXCEPT !.UnreadCount = 0]}
  BY DEF UpdateStatus
<1>2. PICK u :
          /\ thread' = {u} /\ u.id = t.id /\ u.LastMessageID = t.LastMessageID
          /\ u.Status = t.Status /\ u.OrderTimestamp = t.OrderTimestamp
  <2> DEFINE Same(u) == /\ u.id = t.id /\ u.LastMessageID = t.LastMessageID
                        /\ u.Status = t.Status /\ u.OrderTimestamp = t.OrderTimestamp
  <2>1. /\ \A archived \in BOOLEAN : Same([t EXCEPT !.IsArchived = archived])
        /\ Same([t EXCEPT !.UnreadCount = 0])
    BY DEF TypeOK, Threads
  <2> HIDE DEF Same
  <2>2. \E u : thread' = {u} /\ Same(u)
    BY <1>1, <2>1
  <2> QED
    BY <2>2 DEF Same
<1>3. thread = {t}
  BY DEF UnreadInv
<1>4. UNCHANGED <<rows, used, requests, pending, queue, announced, worker>>
  BY DEF UpdateStatus, messages
<1>5. InHand' = InHand /\ Words' = Words
  BY <1>4, HandsKept DEF Words
<1>6. RowsAreKnown' /\ ArrivalIsFirst' /\ LastWordFits'
  BY <1>4, <1>5 DEF Mirrors, RowsAreKnown, ArrivalIsFirst, LastWordFits, Fits
<1>7. RequestsFit'
  BY <1>2, <1>3, <1>4, <1>5 DEF Mirrors, RequestsFit
<1>8. InOrder'
  BY <1>2, <1>3, <1>4, <1>5 DEF Mirrors, InOrder
<1>9. DeliveryIsLast'
  BY <1>2, <1>3, <1>4, <1>5 DEF Mirrors, DeliveryIsLast
<1>10. OneAtATime'
  BY <1>4, <1>5 DEF Mirrors, OneAtATime
<1>11. HandsFit'
  BY <1>2, <1>3, <1>4 DEF Mirrors, HandsFit
<1>12. DeletionsFit'
  BY <1>2, <1>3, <1>4, <1>5 DEF Mirrors, DeletionsFit
<1>13. ShownFits'
  BY <1>2, <1>3, <1>4, <1>5 DEF Mirrors, ShownFits, Fits
<1>14. MessagesAreShown'
  BY <1>2, <1>3, <1>4, <1>5 DEF Mirrors, MessagesAreShown, Emptying
<1> QED
  BY <1>6, <1>7, <1>8, <1>9, <1>10, <1>11, <1>12, <1>13, <1>14 DEF Mirrors

----------------------------------------------------------------------------
(* The handlers keep the list right. *)

\* A handler that goes to work holds the event, and no other does.
LEMMA TakesInHand ==
    ASSUME TypeOK, InHand = {}, NEW w \in Workers, NEW task,
           worker' = [worker EXCEPT ![w] = task], task # Idle
    PROVE  /\ InHand' = {task.event}
           /\ worker'[w] = task
           /\ \A v \in Workers \ {w} : worker'[v] = Idle /\ worker'[v].step = "idle"
<1>1. \A v \in Workers : worker[v] = Idle /\ worker[v].step = "idle"
  BY NoHandsAtWork
<1>2. worker'[w] = task /\ \A v \in Workers \ {w} : worker'[v] = worker[v]
  BY DEF TypeOK
<1>3. { v \in Workers : worker'[v] # Idle } = {w}
  BY <1>1, <1>2
<1> QED
  BY <1>1, <1>2, <1>3 DEF InHand

\* A handler that is done leaves nothing in hand.
LEMMA LeavesHand ==
    ASSUME TypeOK, OneAtATime, NEW w \in Workers, worker[w].step # "idle",
           worker' = [worker EXCEPT ![w] = Idle]
    PROVE  /\ InHand = {worker[w].event}
           /\ InHand' = {}
<1>1. worker[w] # Idle
  BY IdleType
<1>2. { v \in Workers : worker[v] # Idle } = {w}
  BY <1>1 DEF OneAtATime
<1>3. \A v \in Workers : worker'[v] = Idle
  BY <1>2 DEF TypeOK
<1> QED
  BY <1>2, <1>3 DEF InHand

\* What a handler has read of the thread as it took the event.
HasRead(task) ==
    /\ task.step = "insert" => thread = {}
    /\ task.step \in {"activity", "preview"} => thread # {}
    /\ task.step \in {"activity", "preview", "remove"} => task.loaded = thread
    /\ task.step \in {"preview", "remove"} => task.event.type = "deleted"
    /\ task.step = "preview" => task.event.prev # {}
    /\ task.step = "remove" => task.event.prev = {}
    /\ task.step = "messages" => task.event.type = "thread"
    /\ task.step = "account" => task.event.type = "account"

LEMMA LoadReads ==
    ASSUME TypeOK, UnreadInv, NEW event \in Events, NEW task \in Load(event)
    PROVE  \/ task # Idle /\ task.event = event /\ HasRead(task)
           \/ /\ task = Idle /\ event.type = "deleted"
              /\ \A t \in thread : event.prev # {} /\ t.LastMessageID # event.id
           \/ task = Idle /\ IsUpdate(event) /\ \E t \in thread : Ignored(t, event)
<1>1. CASE event.type \in {"thread", "account"}
  <2>1. \/ event.type = "thread" /\ task = Task("messages", event, {}, FALSE)
        \/ event.type = "account" /\ task = Task("account", event, {}, FALSE)
    BY <1>1 DEF Load
  <2>2. task # Idle /\ task.event = event
    BY <2>1 DEF Task, Idle
  <2>3. task.step = IF event.type = "thread" THEN "messages" ELSE "account"
    BY <2>1 DEF Task
  <2> QED
    BY <1>1, <2>2, <2>3 DEF HasRead
<1>2. CASE event.type = "deleted"
  <2>1. task \in LoadForDeleted(event)
    BY <1>2 DEF Load
  <2>2. CASE thread = {}
    BY <1>2, <2>1, <2>2 DEF LoadForDeleted
  <2>3. CASE thread # {}
    <3>1. PICK t \in thread :
              task = CASE event.prev = {} -> Task("remove", event, {t}, FALSE)
                       [] event.prev # {} /\ t.LastMessageID # event.id -> Idle
                       [] OTHER -> Task("preview", event, {t}, FALSE)
      BY <2>1, <2>3 DEF LoadForDeleted
    <3>2. thread = {t}
      BY DEF UnreadInv
    <3>3. CASE event.prev = {}
      <4>1. task = Task("remove", event, thread, FALSE)
        BY <3>1, <3>2, <3>3
      <4>2. task # Idle /\ task.event = event /\ task.step = "remove" /\ task.loaded = thread
        BY <4>1 DEF Task, Idle
      <4> QED
        BY <1>2, <3>3, <4>2 DEF HasRead
    <3>4. CASE event.prev # {} /\ t.LastMessageID # event.id
      BY <1>2, <3>1, <3>2, <3>4
    <3>5. CASE event.prev # {} /\ t.LastMessageID = event.id
      <4>1. task = Task("preview", event, thread, FALSE)
        BY <3>1, <3>2, <3>5
      <4>2. task # Idle /\ task.event = event /\ task.step = "preview" /\ task.loaded = thread
        BY <4>1 DEF Task, Idle
      <4> QED
        BY <1>2, <2>3, <3>5, <4>2 DEF HasRead
    <3> QED
      BY <3>3, <3>4, <3>5
  <2> QED
    BY <2>2, <2>3
<1>3. CASE event.type \notin {"thread", "account", "deleted"}
  <2>1. IsUpdate(event) /\ task \in LoadForUpdate(event)
    BY <1>3 DEF Load, Events, Updates, Deletions, IsUpdate
  <2>2. CASE thread = {}
    <3>1. task = Task("insert", event, {}, FALSE)
      BY <2>1, <2>2 DEF LoadForUpdate
    <3>2. task # Idle /\ task.event = event /\ task.step = "insert"
      BY <3>1 DEF Task, Idle
    <3> QED
      BY <2>2, <3>2 DEF HasRead
  <2>3. CASE thread # {}
    <3>1. PICK t \in thread :
              task = IF Ignored(t, event) THEN Idle
                     ELSE Task("activity", event, {t}, Unarchives(t, event))
      BY <2>1, <2>3 DEF LoadForUpdate
    <3>2. {t} = thread
      BY DEF UnreadInv
    <3>3. CASE Ignored(t, event)
      BY <2>1, <3>1, <3>3
    <3>4. CASE ~Ignored(t, event)
      <4> DEFINE unarchive == Unarchives(t, event)
                 loaded == {t}
      <4>1. task = Task("activity", event, loaded, unarchive)
        BY <3>1, <3>4
      <4>2. loaded = thread
        BY <3>2
      <4> HIDE DEF unarchive, loaded
      <4>3. task # Idle /\ task.event = event /\ task.step = "activity" /\ task.loaded = loaded
        BY <4>1 DEF Task, Idle
      <4> QED
        BY <2>3, <4>2, <4>3 DEF HasRead
    <3> QED
      BY <3>3, <3>4
  <2> QED
    BY <2>2, <2>3
<1> QED
  BY <1>1, <1>2, <1>3

\* In its order, no update is ignored.
LEMMA NoneIsIgnored ==
    ASSUME TypeOK, Mirrors, NEW event \in queue, IsUpdate(event), NEW t \in thread
    PROVE  ~Ignored(t, event)
<1>1. event \in Words /\ event.time \in Nat /\ t.OrderTimestamp \in Nat
  BY TimesAreNatural DEF Words
<1>2. t.OrderTimestamp <= event.time
  BY <1>1 DEF Mirrors, InOrder
<1>3. t.Status = "delivered" => event.id # t.LastMessageID
  BY <1>1 DEF Mirrors, DeliveryIsLast
<1> QED
  BY <1>1, <1>2, <1>3 DEF Ignored

\* The event that is taken first is still to be told.
LEMMA TakenMirrors ==
    ASSUME TypeOK, Mirrors, Alone', OneAtATime', HandsFit',
           NEW e \in queue, queue' = queue \ {e},
           InHand = {}, pending = {}, InHand' = {e},
           pending' = IF e.type \in {"sending", "delivered"} THEN pending \cup {e}
                      ELSE pending,
           \A f \in queue : ~(f.time < e.time),
           UNCHANGED <<rows, used, requests, announced, thread>>
    PROVE  Mirrors'
<1>1. Words' = Words /\ Words = queue /\ e \in Words
  BY DEF Words
<1>2. pending' \subseteq {e} /\ Words' \cup pending' = Words \cup pending
  BY <1>1
<1>3. RowsAreKnown'
  BY DEF Mirrors, RowsAreKnown
<1>4. ArrivalIsFirst'
  BY <1>2 DEF Mirrors, ArrivalIsFirst
<1>5. RequestsFit'
  BY <1>2 DEF Mirrors, RequestsFit
<1>6. InOrder'
  <2>1. \A f \in queue' : e.time <= f.time
    BY <1>1, TimesAreNatural
  <2>2. \A f \in pending' : f.type \in {"sending", "delivered"}
    OBVIOUS
  <2> QED
    BY <1>1, <1>2, <2>1, <2>2 DEF Mirrors, InOrder
<1>7. DeliveryIsLast'
  <2>1. \A f \in queue' : e.type = "delivered" /\ IsUpdate(f) => f.id # e.id
    BY DEF Mirrors, DeliveryIsLast
  <2> QED
    BY <1>1, <1>2, <2>1 DEF Mirrors, DeliveryIsLast
<1>8. DeletionsFit'
  BY <1>1 DEF Mirrors, DeletionsFit
<1>9. \A f \in queue \cup pending : f.type = "delivered" => f \in queue' \cup pending'
  OBVIOUS
<1>10. LastWordFits'
  BY <1>1, <1>9 DEF Mirrors, LastWordFits, Fits
<1>11. ShownFits'
  BY <1>1, <1>9 DEF Mirrors, ShownFits, Fits
<1>12. MessagesAreShown'
  <2>1. Emptying => Emptying'
    BY <1>1, NoHandsAtWork DEF Emptying
  <2> QED
    BY <1>1, <2>1 DEF Mirrors, MessagesAreShown
<1> QED
  BY <1>3, <1>4, <1>5, <1>6, <1>7, <1>8, <1>10, <1>11, <1>12 DEF Mirrors

LEMMA DeliverMirrors ==
    ASSUME TypeOK, UnreadInv, Mirrors, Alone', ~Overtakes, faults = 0, faults' = 0,
           NEW w \in Workers, Deliver(w)
    PROVE  Mirrors'
<1>1. PICK e \in queue :
          /\ worker[w] = Idle
          /\ pending' = IF e.type \in {"sending", "delivered"}
                        THEN pending \cup {e} ELSE pending
          /\ \E task \in Load(e) : \/ /\ worker' = [worker EXCEPT ![w] = task]
                                      /\ queue' = queue \ {e}
                                   \/ Fault
          /\ UNCHANGED <<rows, used, requests, announced, thread, created, arrivals>>
  BY DEF Deliver
<1>2. PICK task \in Load(e) :
          worker' = [worker EXCEPT ![w] = task] /\ queue' = queue \ {e}
  BY <1>1 DEF Fault
<1>3. e \in Events /\ e \in Words /\ e \in queue \ queue'
  BY <1>2 DEF TypeOK, Words
<1>4. CASE task # Idle /\ task.event = e /\ HasRead(task)
  <2>1. worker'[w] = task /\ \A v \in Workers \ {w} : worker'[v] = worker[v]
    BY <1>2 DEF TypeOK
  <2>2. e \in InHand'
    BY <1>4, <2>1 DEF InHand
  <2>3. InHand = {} /\ pending = {} /\ \A f \in queue : ~(f.time < e.time)
    BY <1>3, <2>2 DEF Overtakes
  <2>4. /\ InHand' = {e}
        /\ \A v \in Workers \ {w} : worker'[v] = Idle /\ worker'[v].step = "idle"
    BY <1>2, <1>4, <2>3, TakesInHand
  <2>5. OneAtATime'
    <3>1. InHand' \cup pending' = {e}
      BY <1>1, <2>3, <2>4
    <3> QED
      BY <2>4, <3>1 DEF OneAtATime
  <2>6. HandsFit'
    <3>1. thread' = thread /\ (e.type = "thread" => thread = {})
      BY <1>1, <1>3 DEF Mirrors, DeletionsFit
    <3>2. \A t \in thread : task.loaded = thread => \E l \in task.loaded : l.id = t.id
      OBVIOUS
    <3> QED
      BY <1>4, <2>1, <2>4, <3>1, <3>2 DEF HasRead, HandsFit
  <2> QED
    BY <1>1, <1>2, <2>3, <2>4, <2>5, <2>6, TakenMirrors
<1>5. CASE /\ task = Idle /\ e.type = "deleted"
           /\ \A t \in thread : e.prev # {} /\ t.LastMessageID # e.id
  <2>1. requests = {} /\ Words = {e} /\ pending = {}
    BY <1>3, <1>5 DEF Mirrors, Alone
  <2>2. worker' = worker
    BY <1>1, <1>2, <1>5 DEF TypeOK
  <2>3. InHand' = InHand /\ InHand = {}
    BY <1>1, <2>1, <2>2, HandsKept DEF Words, Mirrors, InOrder
  <2>4. Words' = {} /\ queue = {e} /\ queue' = {} /\ pending' = {}
    BY <1>1, <1>2, <1>5, <2>1, <2>3 DEF Words
  <2>5. RowsAreKnown'
    BY <1>1 DEF Mirrors, RowsAreKnown
  <2>6. /\ ArrivalIsFirst' /\ InOrder' /\ DeliveryIsLast' /\ OneAtATime' /\ HandsFit'
        /\ LastWordFits'
    <3>1. (/\ RowsAreKnown /\ InHand = {} /\ queue = {} /\ pending = {}
           /\ \A t \in thread :
                  t.LastMessageID \in used /\ t.OrderTimestamp <= announced)'
      BY <1>1, <2>3, <2>4, <2>5 DEF Mirrors, InOrder
    <3> QED
      BY <3>1, SilenceFits, PTL
  <2>7. RequestsFit' /\ DeletionsFit'
    BY <1>1, <2>1, <2>4 DEF RequestsFit, DeletionsFit
  <2>8. ShownFits'
    BY <1>1, <1>5, <2>1, <2>4 DEF Mirrors, ShownFits, Fits
  <2>9. MessagesAreShown'
    <3>1. ~Emptying /\ ~IsUpdate(e)
      BY <1>5, <2>1, <2>3, NoHandsAtWork DEF Emptying, IsUpdate, Statuses
    <3> QED
      BY <1>1, <2>1, <3>1 DEF Mirrors, MessagesAreShown
  <2> QED
    BY <2>5, <2>6, <2>7, <2>8, <2>9 DEF Mirrors
<1> QED
  BY <1>3, <1>4, <1>5, LoadReads, NoneIsIgnored

\* The thread shows what the handler was told, and the handler is done.
LEMMA ShowingMirrors ==
    ASSUME TypeOK, Mirrors, Alone',
           NEW w \in Workers, worker[w].step \in {"insert", "activity"},
           worker' = [worker EXCEPT ![w] = Idle],
           UNCHANGED <<messages, queue, announced>>,
           thread' # {},
           \A t \in thread' : /\ t.LastMessageID = worker[w].event.id
                              /\ t.Status = worker[w].event.type
                              /\ t.OrderTimestamp = worker[w].event.time
    PROVE  Mirrors'
<1> DEFINE e == worker[w].event
<1>1. InHand = {e} /\ InHand' = {}
  BY LeavesHand DEF Mirrors
<1>2. e \in Updates /\ IsUpdate(e)
  BY DEF TypeOK, Updates, IsUpdate
<1> HIDE DEF e
<1>3. UNCHANGED <<rows, used, requests, pending, queue, announced>>
  BY DEF messages
<1>4. /\ Words = queue \cup {e} /\ Words' = queue /\ e \in Words /\ e \notin queue
      /\ pending \subseteq {e}
  <2>1. \A f \in pending : f = e
    BY <1>1 DEF Mirrors, OneAtATime
  <2> QED
    BY <1>1, <1>3, <2>1 DEF Words, Mirrors, InOrder
<1>5. \A t \in thread' : /\ t.LastMessageID = e.id /\ t.Status = e.type
                         /\ t.OrderTimestamp = e.time
  BY DEF e
<1>6. /\ \A f \in Words : f.type \notin {"deleted", "thread", "account"}
      /\ \A r \in requests : r.op \notin {"previous", "thread"}
  BY <1>2, <1>4 DEF Mirrors, Alone, IsUpdate, Statuses
<1>7. \A v \in Workers : worker'[v] = Idle
  <2>1. InHand' = {} => \A v \in Workers : worker'[v] = Idle
    BY DEF InHand
  <2> QED
    BY <1>1, <2>1
<1>8. RowsAreKnown' /\ ArrivalIsFirst'
  BY <1>3, <1>4 DEF Mirrors, RowsAreKnown, ArrivalIsFirst
<1>9. RequestsFit'
  <2>1. \A r \in requests : r.op = "announce" => r.id # e.id
    BY <1>2, <1>4 DEF Mirrors, RequestsFit
  <2> QED
    BY <1>3, <1>4, <1>5, <2>1 DEF Mirrors, RequestsFit
<1>10. InOrder'
  <2>1. /\ e.id \in used /\ e.time <= announced
        /\ \A f \in queue : e.time <= f.time
    BY <1>1, <1>2, <1>4 DEF Mirrors, InOrder
  <2> QED
    BY <1>1, <1>3, <1>4, <1>5, <2>1 DEF Mirrors, InOrder
<1>11. DeliveryIsLast'
  <2>1. \A f \in queue : e.type = "delivered" /\ IsUpdate(f) => f.id # e.id
    BY <1>1 DEF Mirrors, DeliveryIsLast
  <2>2. \A f \in pending', t \in thread' : f.type = "delivered" => t.Status = "delivered"
    BY <1>3, <1>4, <1>5
  <2> QED
    BY <1>1, <1>3, <1>4, <1>5, <2>1, <2>2 DEF Mirrors, DeliveryIsLast
<1>12. OneAtATime'
  BY <1>1, <1>3, <1>4, <1>7 DEF OneAtATime
<1>13. HandsFit'
  BY <1>7, IdleType DEF HandsFit
<1>14. DeletionsFit'
  BY <1>3, <1>4, <1>6 DEF DeletionsFit
<1>15. \A f \in queue : e.time <= f.time
  BY <1>1 DEF Mirrors, InOrder
<1>16. LastWordFits'
  BY <1>3, <1>4, <1>15 DEF Mirrors, LastWordFits, Fits
<1>17. ShownFits'
  <2>1. CASE \E f \in queue : f.id = e.id
    <3>1. \A f \in queue : IsUpdate(f)
      BY <1>4, <1>6 DEF TypeOK, Events, Updates, Deletions, IsUpdate
    <3> QED
      BY <1>4, <1>5, <2>1, <3>1 DEF ShownFits
  <2>2. CASE \A f \in queue : f.id # e.id
    <3>1. Fits(rows, requests, queue \cup pending, e.id, e.type)
      <4>1. \A f \in Words : f.id = e.id => f.time <= e.time
        BY <1>4, <2>2, TimesAreNatural
      <4> QED
        BY <1>2, <1>4, <4>1 DEF Mirrors, LastWordFits
    <3> QED
      BY <1>3, <1>5, <3>1 DEF ShownFits, Fits
  <2> QED
    BY <2>1, <2>2
<1>18. MessagesAreShown'
  BY DEF MessagesAreShown
<1> QED
  BY <1>8, <1>9, <1>10, <1>11, <1>12, <1>13, <1>14, <1>16, <1>17, <1>18 DEF Mirrors

LEMMA CreateThreadMirrors ==
    ASSUME TypeOK, Mirrors, Alone', NEW w \in Workers, CreateThread(w)
    PROVE  Mirrors'
<1> DEFINE event == worker[w].event
           new == [id |-> created + 1, IsArchived |-> FALSE,
                   UnreadCount |-> Arrived(event), Status |-> event.type,
                   LastMessageID |-> event.id, OrderTimestamp |-> event.time]
<1>1. worker[w].step = "insert" /\ thread = {}
  BY DEF CreateThread, Mirrors, HandsFit
<1>2. /\ thread' = {new} /\ worker' = [worker EXCEPT ![w] = Idle]
      /\ UNCHANGED <<messages, queue, announced>>
  BY <1>1 DEF CreateThread
<1>3. /\ new.LastMessageID = event.id /\ new.Status = event.type
      /\ new.OrderTimestamp = event.time
  OBVIOUS
<1> HIDE DEF new
<1> QED
  BY <1>1, <1>2, <1>3, ShowingMirrors

LEMMA UpdateActivityMirrors ==
    ASSUME TypeOK, Mirrors, Alone', NEW w \in Workers, UpdateActivity(w)
    PROVE  Mirrors'
<1> DEFINE event == worker[w].event
           there == { t \in thread : Loaded(t, w) }
<1>1. worker[w].step = "activity" /\ there = thread /\ thread # {}
  BY DEF UpdateActivity, Mirrors, HandsFit, Loaded
<1>2. /\ thread' = { ActivityUpdates(t, worker[w]) : t \in thread }
      /\ worker' = [worker EXCEPT ![w] = Idle]
      /\ UNCHANGED <<messages, queue, announced>>
  BY <1>1 DEF UpdateActivity
<1>3. \A t \in thread : LET u == ActivityUpdates(t, worker[w])
                        IN  /\ u.LastMessageID = event.id /\ u.Status = event.type
                            /\ u.OrderTimestamp = event.time
  BY DEF ActivityUpdates, TypeOK, Threads
<1>4. /\ thread' # {}
      /\ \A t \in thread' : /\ t.LastMessageID = event.id /\ t.Status = event.type
                            /\ t.OrderTimestamp = event.time
  BY <1>1, <1>2, <1>3
<1> QED
  BY <1>1, <1>2, <1>4, ShowingMirrors

\* A handler of a deletion has the conversation to itself.
LEMMA DeletionInHand ==
    ASSUME TypeOK, Mirrors, NEW w \in Workers, worker[w].step # "idle",
           worker[w].event.type \in {"deleted", "thread", "account"}
    PROVE  /\ requests = {} /\ Words = {worker[w].event} /\ pending = {} /\ queue = {}
           /\ InHand = {worker[w].event}
<1>1. worker[w].event \in InHand
  BY IdleType DEF InHand
<1>2. worker[w].event \notin queue /\ worker[w].event \in Words
  BY <1>1 DEF Mirrors, InOrder, Words
<1>3. requests = {} /\ Words = {worker[w].event} /\ pending = {}
  BY <1>2 DEF Mirrors, Alone
<1> QED
  BY <1>1, <1>2, <1>3 DEF Words

LEMMA ShowPreviousMirrors ==
    ASSUME TypeOK, Mirrors, Alone', NEW w \in Workers, ShowPrevious(w)
    PROVE  Mirrors'
<1> DEFINE e == worker[w].event
<1>1. PICK prev \in e.prev :
          thread' = { IF ~Loaded(t, w) THEN t
                      ELSE [t EXCEPT !.LastMessageID = prev.id,
                                     !.Status = prev.status] : t \in thread }
  BY DEF ShowPrevious
<1>2. /\ worker[w].step = "preview" /\ worker' = [worker EXCEPT ![w] = Idle]
      /\ UNCHANGED <<rows, used, requests, pending, queue, announced>>
  BY DEF ShowPrevious, messages
<1>3. /\ e.type = "deleted" /\ thread # {}
      /\ \A t \in thread : Loaded(t, w)
  BY <1>2 DEF Mirrors, HandsFit, Loaded
<1>4. requests = {} /\ Words = {e} /\ pending = {} /\ queue = {}
  BY <1>2, <1>3, DeletionInHand
<1>5. InHand' = {} /\ Words' = {}
  BY <1>2, <1>4, LeavesHand DEF Mirrors, Words
<1>6. prev \in rows
  BY <1>3, <1>4 DEF Mirrors, DeletionsFit
<1>7. \A t \in thread' :
          /\ t.LastMessageID = prev.id /\ t.Status = prev.status
          /\ \E u \in thread : t.OrderTimestamp = u.OrderTimestamp
  <2>1. \A t \in thread :
            LET u == [t EXCEPT !.LastMessageID = prev.id, !.Status = prev.status]
            IN  /\ u.LastMessageID = prev.id /\ u.Status = prev.status
                /\ u.OrderTimestamp = t.OrderTimestamp
    BY DEF TypeOK, Threads
  <2> QED
    BY <1>1, <1>3, <2>1
<1> HIDE DEF e
<1>8. RowsAreKnown'
  BY <1>2 DEF Mirrors, RowsAreKnown
<1>9. /\ ArrivalIsFirst' /\ InOrder' /\ DeliveryIsLast' /\ OneAtATime' /\ HandsFit'
      /\ LastWordFits'
  <2>1. \A t \in thread' : t.LastMessageID \in used' /\ t.OrderTimestamp <= announced'
    BY <1>2, <1>6, <1>7 DEF Mirrors, InOrder, RowsAreKnown
  <2>2. (/\ RowsAreKnown /\ InHand = {} /\ queue = {} /\ pending = {}
         /\ \A t \in thread :
                t.LastMessageID \in used /\ t.OrderTimestamp <= announced)'
    BY <1>2, <1>4, <1>5, <1>8, <2>1
  <2> QED
    BY <2>2, SilenceFits, PTL
<1>10. RequestsFit' /\ DeletionsFit'
  BY <1>2, <1>4, <1>5 DEF RequestsFit, DeletionsFit
<1>11. ShownFits'
  BY <1>2, <1>6, <1>7 DEF ShownFits, Fits
<1>12. MessagesAreShown'
  <2>1. thread' # {}
    BY <1>1, <1>3
  <2> QED
    BY <2>1 DEF MessagesAreShown
<1> QED
  BY <1>8, <1>9, <1>10, <1>11, <1>12 DEF Mirrors

\* Nothing is left, and nothing is told.
LEMMA NothingMirrors ==
    ASSUME Alone', rows' = {}, thread' = {}, requests' = {}, InHand' = {},
           queue' = {}, pending' = {}
    PROVE  Mirrors'
<1>1. RowsAreKnown'
  BY DEF RowsAreKnown
<1>2. /\ ArrivalIsFirst' /\ InOrder' /\ DeliveryIsLast' /\ OneAtATime' /\ HandsFit'
      /\ LastWordFits'
  <2>1. (/\ RowsAreKnown /\ InHand = {} /\ queue = {} /\ pending = {}
         /\ \A t \in thread :
                t.LastMessageID \in used /\ t.OrderTimestamp <= announced)'
    BY <1>1
  <2> QED
    BY <2>1, SilenceFits, PTL
<1>3. RequestsFit' /\ DeletionsFit' /\ ShownFits' /\ MessagesAreShown'
  BY DEF RequestsFit, DeletionsFit, ShownFits, MessagesAreShown, Words
<1> QED
  BY <1>1, <1>2, <1>3 DEF Mirrors

LEMMA RemoveThreadMirrors ==
    ASSUME TypeOK, Mirrors, Alone', NEW w \in Workers, RemoveThread(w)
    PROVE  Mirrors'
<1> DEFINE e == worker[w].event
<1>1. /\ worker[w].step = "remove" /\ worker' = [worker EXCEPT ![w] = Idle]
      /\ thread' = { t \in thread : ~Loaded(t, w) }
      /\ UNCHANGED <<rows, used, requests, pending, queue, announced>>
  BY DEF RemoveThread, messages
<1>2. e.type = "deleted" /\ e.prev = {} /\ thread' = {}
  BY <1>1 DEF Mirrors, HandsFit, Loaded
<1>3. requests = {} /\ Words = {e} /\ pending = {} /\ queue = {}
  BY <1>1, <1>2, DeletionInHand
<1>4. InHand' = {}
  BY <1>1, LeavesHand DEF Mirrors
<1>5. rows = {}
  BY <1>2, <1>3 DEF Mirrors, DeletionsFit
<1> QED
  BY <1>1, <1>2, <1>3, <1>4, <1>5, NothingMirrors

LEMMA DeleteAllForUserMirrors ==
    ASSUME TypeOK, Mirrors, Alone', NEW w \in Workers, DeleteAllForUser(w)
    PROVE  Mirrors'
<1> DEFINE e == worker[w].event
<1>1. /\ worker[w].step = "account" /\ worker' = [worker EXCEPT ![w].step = "messages"]
      /\ thread' = {}
      /\ UNCHANGED <<rows, used, requests, pending, queue, announced>>
  BY DEF DeleteAllForUser, messages
<1>2. e.type = "account"
  BY <1>1 DEF Mirrors, HandsFit
<1>3. /\ requests = {} /\ Words = {e} /\ pending = {} /\ queue = {} /\ InHand = {e}
  BY <1>1, <1>2, DeletionInHand
<1>4. /\ worker'[w].step = "messages" /\ worker'[w].event = e
      /\ \A v \in Workers \ {w} : worker'[v] = worker[v]
  BY <1>1 DEF TypeOK, Tasks
<1>5. worker[w] # Idle /\ worker'[w] # Idle
  BY <1>1, <1>4, IdleType
<1>6. \A v \in Workers \ {w} : worker'[v] = Idle /\ worker'[v].step = "idle"
  BY <1>4, <1>5, IdleType DEF Mirrors, OneAtATime
<1>7. InHand' = {e} /\ Words' = {e}
  <2>1. { v \in Workers : worker'[v] # Idle } = {w}
    BY <1>5, <1>6
  <2>2. InHand' = {e}
    BY <1>4, <2>1 DEF InHand
  <2> QED
    BY <1>1, <1>3, <2>2 DEF Words
<1> HIDE DEF e
<1>8. RowsAreKnown' /\ ArrivalIsFirst'
  BY <1>1, <1>3, <1>7 DEF Mirrors, RowsAreKnown, ArrivalIsFirst
<1>9. RequestsFit'
  BY <1>1, <1>3 DEF RequestsFit
<1>10. InOrder'
  BY <1>1, <1>3, <1>7 DEF Mirrors, InOrder
<1>11. DeliveryIsLast'
  BY <1>1, <1>2, <1>3, <1>7 DEF DeliveryIsLast
<1>12. OneAtATime'
  BY <1>1, <1>3, <1>6, <1>7 DEF OneAtATime
<1>13. HandsFit'
  BY <1>1, <1>2, <1>4, <1>6 DEF HandsFit, e
<1>14. DeletionsFit' /\ LastWordFits' /\ ShownFits'
  BY <1>1, <1>2, <1>3, <1>7
     DEF DeletionsFit, LastWordFits, ShownFits, IsUpdate, Statuses
<1>15. MessagesAreShown'
  BY <1>1, <1>3, <1>4 DEF MessagesAreShown, Emptying
<1> QED
  BY <1>8, <1>9, <1>10, <1>11, <1>12, <1>13, <1>14, <1>15 DEF Mirrors

LEMMA DeleteMessagesMirrors ==
    ASSUME TypeOK, Mirrors, Alone', NEW w \in Workers, DeleteMessages(w)
    PROVE  Mirrors'
<1>1. /\ worker[w].step = "messages" /\ worker' = [worker EXCEPT ![w] = Idle]
      /\ rows' = {} /\ UNCHANGED <<used, requests, pending, queue, announced, thread>>
  BY DEF DeleteMessages
<1>2. thread = {} /\ worker[w].event.type \in {"thread", "account"}
  BY <1>1 DEF Mirrors, HandsFit
<1>3. requests = {} /\ pending = {} /\ queue = {}
  BY <1>1, <1>2, DeletionInHand
<1>4. InHand' = {}
  BY <1>1, LeavesHand DEF Mirrors
<1> QED
  BY <1>1, <1>2, <1>3, <1>4, NothingMirrors

----------------------------------------------------------------------------
(* Together. *)

LEMMA MirrorInit == Init => MirrorInv
<1> SUFFICES ASSUME Init PROVE MirrorInv
  OBVIOUS
<1>1. /\ rows = {} /\ requests = {} /\ queue = {} /\ pending = {} /\ thread = {}
      /\ \A w \in Workers : worker[w] = Idle
  BY DEF Init
<1>2. InHand = {} /\ Words = {}
  BY <1>1 DEF InHand, Words
<1>3. UnderWayIsFinite
  BY <1>1, FS_EmptySet DEF UnderWayIsFinite
<1>4. RowsAreKnown
  BY <1>1 DEF RowsAreKnown
<1>5. /\ ArrivalIsFirst /\ InOrder /\ DeliveryIsLast /\ OneAtATime /\ HandsFit
      /\ LastWordFits
  BY <1>1, <1>2, <1>4, SilenceFits
<1>6. Alone /\ RequestsFit /\ DeletionsFit /\ ShownFits /\ MessagesAreShown
  BY <1>1, <1>2 DEF Alone, RequestsFit, DeletionsFit, ShownFits, MessagesAreShown
<1> QED
  BY <1>3, <1>4, <1>5, <1>6 DEF MirrorInv, Mirrors

LEMMA MirrorStep ==
    ASSUME TypeOK, UnreadInv, UnderWayIsFinite, Mirrors, Next, Undisturbed, Undisturbed'
    PROVE  Mirrors'
<1>1. Alone' /\ ~Overtakes /\ faults = 0 /\ faults' = 0
  BY StaysUndisturbed DEF Undisturbed
<1>2. ASSUME NEW id \in MessageIDs,
             \/ \E status \in {"pending", "received"} : StoreMessage(id, status)
             \/ ReceiveMessage(id)
      PROVE  Mirrors'
  BY <1>1, <1>2, StoreMessageMirrors, ReceiveMessageMirrors
<1>3. CASE Fetch \/ ReportDelivered \/ UpdateMessage
  BY <1>1, <1>3, FetchMirrors, ReportDeliveredMirrors, UpdateMessageMirrors
<1>4. CASE DeleteMessage \/ DeleteThread \/ DeleteAccount \/ UpdateStatus
  BY <1>1, <1>4, DeleteMessageMirrors, DeleteThreadMirrors, DeleteAccountMirrors,
     UpdateStatusMirrors
<1>5. CASE RequestNext
  BY <1>1, <1>5, AnnounceMessageMirrors, StoreReceivedMessageMirrors,
     AnnounceDeletedMirrors, AnnounceThreadDeletedMirrors DEF RequestNext
<1>6. CASE \E w \in Workers : Deliver(w)
  BY <1>1, <1>6, DeliverMirrors
<1>7. CASE \E w \in Workers : HandlerNext(w)
  BY <1>1, <1>7, CreateThreadMirrors, UpdateActivityMirrors, ShowPreviousMirrors,
     RemoveThreadMirrors, DeleteAllForUserMirrors, DeleteMessagesMirrors
     DEF HandlerNext
<1> QED
  BY <1>2, <1>3, <1>4, <1>5, <1>6, <1>7 DEF Next

LEMMA MirrorNext == TypeOK /\ UnreadInv /\ MirrorInv /\ [Next]_vars => MirrorInv'
<1> SUFFICES ASSUME TypeOK, UnreadInv, MirrorInv, [Next]_vars PROVE MirrorInv'
  OBVIOUS
<1>1. UnderWayIsFinite'
  BY UnderWayNext DEF MirrorInv
<1>2. CASE UNCHANGED vars
  <2>1. UNCHANGED <<rows, used, requests, queue, announced, thread, worker, pending,
                    orderly, faults>>
    BY <1>2 DEF vars, messages, history
  <2>2. InHand' = InHand /\ Words' = Words
    BY <2>1, HandsKept DEF Words
  <2>3. Mirrors => Mirrors'
    BY <2>1, <2>2
       DEF Mirrors, Alone, RowsAreKnown, ArrivalIsFirst, RequestsFit, InOrder,
           DeliveryIsLast, OneAtATime, HandsFit, DeletionsFit, LastWordFits,
           ShownFits, MessagesAreShown, Emptying, Fits
  <2> QED
    BY <1>1, <2>1, <2>3 DEF MirrorInv, Undisturbed
<1>3. CASE Next
  <2>1. ASSUME Undisturbed' PROVE Mirrors'
    <3>1. Undisturbed /\ UnderWayIsFinite /\ Mirrors
      BY <1>3, <2>1, StaysUndisturbed DEF MirrorInv
    <3> QED
      BY <1>3, <2>1, <3>1, MirrorStep
  <2> QED
    BY <1>1, <2>1 DEF MirrorInv
<1> QED
  BY <1>2, <1>3

LEMMA MirrorSuffices == MirrorInv => ThreadMirrorsMessages
<1> SUFFICES ASSUME MirrorInv, Quiet, orderly, faults = 0
             PROVE  /\ rows # {} <=> thread # {}
                    /\ \A t \in thread : \E m \in rows :
                           m.id = t.LastMessageID /\ m.status = t.Status
  BY DEF ThreadMirrorsMessages
<1>1. /\ Mirrors /\ requests = {} /\ queue = {} /\ pending = {} /\ InHand = {}
      /\ Words = {}
  BY DEF MirrorInv, Undisturbed, Quiet, Words
<1>2. \A t \in thread : \E m \in rows :
          m.id = t.LastMessageID /\ m.status = t.Status
  BY <1>1 DEF Mirrors, ShownFits, Fits
<1>3. rows # {} => thread # {}
  BY <1>1, NoHandsAtWork DEF Mirrors, MessagesAreShown, Emptying
<1> QED
  BY <1>2, <1>3

\* When events are handled one by one in their order, and no deletion overlaps
\* with anything, the list of conversations is right whenever all is done, for
\* any number of messages and of handlers: a conversation is listed if and only
\* if it has a message, and shows one that exists, with its status.
THEOREM ThreadsMirrorMessages == Spec => []ThreadMirrorsMessages
<1>1. Init => TypeOK /\ UnreadInv /\ MirrorInv
  BY TypeInit, UnreadInit, MirrorInit
<1>2. TypeOK /\ UnreadInv /\ MirrorInv /\ [Next]_vars
          => (TypeOK /\ UnreadInv /\ MirrorInv)'
  BY TypeNext, UnreadNext, MirrorNext
<1> QED
  BY <1>1, <1>2, MirrorSuffices, PTL DEF Spec
=============================================================================
