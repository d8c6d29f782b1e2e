---------------------------- MODULE Conversation ----------------------------
(****************************************************************************)
(* One conversation of a phone number with a contact: its messages, and the *)
(* row of message_threads that shows it in the list of conversations        *)
(* (api/pkg/services/message_thread_service.go).  The messages are written  *)
(* by the requests of users and phones, the thread by the handlers of the   *)
(* events those requests announce, later and in any order.                  *)
(*                                                                          *)
(* Of the ways of an outgoing message, one is kept: it is stored, fetched,  *)
(* and reported as delivered; the others are MessageLifecycle's.  An event's*)
(* time is its place in the order of announcements.                         *)
(****************************************************************************)
EXTENDS Integers, FiniteSets

CONSTANTS
    MessageIDs,       \* IDs of messages
    Workers,          \* goroutines that handle events at the same time
    UnarchiveThread,  \* the setting of the phone
    MaxAnnounced,     \* bound on the events announced
    MaxThreads,       \* bound on the thread rows created
    MaxFaults         \* bound on the things that go wrong

ASSUME ConversationAssumption ==
    /\ IsFiniteSet(MessageIDs) /\ IsFiniteSet(Workers)
    /\ UnarchiveThread \in BOOLEAN
    /\ {MaxAnnounced, MaxThreads, MaxFaults} \subseteq Nat

VARIABLES
    rows,       \* the messages stored
    used,       \* history: IDs given so far
    requests,   \* requests that are half done
    queue,      \* events waiting
    announced,  \* number of events announced
    thread,     \* the thread row, if there is one
    created,    \* number of thread rows created
    worker,     \* worker[w]: the event w handles and the row it has loaded
    pending,    \* the updates of message rows that the same events cause
    arrivals,   \* history: arrivals handled since the thread was created or read
    orderly,    \* history: no event overtook another, no deletion overlapped
    faults      \* history: things that have gone wrong so far

messages == <<rows, used, requests, pending>>
history  == <<arrivals, faults>>
vars == <<messages, queue, announced, thread, created, worker, history, orderly>>

NoID     == "none"
Statuses == {"pending", "sending", "delivered", "received"}
Times    == 0..MaxAnnounced

Messages == [id : MessageIDs, status : Statuses, time : Times]

\* An event updates the thread with a message, or deletes.
Updates   == [type : Statuses, id : MessageIDs, time : Times, prev : {{}}]
Deletions == [type : {"deleted", "thread", "account"}, id : MessageIDs \cup {NoID},
              time : Times, prev : SUBSET Messages]
Events    == Updates \cup Deletions

Requests ==
    [op : {"announce", "store"}, type : {"pending", "received"}, id : MessageIDs,
     time : Times]
    \cup [op : {"previous"}, type : {"deleted"}, id : MessageIDs, time : Times]
    \cup [op : {"thread"}, type : {"thread"}, id : {NoID}, time : Times]

Threads == [id : 1..MaxThreads, IsArchived : BOOLEAN, UnreadCount : Nat,
            Status : Statuses, LastMessageID : MessageIDs, OrderTimestamp : Times]

NoEvent == [type |-> "none", id |-> NoID, time |-> 0, prev |-> {}]

Tasks == [step : {"idle", "insert", "activity", "preview", "remove", "messages",
                  "account"},
          event : Events \cup {NoEvent}, loaded : SUBSET Threads,
          unarchive : BOOLEAN]

\* loaded: the row that the handler has found, if any.
Task(step, event, loaded, unarchive) ==
    [step |-> step, event |-> event, loaded |-> loaded, unarchive |-> unarchive]

Idle == Task("idle", NoEvent, {}, FALSE)

TypeOK ==
    /\ rows \subseteq Messages
    /\ used \subseteq MessageIDs
    /\ requests \subseteq Requests
    /\ pending \subseteq Updates
    /\ queue \subseteq Events
    /\ announced \in Times
    /\ thread \subseteq Threads
    /\ created \in 0..MaxThreads
    /\ worker \in [Workers -> Tasks]
    /\ \A w \in Workers :
           worker[w].step \in {"insert", "activity"} => worker[w].event \in Updates
    /\ arrivals \in Nat
    /\ orderly \in BOOLEAN
    /\ faults \in 0..MaxFaults

Init ==
    /\ rows = {} /\ used = {} /\ requests = {} /\ pending = {}
    /\ queue = {} /\ announced = 0
    /\ thread = {} /\ created = 0
    /\ worker = [w \in Workers |-> Idle]
    /\ arrivals = 0
    /\ orderly = TRUE
    /\ faults = 0

Fault == faults < MaxFaults /\ faults' = faults + 1

\* The time of the next announcement.
now == announced + 1

Event(type, id, prev) == [type |-> type, id |-> id, time |-> now, prev |-> prev]

Announce(event) ==
    /\ announced < MaxAnnounced
    /\ announced' = now
    /\ queue' = queue \cup {event}

Request(op, type, id) == [op |-> op, type |-> type, id |-> id, time |-> now]

----------------------------------------------------------------------------
(* Requests that write messages. *)

\* SendMessage and RegisterMissedCall store the message, then announce it.
StoreMessage(id, status) ==
    /\ status \in {"pending", "received"}
    /\ id \notin used /\ announced < MaxAnnounced
    /\ used' = used \cup {id}
    /\ rows' = rows \cup {[id |-> id, status |-> status, time |-> now]}
    /\ requests' = requests \cup {Request("announce", status, id)}
    /\ UNCHANGED <<pending, queue, announced, thread, created, worker, history>>

AnnounceMessage ==
    \E r \in requests :
        /\ r.op = "announce"
        /\ requests' = requests \ {r}
        /\ Announce(Event(r.type, r.id, {}))
        /\ UNCHANGED <<rows, used, pending, thread, created, worker, history>>

\* ReceiveMessage announces the message first and stores it afterwards.
ReceiveMessage(id) ==
    /\ id \notin used
    /\ used' = used \cup {id}
    /\ Announce(Event("received", id, {}))
    /\ requests' = requests \cup {Request("store", "received", id)}
    /\ UNCHANGED <<rows, pending, thread, created, worker, history>>

StoreReceivedMessage ==
    \E r \in requests :
        /\ r.op = "store"
        /\ requests' = requests \ {r}
        /\ \/ /\ rows' = rows \cup
                  {[id |-> r.id, status |-> "received", time |-> r.time]}
              /\ UNCHANGED faults
           \/ Fault /\ UNCHANGED rows
        /\ UNCHANGED <<used, pending, queue, announced, thread, created, worker,
                       arrivals>>

\* GetOutstanding: the phone fetches the message, of which a push that the
\* announcement caused has told it.
Fetch ==
    \E m \in rows :
        /\ m.status = "pending"
        /\ \A r \in requests : r.op = "announce" => r.id # m.id
        /\ rows' = (rows \ {m}) \cup {[m EXCEPT !.status = "sending"]}
        /\ Announce(Event("sending", m.id, {}))
        /\ UNCHANGED <<used, requests, pending, thread, created, worker, history>>

\* StoreEvent: the phone reports the delivery of what it has fetched.
ReportDelivered ==
    \E m \in rows :
        /\ m.status = "sending"
        /\ ~ \E e \in queue \cup pending : e.type = "delivered" /\ e.id = m.id
        /\ Announce(Event("delivered", m.id, {}))
        /\ UNCHANGED <<messages, thread, created, worker, history>>

\* A handler of the message service, next to the thread's of the same event:
\* HandleMessageSending, HandleMessageDelivered.
UpdateMessage ==
    \E e \in pending :
        /\ pending' = pending \ {e}
        /\ rows' = { IF m.id # e.id \/ m.status # "sending" THEN m
                     ELSE [m EXCEPT !.status = e.type,
                               !.time = IF @ < e.time THEN e.time ELSE @] :
                     m \in rows }
        /\ UNCHANGED <<used, requests, queue, announced, thread, created, worker,
                       history>>

----------------------------------------------------------------------------
(* Deletions by the user. *)

DeleteMessage ==
    \E m \in rows :
        /\ announced < MaxAnnounced
        /\ rows' = rows \ {m}
        /\ requests' = requests \cup {Request("previous", "deleted", m.id)}
        /\ UNCHANGED <<used, pending, queue, announced, thread, created, worker,
                       history>>

\* Mutant: the last message is looked up before the message is deleted.
PreviousBefore(id) ==
    {{[id |-> id, status |-> "received", time |-> 0]}}

\* LastMessage, once the message is deleted; among messages of the same time
\* the database chooses.
Previous(id) ==
    IF rows = {} THEN {{}}
    ELSE { {m} : m \in { n \in rows : \A o \in rows : o.time <= n.time } }

\* A failure to read the previous message is taken for there being none.
AnnounceDeleted ==
    \E r \in requests :
        /\ r.op = "previous"
        /\ requests' = requests \ {r}
        /\ \/ /\ \E prev \in Previous(r.id) : Announce(Event("deleted", r.id, prev))
              /\ UNCHANGED faults
           \/ Fault /\ Announce(Event("deleted", r.id, {}))
        /\ UNCHANGED <<rows, used, pending, thread, created, worker, arrivals>>

DeleteThread ==
    /\ thread # {} /\ announced < MaxAnnounced
    /\ thread' = {}
    /\ arrivals' = 0
    /\ requests' = requests \cup {Request("thread", "thread", NoID)}
    /\ UNCHANGED <<rows, used, pending, queue, announced, created, worker, faults>>

AnnounceThreadDeleted ==
    \E r \in requests :
        /\ r.op = "thread"
        /\ requests' = requests \ {r}
        /\ Announce(Event("thread", NoID, {}))
        /\ UNCHANGED <<rows, used, pending, thread, created, worker, history>>

\* The account of the user is deleted.
DeleteAccount ==
    /\ rows # {} \/ thread # {}
    /\ Announce(Event("account", NoID, {}))
    /\ UNCHANGED <<messages, thread, created, worker, history>>

\* UpdateStatus: the user archives the thread or not, or has read it.
UpdateStatus ==
    \E t \in thread :
        /\ \/ /\ \E archived \in BOOLEAN :
                     thread' = {[t EXCEPT !.IsArchived = archived]}
              /\ UNCHANGED arrivals
           \/ /\ t.UnreadCount > 0
              /\ thread' = {[t EXCEPT !.UnreadCount = 0]}
              /\ arrivals' = 0
        /\ UNCHANGED <<messages, queue, announced, created, worker, faults>>

----------------------------------------------------------------------------
(* Handlers of the thread. *)

Unarchives(t, event) == t.IsArchived /\ event.type = "received" /\ UnarchiveThread

\* UpdateThread leaves the thread alone for a late event of the message it
\* shows, and for any event of that message after its delivery.
Ignored(t, event) ==
    /\ t.LastMessageID = event.id
    /\ \/ t.OrderTimestamp > event.time /\ t.Status # "sending"
       \/ t.Status = "delivered"

Loaded(t, w) == \E l \in worker[w].loaded : l.id = t.id

\* UpdateThread, until it has loaded the thread.
LoadForUpdate(event) ==
    IF thread = {} THEN {Task("insert", event, {}, FALSE)}
    ELSE { IF Ignored(t, event) THEN Idle
           ELSE Task("activity", event, {t}, Unarchives(t, event)) : t \in thread }

\* UpdateAfterDeletedMessage, likewise.
LoadForDeleted(event) ==
    IF thread = {} THEN {Idle}
    ELSE { CASE event.prev = {} -> Task("remove", event, {t}, FALSE)
             [] event.prev # {} /\ t.LastMessageID # event.id -> Idle
             [] OTHER -> Task("preview", event, {t}, FALSE) : t \in thread }

\* Mutant: a deletion updates the thread as any event does.
LoadAnyForUpdate(event) ==
    CASE event.type = "thread"  -> {Task("messages", event, {}, FALSE)}
      [] event.type = "account" -> {Task("account", event, {}, FALSE)}
      [] OTHER                  -> LoadForUpdate(event)

Load(event) ==
    CASE event.type = "thread"  -> {Task("messages", event, {}, FALSE)}
      [] event.type = "account" -> {Task("account", event, {}, FALSE)}
      [] event.type = "deleted" -> LoadForDeleted(event)
      [] OTHER                  -> LoadForUpdate(event)

\* An event is delivered, and perhaps not for the last time; the phone that
\* says whether to unarchive the thread may not be found.
Deliver(w) ==
    \E event \in queue :
        /\ worker[w] = Idle
        /\ pending' = IF event.type \in {"sending", "delivered"}
                      THEN pending \cup {event} ELSE pending
        /\ \E task \in Load(event) :
               \/ /\ worker' = [worker EXCEPT ![w] = task]
                  /\ queue' = queue \ {event}
                  /\ UNCHANGED faults
               \/ /\ Fault
                  /\ worker' = [worker EXCEPT ![w] = task]
                  /\ UNCHANGED queue
               \/ /\ task.unarchive
                  /\ Fault
                  /\ worker' = [worker EXCEPT ![w] = [task EXCEPT !.unarchive = FALSE]]
                  /\ queue' = queue \ {event}
        /\ UNCHANGED <<rows, used, requests, announced, thread, created, arrivals>>

Arrived(event) == IF event.type = "received" THEN 1 ELSE 0

\* Mutant: a conflict is always ignored.
ConflictIgnored(t, event) == t

\* Store: on a conflict, an arrival adds itself to the row that is there.
Conflict(t, event) == [t EXCEPT !.UnreadCount = @ + Arrived(event)]

\* createThread.
CreateThread(w) ==
    /\ worker[w].step = "insert"
    /\ LET event == worker[w].event IN
       /\ \/ /\ thread = {}
             /\ created < MaxThreads
             /\ created' = created + 1
             /\ thread' = {[id |-> created', IsArchived |-> FALSE,
                            UnreadCount |-> Arrived(event), Status |-> event.type,
                            LastMessageID |-> event.id,
                            OrderTimestamp |-> event.time]}
          \/ /\ thread # {}
             /\ thread' = { Conflict(t, event) : t \in thread }
             /\ UNCHANGED created
       /\ arrivals' = arrivals + Arrived(event)
    /\ worker' = [worker EXCEPT ![w] = Idle]
    /\ UNCHANGED <<messages, queue, announced, faults>>

\* Mutant: the row that was loaded is saved as a whole.
ActivityUpdatesOfLoaded(t, task) ==
    [(CHOOSE l \in task.loaded : TRUE) EXCEPT !.OrderTimestamp = task.event.time,
                        !.LastMessageID = task.event.id,
                        !.Status = task.event.type,
                        !.UnreadCount = @ + Arrived(task.event)]

\* messageThreadActivityUpdates: only what the update is about is written, and
\* the count is raised by the database.
ActivityUpdates(t, task) ==
    [t EXCEPT !.OrderTimestamp = task.event.time,
              !.LastMessageID = task.event.id,
              !.Status = task.event.type,
              !.IsArchived = IF task.unarchive THEN FALSE ELSE @,
              !.UnreadCount = @ + Arrived(task.event)]

\* UpdateActivity: that the thread is gone is an error, which is logged.
UpdateActivity(w) ==
    /\ worker[w].step = "activity"
    /\ LET there == { t \in thread : Loaded(t, w) } IN
       IF there = {} THEN UNCHANGED <<thread, arrivals>>
       ELSE /\ thread' = { ActivityUpdates(t, worker[w]) : t \in there }
            /\ arrivals' = arrivals + Arrived(worker[w].event)
    /\ worker' = [worker EXCEPT ![w] = Idle]
    /\ UNCHANGED <<messages, queue, announced, created, faults>>

\* UpdateAfterDeletedMessage: the thread shows the message before.
ShowPrevious(w) ==
    /\ worker[w].step = "preview"
    /\ \E prev \in worker[w].event.prev :
           thread' = { IF ~Loaded(t, w) THEN t
                       ELSE [t EXCEPT !.LastMessageID = prev.id,
                                      !.Status = prev.status] : t \in thread }
    /\ worker' = [worker EXCEPT ![w] = Idle]
    /\ UNCHANGED <<messages, queue, announced, created, history>>

\* UpdateAfterDeletedMessage: without a message before, the thread goes.
RemoveThread(w) ==
    /\ worker[w].step = "remove"
    /\ thread' = { t \in thread : ~Loaded(t, w) }
    /\ arrivals' = IF thread' = {} THEN 0 ELSE arrivals
    /\ worker' = [worker EXCEPT ![w] = Idle]
    /\ UNCHANGED <<messages, queue, announced, created, faults>>

\* The listeners of threads and of messages each delete what is theirs.
DeleteAllForUser(w) ==
    /\ worker[w].step = "account"
    /\ thread' = {}
    /\ arrivals' = 0
    /\ worker' = [worker EXCEPT ![w].step = "messages"]
    /\ UNCHANGED <<messages, queue, announced, created, faults>>

\* DeleteByOwnerAndContact, on the deletion of the thread.
DeleteMessages(w) ==
    /\ worker[w].step = "messages"
    /\ rows' = {}
    /\ worker' = [worker EXCEPT ![w] = Idle]
    /\ UNCHANGED <<used, requests, pending, queue, announced, thread, created,
                   history>>

----------------------------------------------------------------------------
(* The order of things, for the properties. *)

InHand == { worker[w].event : w \in { v \in Workers : worker[v] # Idle } }
Quiet  == requests = {} /\ queue = {} /\ pending = {} /\ InHand = {}

\* Something else is under way while a message or the thread is deleted.
Overlap ==
    /\ \/ \E r \in requests : r.op \in {"previous", "thread"}
       \/ \E e \in queue \cup InHand : e.type \in {"deleted", "thread", "account"}
    /\ Cardinality(requests) + Cardinality(queue \cup InHand \cup pending) > 1

\* An event is taken before those announced earlier are done.
Overtakes ==
    \E e \in InHand' \cup pending' : e \in queue \ queue' /\
        \/ \E f \in queue : f.time < e.time
        \/ InHand # {} \/ pending # {}

Note == orderly' = (orderly /\ ~Overtakes /\ ~Overlap')

HandlerNext(w) ==
    \/ CreateThread(w)
    \/ UpdateActivity(w)
    \/ ShowPrevious(w)
    \/ RemoveThread(w)
    \/ DeleteAllForUser(w)
    \/ DeleteMessages(w)

RequestNext ==
    \/ AnnounceMessage
    \/ StoreReceivedMessage
    \/ AnnounceDeleted
    \/ AnnounceThreadDeleted

Next ==
    /\ \/ \E id \in MessageIDs :
              \/ \E status \in {"pending", "received"} : StoreMessage(id, status)
              \/ ReceiveMessage(id)
       \/ Fetch
       \/ ReportDelivered
       \/ DeleteMessage
       \/ DeleteThread
       \/ DeleteAccount
       \/ UpdateStatus
       \/ RequestNext
       \/ UpdateMessage
       \/ \E w \in Workers : Deliver(w) \/ HandlerNext(w)
    /\ Note

Spec == Init /\ [][Next]_vars

----------------------------------------------------------------------------
(* Properties. *)

\* The count of unread messages is the number of arrivals since the thread was
\* created or read: none is lost or counted twice when two handlers meet, when
\* both find no thread, or when the user reads or deletes it in between.
UnreadIsExact == \A t \in thread : t.UnreadCount = arrivals

\* When the events of a conversation are handled one by one in their order, and
\* no deletion overlaps with anything, the list of conversations is right
\* whenever all is done: a thread is there if and only if a message is, and it
\* shows one that exists, with its status.
ThreadMirrorsMessages ==
    Quiet /\ orderly /\ faults = 0 =>
        /\ rows # {} <=> thread # {}
        /\ \A t \in thread : \E m \in rows :
               m.id = t.LastMessageID /\ m.status = t.Status

\* Whether a thread is archived is for its user to say: a handler only brings a
\* thread back, for an arrival, and if the phone is set to, whatever was loaded
\* before the user chose.
ArchivedByChoice ==
    [][ \A t \in thread, u \in thread' :
            t.id = u.id /\ t.IsArchived # u.IsArchived =>
                \/ UpdateStatus
                \/ \E w \in Workers :
                       worker[w].unarchive /\ t.IsArchived ]_vars
============================================================================
