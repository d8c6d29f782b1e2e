------------------------------- MODULE Billing -------------------------------
(****************************************************************************)
(* The account of one user: the row of users with its subscription, and the *)
(* rows of billing_usage that count the messages and limit them             *)
(* (billing_service.go and user_service.go in api/pkg/services).            *)
(*                                                                          *)
(* Time is counted in ticks.  All months have Month ticks, and the last tick*)
(* of a cycle stands for its last second, after the timestamp it ends with. *)
(* What real months add is in BillingCycle.  Sent and received messages are *)
(* counted together, as TotalMessages does, and the installation is one that*)
(* enforces limits (ENTITLEMENT_ENABLED).                                   *)
(*                                                                          *)
(* The transactions of billing_usage run at the database's own isolation,   *)
(* READ COMMITTED on the PostgreSQL of docker-compose.example.yml: each     *)
(* statement sees what is committed by then, so each is a step, and the     *)
(* commit is one with the last.  No index keeps two rows of a cycle apart.  *)
(****************************************************************************)
EXTENDS Integers, FiniteSets, FiniteSetsExt, Functions

CONSTANTS
    Workers,         \* goroutines: requests and handlers of events
    Month,           \* length of a cycle
    Created,         \* the tick of the month at which accounts are created
    Renewals,        \* times at which a subscription may renew
    FreeLimit,       \* messages of a cycle on the free plan
    PaidLimit,       \* messages of a cycle on the paid plan
    AlertAt,         \* the usage at which free users are warned
    MaxTime,         \* bound on time
    MaxMessages,     \* bound on the messages accepted
    MaxRows,         \* bound on the rows of billing_usage ever created
    MaxChanges,      \* bound on the changes to the account asked for
    MaxFaults,       \* bound on the things that go wrong
    MaxOddities      \* bound on the kinds of oddities of one behaviour

ASSUME BillingAssumption ==
    /\ {Month, FreeLimit, PaidLimit, AlertAt, MaxTime, MaxMessages, MaxRows,
        MaxChanges, MaxFaults, MaxOddities} \subseteq Nat
    /\ Month > 1 /\ Created \in 0..(Month - 1)
    /\ AlertAt \in 1..FreeLimit
    /\ Renewals \subseteq Nat
    /\ IsFiniteSet(Workers)

VARIABLES
    now,         \* the time
    user,        \* the row of the user, if there is one
    usage,       \* the rows of billing_usage
    making,      \* making[w]: the row that w's transaction has found missing
    waiting,     \* waiting[t]: events of accepted messages with the time t
    registered,  \* history: messages registered since the account began
    events,      \* kinds of events of the account that are waiting
    tasks,       \* tasks[w]: what w is doing
    changes,     \* number of changes to the account asked for
    created,     \* number of rows of billing_usage created
    warned,      \* history: starts of the cycles with a usage alert
    refused,     \* history: starts of the cycles in which a message was refused
    burst,       \* history: the most messages in flight at a check
    oddities,    \* history: what has happened out of the ordinary
    faults       \* history: number of things that have gone wrong

accountVars == <<user, events, changes>>
usageVars   == <<usage, created, making, registered, waiting>>
historyVars == <<warned, refused, burst>>
vars == <<now, accountVars, usageVars, tasks, historyVars, oddities, faults>>

Times == 0..MaxTime

Users == [plan : {"free", "paid"}, subscribed : BOOLEAN, renews : SUBSET Renewals]

NewUser == [plan |-> "free", subscribed |-> FALSE, renews |-> {}]

Rows == [id : 1..MaxRows, start : Int, used : Nat]

Subscriptions == {"created", "updated", "cancelled", "expired"}

Oddities == {"shifted",  \* cycles may overlap: the anchor moved, or a last second
             "overlap",  \* two registrations at the same time
             "raced",    \* a row made beside one that covers the same time
             "crossed",  \* the account deleted before the row of its user is made
             "late",     \* a registration or a new row in a later cycle
             "unread",   \* a row could not be read
             "lost",     \* a registration, an e-mail or an event was lost
             "again"}    \* an event was delivered twice

Steps == {"idle", "usage", "entitled", "register", "alert", "alertUsage",
          "save", "delete", "announce"}

\* A task holds the user row it has loaded and the event it handles.
Tasks == [step : Steps, user : SUBSET Users,
          event : Subscriptions \cup {"settings", "none"}, renews : SUBSET Renewals]

Task(step, row, event, renews) ==
    [step |-> step, user |-> row, event |-> event, renews |-> renews]

Idle == Task("idle", {}, "none", {})

\* The time a new row is for, and the start of its cycle once the user is read.
Makings == [step : {"none", "read", "insert"}, at : Times, start : Int]

MakesNone == [step |-> "none", at |-> 0, start |-> 0]

TypeOK ==
    /\ now \in Times
    /\ user \subseteq Users /\ Cardinality(user) <= 1
    /\ usage \subseteq Rows
    /\ making \in [Workers -> Makings]
    /\ waiting \in [Times -> Nat]
    /\ registered \in Nat
    /\ events \subseteq Subscriptions \cup {"deleted"}
    /\ tasks \in [Workers -> Tasks]
    /\ changes \in 0..MaxChanges /\ created \in 0..MaxRows
    /\ warned \subseteq Int /\ refused \subseteq Int
    /\ burst \in Nat
    /\ oddities \subseteq Oddities
    /\ faults \in 0..MaxFaults

Init ==
    /\ now = 0 /\ user = {NewUser}
    /\ usage = {} /\ making = [w \in Workers |-> MakesNone]
    /\ waiting = [t \in Times |-> 0] /\ registered = 0
    /\ events = {} /\ changes = 0 /\ created = 0
    /\ tasks = [w \in Workers |-> Idle]
    /\ warned = {} /\ refused = {} /\ burst = 0
    /\ oddities = {} /\ faults = 0

Become(w, task) == tasks' = [tasks EXCEPT ![w] = task]

\* The history of what is out of the ordinary, without and with a fault.
Remember(odd) ==
    /\ Cardinality(oddities \cup odd) <= MaxOddities
    /\ oddities' = oddities \cup odd

Note(odd) == Remember(odd) /\ UNCHANGED faults

Fault(odd) == faults < MaxFaults /\ faults' = faults + 1 /\ Remember(odd)

----------------------------------------------------------------------------
(* Billing cycles and the rows that count them. *)

\* User.GetBillingAnchorDay: the day a subscription renews, or else the day the
\* account was created.
GetBillingAnchorDay(u) ==
    IF u.renews # {} /\ u.plan # "free" THEN Max(u.renews) % Month ELSE Created

\* computeBillingCycle: the start of the cycle that contains t.
StartOfCycle(t, anchor) == t - ((t - anchor) % Month)

\* Mutant: a cycle ends when the next one starts.
CycleEndTooLate(start) == start + Month

\* A cycle ends a second before the next one starts.
CycleEnd(start) == start + Month - 2

Covers(row, t) == row.start <= t /\ t <= CycleEnd(row.start)

Covering(t) == { row \in usage : Covers(row, t) }

\* A statement finds no row that covers t.
Miss(w, t) ==
    /\ making[w].step = "none" /\ Covering(t) = {}
    /\ making' = [making EXCEPT ![w] = [step |-> "read", at |-> t, start |-> 0]]

\* The start of the cycle of the row that w makes, for a user.
ReadFor(w, u) ==
    making' = [making EXCEPT ![w] = [step |-> "insert", at |-> @.at,
                                     start |-> StartOfCycle(@.at, GetBillingAnchorDay(u))]]

\* Mutant: a user who is gone is read like a new one.
ReadAnyUser(w) ==
    /\ making[w].step = "read"
    /\ \E u \in user \cup {NewUser} : ReadFor(w, u)
    /\ Note({})
    /\ UNCHANGED <<now, accountVars, usage, created, registered, waiting, tasks, historyVars>>

\* createBillingUsageForUser: the user is read, and one who is gone gets no row.
ReadUser(w) ==
    /\ making[w].step = "read"
    /\ \E u \in user : ReadFor(w, u)
    /\ Note({})
    /\ UNCHANGED <<now, accountVars, usage, created, registered, waiting, tasks, historyVars>>

NoUser(w) == making[w].step = "read" /\ user = {}

Unmake(w) == making' = [making EXCEPT ![w] = MakesNone]

\* The row that is inserted last.  IDs are random.
NewRows(w, used) ==
    { [id |-> id, start |-> making[w].start, used |-> used] :
          id \in (1..MaxRows) \ { row.id : row \in usage } }

Insert(w, row) ==
    /\ making[w].step = "insert"
    /\ created < MaxRows
    /\ created' = created + 1
    /\ usage' = usage \cup {row}
    /\ Unmake(w)

Raced(w) ==
    IF making[w].step = "insert" /\ Covering(making[w].at) # {} THEN {"raced"} ELSE {}

\* GetCurrent: the first of the rows that cover this moment, by ID, or the row
\* it has made since it found none.
GetCurrent(w, current) ==
    \/ /\ making[w].step = "none"
       /\ current \in Covering(now)
       /\ \A row \in Covering(now) : current.id <= row.id
       /\ UNCHANGED <<usage, created, making>>
    \/ /\ current \in NewRows(w, 0)
       /\ Insert(w, current)

Currents(w) == Covering(now) \cup NewRows(w, 0)

\* Whether t is in the last second of the user's cycle.
InGap(t) == \E u \in user : (t - GetBillingAnchorDay(u)) % Month = Month - 1

Gap(t) == IF InGap(t) THEN {"shifted"} ELSE {}

\* Whether times t and u are in cycles of their own.
Apart(t, u) ==
    \A row \in user : LET anchor == GetBillingAnchorDay(row)
                     IN  StartOfCycle(t, anchor) # StartOfCycle(u, anchor)

Late(t) == IF Apart(t, now) THEN {"late"} ELSE {}

\* GetCurrent finds no row.
MissUsage(w) ==
    /\ tasks[w].step \in {"usage", "alertUsage"}
    /\ Miss(w, now)
    /\ Note(Gap(now))
    /\ UNCHANGED <<now, accountVars, usage, created, registered, waiting, tasks, historyVars>>

----------------------------------------------------------------------------
(* A request to send a message, or the phone's report of a received one. *)

Limit(plan) == IF plan = "free" THEN FreeLimit ELSE PaidLimit

InFlight == FoldFunction(+, 0, waiting)
                + Cardinality({ w \in Workers : tasks[w].step \in {"entitled", "register"} })

\* IsEntitledWithCount loads the user; an account that cannot be read is entitled.
IsEntitled(w) ==
    /\ tasks[w] = Idle
    /\ InFlight + registered < MaxMessages
    /\ \/ /\ user # {}
          /\ Become(w, Task("usage", user, "none", {}))
          /\ Note({})
       \/ /\ user = {}
          /\ Become(w, Task("entitled", {}, "none", {}))
          /\ Note({"unread"})
       \/ /\ Become(w, Task("entitled", {}, "none", {}))
          /\ Fault({"unread"})
    /\ UNCHANGED <<now, accountVars, usageVars, historyVars>>

\* Mutant: the limit is reached only once it is exceeded.
CheckUsageTooLate(w) ==
    /\ tasks[w].step = "usage"
    /\ burst' = Max({burst, InFlight})
    /\ \E u \in tasks[w].user, current \in Currents(w) :
           /\ GetCurrent(w, current)
           /\ \/ /\ current.used <= Limit(u.plan)
                 /\ Become(w, Task("entitled", {}, "none", {}))
                 /\ UNCHANGED refused
              \/ /\ current.used > Limit(u.plan)
                 /\ Become(w, Idle)
                 /\ refused' = refused \cup {current.start}
    /\ Note(Raced(w))
    /\ UNCHANGED <<now, accountVars, registered, waiting, warned>>

\* It then loads the usage and compares it with the limit of the plan.
CheckUsage(w) ==
    /\ tasks[w].step = "usage"
    /\ burst' = Max({burst, InFlight})
    /\ \E u \in tasks[w].user, current \in Currents(w) :
           /\ GetCurrent(w, current)
           /\ \/ /\ current.used + 1 <= Limit(u.plan)
                 /\ Become(w, Task("entitled", {}, "none", {}))
                 /\ UNCHANGED refused
              \/ /\ current.used + 1 > Limit(u.plan)
                 /\ Become(w, Idle)
                 /\ refused' = refused \cup {current.start}
    /\ Note(Raced(w))
    /\ UNCHANGED <<now, accountVars, registered, waiting, warned>>

CheckUsageFails(w) ==
    /\ tasks[w].step = "usage"
    /\ \/ Fault({"unread"})
       \/ NoUser(w) /\ Note({"unread"})
    /\ Unmake(w)
    /\ Become(w, Task("entitled", {}, "none", {}))
    /\ UNCHANGED <<now, accountVars, usage, created, registered, waiting, historyVars>>

\* The message is accepted and its event is queued: a message sent has the time
\* of the request, one received the time the phone gives.
Accept(w) ==
    /\ tasks[w].step = "entitled"
    /\ \E t \in 0..now :
           /\ waiting' = [waiting EXCEPT ![t] = @ + 1]
           /\ Note(Late(t))
    /\ Become(w, Idle)
    /\ UNCHANGED <<now, accountVars, usage, created, making, registered, historyVars>>

----------------------------------------------------------------------------
(* The events message.api.sent and message.phone.received. *)

Alerting == \E w \in Workers : tasks[w].step \in {"register", "alert", "alertUsage"}

\* A registration overlaps when the alert of another one is still to be decided.
Strange(t) == Gap(t) \cup Late(t) \cup (IF Alerting THEN {"overlap"} ELSE {})

\* The rows after the update of those that cover t.
Counted(t) ==
    { IF Covers(row, t) THEN [row EXCEPT !.used = @ + 1] ELSE row : row \in usage }

\* RegisterSentMessage, RegisterReceivedMessage: the rows that cover the time of
\* the message count it, if there are any.
Register(w, t) ==
    \/ /\ Covering(t) # {}
       /\ usage' = Counted(t) /\ registered' = registered + 1
       /\ Become(w, Task("alert", {}, "none", {}))
       /\ UNCHANGED making
    \/ /\ Miss(w, t)
       /\ Become(w, Task("register", {}, "none", {}))
       /\ UNCHANGED <<usage, registered>>

\* An event that the queue delivers twice is registered twice.
RegisterMessage(w) ==
    /\ tasks[w] = Idle
    /\ \E t \in Times :
           /\ waiting[t] > 0
           /\ \/ waiting' = [waiting EXCEPT ![t] = @ - 1] /\ Note(Strange(t))
              \/ UNCHANGED waiting /\ Fault(Strange(t) \cup {"again"})
           /\ Register(w, t)
    /\ UNCHANGED <<now, accountVars, created, historyVars>>

\* Otherwise a new row does.
RegisterRow(w) ==
    /\ tasks[w].step = "register"
    /\ \E row \in NewRows(w, 1) : Insert(w, row)
    /\ registered' = registered + 1
    /\ Become(w, Task("alert", {}, "none", {}))
    /\ Note(Raced(w))
    /\ UNCHANGED <<now, accountVars, waiting, historyVars>>

\* The error of a listener is only logged: the event is not handled again.
RegisterFails(w) ==
    /\ \/ /\ tasks[w] = Idle
          /\ \E t \in Times :
                 waiting[t] > 0 /\ waiting' = [waiting EXCEPT ![t] = @ - 1]
          /\ Fault({"lost"})
       \/ /\ tasks[w].step = "register"
          /\ Fault({"lost"}) \/ (NoUser(w) /\ Note({"lost"}))
          /\ UNCHANGED waiting
    /\ Unmake(w) /\ Become(w, Idle)
    /\ UNCHANGED <<now, accountVars, usage, created, registered, historyVars>>

\* sendUsageAlert loads the user, then the usage of this moment.
AlertUser(w) ==
    /\ tasks[w].step = "alert"
    /\ \/ /\ user # {}
          /\ Become(w, Task("alertUsage", user, "none", {}))
          /\ Note({})
       \/ Become(w, Idle) /\ user = {} /\ Note({"lost"})
       \/ Become(w, Idle) /\ Fault({"lost"})
    /\ UNCHANGED <<now, accountVars, usageVars, historyVars>>

\* Mutant: the alert goes out at the limit, not before it.
shouldSendAlertAtLimit(u, row) == u.plan = "free" /\ row.used > FreeLimit

shouldSendAlert(u, row) == u.plan = "free" /\ row.used = AlertAt

AlertUsage(w) ==
    /\ tasks[w].step = "alertUsage"
    /\ \/ /\ \E u \in tasks[w].user, current \in Currents(w) :
                 /\ GetCurrent(w, current)
                 /\ warned' = IF shouldSendAlert(u, current)
                              THEN warned \cup {current.start} ELSE warned
          /\ Note(Raced(w))
       \/ /\ \/ Fault({"lost"})
             \/ NoUser(w) /\ Note({"lost"})
          /\ Unmake(w)
          /\ UNCHANGED <<usage, created, warned>>
    /\ Become(w, Idle)
    /\ UNCHANGED <<now, accountVars, registered, waiting, refused, burst>>

----------------------------------------------------------------------------
(* The account. *)

Change == changes < MaxChanges /\ changes' = changes + 1

\* LoadOrStore: a visit with no row creates one.
Visit ==
    /\ user = {} /\ Change
    /\ user' = {NewUser}
    /\ Note({"shifted"})
    /\ UNCHANGED <<now, events, usageVars, tasks, historyVars>>

\* LemonSqueezy tells of a subscription.  All but a new one are looked up by the
\* subscription in the user row.
Webhook(kind) ==
    /\ Change
    /\ kind = "created" \/ \E u \in user : u.subscribed
    /\ events' = events \cup {kind}
    /\ Note({})
    /\ UNCHANGED <<now, user, usageVars, tasks, historyVars>>

\* The handlers load the row; UpdateSubscription ignores a subscription that is
\* not active.
HandleSubscription(w) ==
    /\ tasks[w] = Idle
    /\ \E kind \in events \cap Subscriptions :
           /\ events' = events \ {kind}
           /\ \/ /\ user # {}
                 /\ \E renewal \in Renewals : Become(w, Task("save", user, kind, {renewal}))
              \/ /\ user = {} \/ kind = "updated"
                 /\ UNCHANGED tasks
    /\ Note({})
    /\ UNCHANGED <<now, user, changes, usageVars, historyVars>>

\* Update, UpdateNotificationSettings: they load the row as well.
Settings(w) ==
    /\ tasks[w] = Idle /\ user # {} /\ Change
    /\ Become(w, Task("save", user, "settings", {}))
    /\ Note({})
    /\ UNCHANGED <<now, user, events, usageVars, historyVars>>

\* StartSubscription and UpdateSubscription, CancelSubscription, and
\* ExpireSubscription; the settings leave the subscription as it was loaded.
Subscribed(u, kind, renewal) ==
    CASE kind \in {"created", "updated"} ->
             [plan |-> "paid", subscribed |-> TRUE, renews |-> renewal]
      [] kind = "cancelled" -> [plan |-> "paid", subscribed |-> TRUE, renews |-> {}]
      [] kind = "expired"   -> NewUser
      [] kind = "settings"  -> u

\* Mutant: a row that was deleted and made again is saved beside the new one.
SaveUserBeside(w) ==
    /\ tasks[w].step = "save"
    /\ user' = user \cup { Subscribed(u, tasks[w].event, tasks[w].renews) : u \in tasks[w].user }
    /\ Note(IF user' = user THEN {} ELSE {"shifted"})
    /\ Become(w, Idle)
    /\ UNCHANGED <<now, events, changes, usageVars, historyVars>>

\* Save writes the whole row, also one that has been deleted in the meantime.
SaveUser(w) ==
    /\ tasks[w].step = "save"
    /\ user' = { Subscribed(u, tasks[w].event, tasks[w].renews) : u \in tasks[w].user }
    /\ Note(IF user' = user THEN {} ELSE {"shifted"})
    /\ Become(w, Idle)
    /\ UNCHANGED <<now, events, changes, usageVars, historyVars>>

\* Delete refuses while a paid subscription is to renew.
Delete(w) ==
    /\ tasks[w] = Idle /\ Change
    /\ \E u \in user : ~(u.plan # "free" /\ \E t \in u.renews : t > now)
    /\ Become(w, Task("delete", {}, "none", {}))
    /\ Note({})
    /\ UNCHANGED <<now, user, events, usageVars, historyVars>>

DeleteUser(w) ==
    /\ tasks[w].step = "delete"
    /\ user' = {}
    /\ Become(w, Task("announce", {}, "none", {}))
    /\ Note(IF \E v \in Workers : making[v].step = "insert" THEN {"crossed"} ELSE {})
    /\ UNCHANGED <<now, events, changes, usageVars, historyVars>>

\* The row is gone when the event cannot be dispatched, and Delete finds no user
\* the next time.
AnnounceDeleted(w) ==
    /\ tasks[w].step = "announce"
    /\ \/ events' = events \cup {"deleted"} /\ Note({})
       \/ UNCHANGED events /\ Fault({"lost"})
    /\ Become(w, Idle)
    /\ UNCHANGED <<now, user, changes, usageVars, historyVars>>

\* The handler of user.account.deleted; it may be delivered twice.
DeleteAllForUser(w) ==
    /\ tasks[w] = Idle /\ "deleted" \in events
    /\ \/ events' = events \ {"deleted"} /\ Note({})
       \/ UNCHANGED events /\ Fault({"again"})
    /\ usage' = {} /\ registered' = 0
    /\ UNCHANGED <<now, user, changes, created, making, waiting, tasks, historyVars>>

DeleteAllFails(w) ==
    /\ tasks[w] = Idle /\ "deleted" \in events
    /\ events' = events \ {"deleted"}
    /\ Fault({"lost"})
    /\ UNCHANGED <<now, user, changes, usageVars, tasks, historyVars>>

----------------------------------------------------------------------------

Making == \E w \in Workers : making[w].step # "none"

Tick ==
    /\ now < MaxTime
    /\ now' = now + 1
    /\ Note(IF (Alerting \/ Making) /\ Apart(now, now + 1) THEN {"late"} ELSE {})
    /\ UNCHANGED <<accountVars, usageVars, tasks, historyVars>>

Next ==
    \/ Tick \/ Visit
    \/ \E kind \in Subscriptions : Webhook(kind)
    \/ \E w \in Workers :
           \/ IsEntitled(w) \/ CheckUsage(w) \/ CheckUsageFails(w) \/ Accept(w)
           \/ MissUsage(w) \/ ReadUser(w)
           \/ RegisterMessage(w) \/ RegisterRow(w) \/ RegisterFails(w)
           \/ AlertUser(w) \/ AlertUsage(w)
           \/ HandleSubscription(w) \/ Settings(w) \/ SaveUser(w)
           \/ Delete(w) \/ DeleteUser(w) \/ AnnounceDeleted(w)
           \/ DeleteAllForUser(w) \/ DeleteAllFails(w)

Spec == Init /\ [][Next]_vars

----------------------------------------------------------------------------
(* Properties. *)

\* The usage an account is billed for: no registered message goes uncounted,
\* whatever the requests and handlers that overlap, and one is counted by two
\* rows only where cycles overlap, since the anchor day has moved, or in the
\* last second of a cycle, which belongs to none, or where two transactions have
\* each found no row and made one (RegisterSentMessage, GetCurrent,
\* createBillingUsageForUser, computeBillingCycle).
CountedOnce ==
    LET counted == MapThenSumSet(LAMBDA row : row.used, usage)
    IN  \/ counted = registered
        \/ counted > registered /\ oddities \cap {"shifted", "raced"} # {}

\* How far a free user can get beyond the limit, which is checked on what is
\* registered so far: by the messages that were in flight at a check, no more,
\* as long as no two transactions make a row for the same cycle
\* (IsEntitledWithCount, RegisterSentMessage, GetCurrent).
OvershootIsInFlight ==
    oddities \subseteq {"overlap"} =>
        \A row \in usage :
            row.used + FoldFunctionOnSet(+, 0, waiting, { t \in Times : Covers(row, t) })
                <= FreeLimit + burst

\* A free user is warned before messages are refused, as long as registrations
\* do not overlap: the alert goes out only to the handler that reads exactly the
\* usage to warn at (sendUsageAlert, shouldSendAlert, handleLimitExceeded).
WarnedBeforeRefused ==
    oddities \subseteq {"unread", "again"} =>
        Alerting \/ refused \subseteq warned

\* No usage outlives the account: an event that is handled after the account is
\* gone makes no row that nothing will ever delete, unless its user was read
\* before and its row is written after (Delete, DeleteAllForUser,
\* createBillingUsageForUser).
NothingOutlivesTheAccount ==
    \/ user # {} \/ usage = {}
    \/ "deleted" \in events \/ oddities \cap {"lost", "crossed"} # {}
    \/ \E w \in Workers : tasks[w].step = "announce"
=============================================================================
