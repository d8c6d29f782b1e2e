----------------------------- MODULE Deliveries -----------------------------
(****************************************************************************)
(* How the events of one phone leave the system: posted to the webhooks     *)
(* that subscribe to them (webhook_service.go) and to Discord channels      *)
(* (discord_service.go); and the e-mails about what could not be delivered  *)
(* or sent, of which one is sent in a while (email_notification_service.go).*)
(*                                                                          *)
(* The listeners of an event, and the endpoints of a listener, each run in  *)
(* a goroutine of their own.  Time is counted in ticks of fifteen minutes;  *)
(* handlers take seconds, so no tick passes while one is at work.           *)
(****************************************************************************)
EXTENDS Naturals, FiniteSets

CONSTANTS
    Webhooks,       \* webhooks the user may configure
    Channels,       \* Discord channels the user may configure
    EventIDs,       \* IDs of events
    EventTypes,     \* the types of events that are announced, of
                    \* "message.phone.received", "message.send.failed" and
                    \* "message.send.expired"
    Workers,        \* handlers of notices that run at the same time
    MaxChanges,     \* bound on the changes of settings
    MaxTicks,       \* bound on time
    MaxFaults       \* bound on the things that go wrong

VARIABLES
    subscribed,     \* subscribed[h]: the types of events h is to hear of
    enabled,        \* the e-mails that the user wants
    queue,          \* events waiting
    announced,      \* history: events announced so far
    posts,          \* posts on their way
    begun,          \* history: the deliveries begun
    heard,          \* history: the deliveries that an endpoint has accepted
    notices,        \* what an e-mail is to be sent about
    noticed,        \* history: the deliveries that a notice was made of
    worker,         \* worker[w]: the notice w is in the middle of
    sent,           \* sent[kind]: how long the cache remembers an e-mail
    since,          \* history: since[kind], the age of the last e-mail
    dropped,        \* history: dropped[kind], the largest age that was enough
    changes, ticks, faults

settings == <<subscribed, enabled, changes>>
sending  == <<posts, begun, heard, noticed>>
mail     == <<worker, sent, since, dropped>>
vars == <<settings, queue, announced, sending, notices, mail, ticks, faults>>

Endpoints  == Webhooks \cup Channels
Kinds      == {"message.send.failed", "message.send.expired",
               "webhook.send.failed", "discord.send.failed"}
Settings   == {"status", "webhook"}

Timeout(kind) == IF kind = "message.send.failed" THEN 1 ELSE 4
SettingOf(kind) ==
    IF kind \in {"message.send.failed", "message.send.expired"}
    THEN "status" ELSE "webhook"
Ages == 0..5

Events     == [id : EventIDs, type : EventTypes, final : BOOLEAN]
Deliveries == [event : Events, endpoint : Endpoints]
Posts      == [delivery : Deliveries, attempt : 1..2]
Delivery(e, h) == [event |-> e, endpoint |-> h]

Idle == [step |-> "idle", kind |-> {}]
Task(step, kind) == [step |-> step, kind |-> {kind}]

TypeOK ==
    /\ subscribed \in [Endpoints -> SUBSET EventTypes]
    /\ enabled \subseteq Settings
    /\ queue \subseteq announced /\ announced \subseteq Events
    /\ posts \subseteq Posts
    /\ begun \subseteq Deliveries /\ heard \subseteq begun /\ noticed \subseteq begun
    /\ notices \in [Kinds -> Nat]
    /\ worker \in [Workers -> [step : {"idle", "load", "send", "cache"},
                               kind : SUBSET Kinds]]
    /\ sent \in [Kinds -> Ages] /\ since \in [Kinds -> Ages]
    /\ dropped \in [Kinds -> Ages]
    /\ changes \in 0..MaxChanges /\ ticks \in 0..MaxTicks /\ faults \in 0..MaxFaults

Init ==
    /\ subscribed \in [Endpoints -> SUBSET EventTypes]
    /\ \A h \in Channels : subscribed[h] \subseteq EventTypes \cap {"message.phone.received"}
    /\ enabled = Settings
    /\ queue = {} /\ announced = {}
    /\ posts = {} /\ begun = {} /\ heard = {} /\ noticed = {}
    /\ notices = [kind \in Kinds |-> 0]
    /\ worker = [w \in Workers |-> Idle]
    /\ sent = [kind \in Kinds |-> 0]
    /\ since = [kind \in Kinds |-> 5]
    /\ dropped = [kind \in Kinds |-> 0]
    /\ changes = 0 /\ ticks = 0 /\ faults = 0

Fault == faults < MaxFaults /\ faults' = faults + 1

----------------------------------------------------------------------------
(* The user. *)

Change == changes < MaxChanges /\ changes' = changes + 1

\* Store, Update and Delete of a webhook or a channel; a channel hears of
\* received messages only.
Configure ==
    /\ Change
    /\ \E h \in Endpoints, types \in SUBSET EventTypes :
          /\ h \in Channels => types \subseteq {"message.phone.received"}
          /\ subscribed' = [subscribed EXCEPT ![h] = types]
    /\ UNCHANGED <<enabled, queue, announced, sending, notices, mail, ticks, faults>>

SetNotifications ==
    /\ Change
    /\ enabled' \in SUBSET Settings
    /\ UNCHANGED <<subscribed, queue, announced, sending, notices, mail, ticks, faults>>

DeleteAllForUser ==
    /\ Change
    /\ subscribed' = [h \in Endpoints |-> {}]
    /\ UNCHANGED <<enabled, queue, announced, sending, notices, mail, ticks, faults>>

----------------------------------------------------------------------------
(* An event and its listeners. *)

Announce ==
    \E e \in Events :
        /\ \A d \in announced : d.id # e.id
        /\ e.final => e.type = "message.send.expired"
        /\ announced' = announced \cup {e}
        /\ queue' = queue \cup {e}
        /\ UNCHANGED <<settings, sending, notices, mail, ticks, faults>>

\* LoadByEvent and FetchHavingIncomingChannel.
LoadByEvent(type) == { h \in Endpoints : type \in subscribed[h] }

\* What the e-mail listener makes of the event itself; an expiry that is not
\* the last one is dropped.
NoticesOf(e) ==
    IF e.type = "message.send.failed" \/ (e.type = "message.send.expired" /\ e.final)
    THEN {e.type} ELSE {}

\* The event is handled, and may be delivered again.
Send ==
    \E e \in queue :
        /\ \/ queue' = queue \ {e} /\ UNCHANGED faults
           \/ UNCHANGED queue /\ Fault
        /\ posts' = posts \cup
              { [delivery |-> Delivery(e, h), attempt |-> 1] : h \in LoadByEvent(e.type) }
        /\ begun' = begun \cup { Delivery(e, h) : h \in LoadByEvent(e.type) }
        /\ notices' = [kind \in Kinds |->
              IF kind \in NoticesOf(e) THEN notices[kind] + 1 ELSE notices[kind]]
        /\ UNCHANGED <<settings, announced, heard, noticed, mail, ticks>>

Accepted(post) ==
    /\ posts' = posts \ {post}
    /\ heard' = heard \cup {post.delivery}
    /\ UNCHANGED <<begun, noticed, notices, faults>>

\* Mutant: the last attempt is one that is never made.
LastAttemptTooFar(h) == IF h \in Webhooks THEN 3 ELSE 1

\* The attempt whose failure is announced.
LastAttempt(h) == IF h \in Webhooks THEN 2 ELSE 1

\* retry.Attempts: a webhook is tried twice, a channel once.
Attempts(h) == IF h \in Webhooks THEN 2 ELSE 1

\* The attempt before the last one fails; the endpoint may have heard.
Retried(post) ==
    LET h == post.delivery.endpoint IN
    /\ post.attempt < LastAttempt(h)
    /\ posts' = (posts \ {post}) \cup
          { next \in {[post EXCEPT !.attempt = @ + 1]} : next.attempt <= Attempts(h) }
    /\ UNCHANGED <<begun, noticed, notices, faults>>

\* The last attempt fails: its event is dispatched, or cannot be made.
Failed(post) ==
    LET kind == IF post.delivery.endpoint \in Webhooks
                THEN "webhook.send.failed" ELSE "discord.send.failed"
    IN  /\ post.attempt = LastAttempt(post.delivery.endpoint)
        /\ posts' = posts \ {post}
        /\ \/ /\ notices' = [notices EXCEPT ![kind] = @ + 1]
              /\ noticed' = noticed \cup {post.delivery}
              /\ UNCHANGED faults
           \/ /\ Fault
              /\ UNCHANGED <<notices, noticed>>
        /\ UNCHANGED begun

Post ==
    \E post \in posts :
        /\ \/ Accepted(post)
           \/ /\ Retried(post) \/ Failed(post)
              /\ heard' \in {heard, heard \cup {post.delivery}}
        /\ UNCHANGED <<settings, queue, announced, mail, ticks>>

----------------------------------------------------------------------------
(* EmailNotificationService. *)

Is(w, step) == worker[w].step = step
Proceed(w, task) == worker' = [worker EXCEPT ![w] = task]

\* canSendEmail: an e-mail of the kind was sent in the last while.
Suppress(w) ==
    /\ worker[w] = Idle
    /\ \E kind \in Kinds :
          /\ notices[kind] > 0 /\ sent[kind] > 0
          /\ notices' = [notices EXCEPT ![kind] = @ - 1]
          /\ dropped' = [dropped EXCEPT ![kind] = IF @ > since[kind] THEN @ ELSE since[kind]]
    /\ UNCHANGED <<settings, queue, announced, sending, worker, sent, since, ticks,
                   faults>>

\* None was, or the cache cannot tell.
CanSendEmail(w) ==
    /\ worker[w] = Idle
    /\ \E kind \in Kinds :
          /\ notices[kind] > 0
          /\ \/ sent[kind] = 0 /\ UNCHANGED faults
             \/ sent[kind] > 0 /\ Fault
          /\ notices' = [notices EXCEPT ![kind] = @ - 1]
          /\ Proceed(w, Task("load", kind))
    /\ UNCHANGED <<settings, queue, announced, sending, sent, since, dropped, ticks>>

\* The user is loaded; one who does not want the e-mail, or is gone, gets none.
LoadUser(w) ==
    /\ Is(w, "load")
    /\ \/ /\ \A kind \in worker[w].kind : SettingOf(kind) \in enabled
          /\ worker' = [worker EXCEPT ![w].step = "send"]
          /\ UNCHANGED faults
       \/ /\ \A kind \in worker[w].kind : SettingOf(kind) \notin enabled
          /\ Proceed(w, Idle)
          /\ UNCHANGED faults
       \/ Fault /\ Proceed(w, Idle)
    /\ UNCHANGED <<settings, queue, announced, sending, notices, sent, since, dropped,
                   ticks>>

SendEmail(w) ==
    /\ Is(w, "send")
    /\ \/ /\ since' = [kind \in Kinds |-> IF kind \in worker[w].kind THEN 0 ELSE since[kind]]
          /\ worker' = [worker EXCEPT ![w].step = "cache"]
          /\ UNCHANGED faults
       \/ /\ Fault
          /\ Proceed(w, Idle)
          /\ UNCHANGED since
    /\ UNCHANGED <<settings, queue, announced, sending, notices, sent, dropped, ticks>>

\* Mutant: every e-mail is remembered for an hour.
AddToCacheForAnHour(w) ==
    /\ Is(w, "cache")
    /\ sent' = [kind \in Kinds |-> IF kind \in worker[w].kind THEN 4 ELSE sent[kind]]
    /\ Proceed(w, Idle)
    /\ UNCHANGED <<settings, queue, announced, sending, notices, since, dropped, ticks,
                   faults>>

\* addToCache: when the cache fails, the next e-mail is sent at once.
AddToCache(w) ==
    /\ Is(w, "cache")
    /\ \/ /\ sent' = [kind \in Kinds |->
                IF kind \in worker[w].kind THEN Timeout(kind) ELSE sent[kind]]
          /\ UNCHANGED faults
       \/ Fault /\ UNCHANGED sent
    /\ Proceed(w, Idle)
    /\ UNCHANGED <<settings, queue, announced, sending, notices, since, dropped, ticks>>

Tick ==
    /\ \A w \in Workers : worker[w] = Idle
    /\ ticks < MaxTicks /\ ticks' = ticks + 1
    /\ sent' = [kind \in Kinds |-> IF sent[kind] > 0 THEN sent[kind] - 1 ELSE 0]
    /\ since' = [kind \in Kinds |-> IF since[kind] < 5 THEN since[kind] + 1 ELSE 5]
    /\ UNCHANGED <<settings, queue, announced, sending, notices, worker, dropped,
                   faults>>

----------------------------------------------------------------------------
WorkerNext(w) ==
    \/ Suppress(w)
    \/ CanSendEmail(w)
    \/ LoadUser(w)
    \/ SendEmail(w)
    \/ AddToCache(w)

Next ==
    \/ \E w \in Workers : WorkerNext(w)
    \/ Configure
    \/ SetNotifications
    \/ DeleteAllForUser
    \/ Announce
    \/ Send
    \/ Post
    \/ Tick

Spec == Init /\ [][Next]_vars

----------------------------------------------------------------------------
(* Properties. *)

\* Nothing fails in silence.  A delivery that is over was accepted, or its
\* failure was announced; and a notice was only ever dropped while an e-mail of
\* its kind was younger than the timeout, also when that e-mail could not be
\* sent at first, and when two handlers sent one.
FailureIsTold ==
    /\ \A d \in begun :
          d \in heard \cup noticed \/ faults > 0
             \/ \E post \in posts : post.delivery = d
    /\ \A kind \in Kinds : dropped[kind] < Timeout(kind)
============================================================================
