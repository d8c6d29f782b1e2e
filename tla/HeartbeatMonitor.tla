-------------------------- MODULE HeartbeatMonitor --------------------------
(****************************************************************************)
(* Whether a phone is alive: the heartbeats it posts, the monitor row of    *)
(* its number, and the chain of phone.heartbeat.check events in which every *)
(* check schedules the next one (api/pkg/services/heartbeat_service.go).    *)
(* A check of a silent phone queues a probe, a push that asks for a         *)
(* heartbeat, and, between 64 and 80 minutes of silence, raises the alarm.  *)
(*                                                                          *)
(* Time is relative: ages grow and delays shrink with each Tick, and an age *)
(* counts up to Forever, beyond every threshold of the code.  The silence   *)
(* is what quietMonitorCustom measures: the time since the last heartbeat   *)
(* or, if that is later, since the current window opened (the windows       *)
(* themselves are SendWindows'); where it fails, since the last heartbeat.  *)
(****************************************************************************)
EXTENDS Integers, FiniteSets, Functions

CONSTANTS
    MonitorIDs,     \* IDs of monitors; their order is that of the uuids
    Workers,        \* goroutines that handle events at the same time
    CheckInterval,  \* heartbeatCheckInterval
    RecheckAfter,   \* age at which RequiresCheck asks for a new check
    HasWindows,     \* whether the phone has a send schedule
    MaxFaults       \* bound on the things that go wrong

ASSUME MonitorAssumption ==
    /\ MonitorIDs \subseteq Nat /\ IsFiniteSet(MonitorIDs)
    /\ IsFiniteSet(Workers)
    /\ CheckInterval \in Nat \ {0}
    /\ RecheckAfter \in Nat /\ RecheckAfter >= 5 * CheckInterval
    /\ HasWindows \in BOOLEAN
    /\ MaxFaults \in Nat

VARIABLES
    heard,      \* whether a heartbeat of the phone is stored
    silent,     \* how long the phone has been silent in an open window
    opened,     \* whether a window has opened since the last heartbeat
    quiet,      \* whether the phone is outside its windows
    monitors,   \* the monitor rows of the number
    used,       \* history: IDs given so far
    checks,     \* checks[id][d]: checks of monitor id that are due in d
    probes,     \* delays of the probes on their way
    offline,    \* offline[id]: phone.heartbeat.offline events waiting
    worker,     \* worker[w]: the event w is in the middle of
    reporter,   \* the heartbeat that is being stored
    silence,    \* history of the silence since the last heartbeat or opening
    broken,     \* history: a check was lost or given up
    faults      \* history: things that have gone wrong so far

world == <<heard, silent, opened, quiet>>
queue == <<checks, probes, offline>>
vars  == <<world, monitors, used, queue, worker, reporter, silence, broken,
           faults>>

Forever == RecheckAfter + 1
Ages    == 0..Forever
Delays  == 0..CheckInterval
NoID    == -1

Monitors == [id : MonitorIDs, PhoneOnline : BOOLEAN, UpdatedAt : Ages]

Idle == [step |-> "idle", id |-> NoID, PhoneOnline |-> FALSE]
Task(step, id, online) == [step |-> step, id |-> id, PhoneOnline |-> online]

\* alarms raised, a probe tried, a chain started, a check on the very minute,
\* and one that could not read the windows.
Silences == [alarms : Nat, tried : BOOLEAN, started : BOOLEAN, aligned : BOOLEAN,
             unread : BOOLEAN]

NewSilence == [alarms |-> 0, tried |-> FALSE, started |-> FALSE,
               aligned |-> FALSE, unread |-> FALSE]

TypeOK ==
    /\ heard \in BOOLEAN
    /\ silent \in Ages /\ opened \in BOOLEAN
    /\ quiet \in BOOLEAN
    /\ monitors \subseteq Monitors
    /\ used \subseteq MonitorIDs
    /\ checks \in [MonitorIDs -> [Delays -> Nat]]
    /\ probes \subseteq Delays
    /\ offline \in [MonitorIDs -> Nat]
    /\ worker \in [Workers -> [step : {"idle", "insert", "start", "check"},
                      id : MonitorIDs \cup {NoID}, PhoneOnline : BOOLEAN]]
    /\ reporter \in [step : {"idle", "stored", "online"},
                     id : MonitorIDs \cup {NoID}, PhoneOnline : BOOLEAN]
    /\ silence \in Silences
    /\ broken \in BOOLEAN
    /\ faults \in Nat

Init ==
    /\ heard = FALSE
    /\ silent = Forever /\ opened = FALSE
    /\ quiet = FALSE
    /\ monitors = {}
    /\ used = {}
    /\ checks = [id \in MonitorIDs |-> [d \in Delays |-> 0]]
    /\ probes = {}
    /\ offline = [id \in MonitorIDs |-> 0]
    /\ worker = [w \in Workers |-> Idle]
    /\ reporter = Idle
    /\ silence = NewSilence
    /\ broken = FALSE
    /\ faults = 0

Fault == faults < MaxFaults /\ faults' = faults + 1

----------------------------------------------------------------------------
(* Rows and events. *)

\* repository.Load: the row with the smallest ID; nothing makes it the only one.
Loaded == CHOOSE m \in monitors : \A n \in monitors : m.id <= n.id

\* Mutant: the row does not remember that a check was scheduled.
TouchedNot(rows, id) == rows

\* Mutant: the row is given the time of the check.
TouchedAhead(rows, id) ==
    { IF m.id = id THEN [m EXCEPT !.UpdatedAt = -CheckInterval] ELSE m : m \in rows }

\* UpdateQueueID: of the row, the time of the update matters.
Touched(rows, id) ==
    { IF m.id = id THEN [m EXCEPT !.UpdatedAt = 0] ELSE m : m \in rows }

UpdatePhoneOnline(id, online) ==
    monitors' = { IF m.id = id
                  THEN [m EXCEPT !.PhoneOnline = online, !.UpdatedAt = 0]
                  ELSE m : m \in monitors }

RequiresCheck(m) == m.UpdatedAt > RecheckAfter

Scheduled(events, id) == [events EXCEPT ![id][CheckInterval] = @ + 1]

\* scheduleHeartbeatCheck: a check in CheckInterval from now, however late this
\* one is.  That it could not be noted in the row is only logged.
ScheduleHeartbeatCheck(events, id) ==
    /\ checks' = Scheduled(events, id)
    /\ \/ monitors' = Touched(monitors, id) /\ UNCHANGED faults
       \/ Fault /\ UNCHANGED monitors

----------------------------------------------------------------------------
(* Time and windows. *)

Busy ==
    \/ \E w \in Workers : worker[w] # Idle
    \/ reporter # Idle
    \/ \E id \in MonitorIDs : checks[id][0] > 0 \/ offline[id] > 0
    \/ 0 \in probes

Older(a) == IF a < Forever THEN a + 1 ELSE a

\* The queue is prompt: time passes when nothing is due.
Tick ==
    /\ ~Busy
    /\ silent' = Older(silent)
    /\ monitors' = { [m EXCEPT !.UpdatedAt = Older(@)] : m \in monitors }
    /\ checks' = [id \in MonitorIDs |-> [d \in Delays |->
                     IF d < CheckInterval THEN checks[id][d + 1] ELSE 0]]
    /\ probes' = { d - 1 : d \in probes }
    /\ UNCHANGED <<heard, quiet, opened, used, offline, worker, reporter, silence,
                   broken, faults>>

\* A window opens after quiet hours, or right after another one.
OpenWindow ==
    /\ HasWindows /\ (quiet \/ silent > 0)
    /\ quiet' = FALSE
    /\ silent' = 0 /\ opened' = TRUE
    /\ silence' = NewSilence
    /\ UNCHANGED <<heard, monitors, used, queue, worker, reporter, broken,
                   faults>>

CloseWindow ==
    /\ HasWindows /\ ~quiet
    /\ quiet' = TRUE
    /\ UNCHANGED <<heard, silent, opened, monitors, used, queue, worker, reporter,
                   silence, broken, faults>>

----------------------------------------------------------------------------
(* Storing a heartbeat. *)

StoreHeartbeat ==
    /\ reporter = Idle
    /\ heard' = TRUE
    /\ silent' = 0 /\ opened' = FALSE
    /\ reporter' = Task("stored", NoID, FALSE)
    /\ silence' = NewSilence
    /\ UNCHANGED <<quiet, monitors, used, queue, worker, broken, faults>>

\* Mutant: the row is never found offline.
LoadForHeartbeatOnline ==
    /\ reporter.step = "stored"
    /\ reporter' = Idle
    /\ UNCHANGED <<world, monitors, used, queue, worker, silence, broken, faults>>

\* Store, after the insert: without a monitor, or with one that is online,
\* there is nothing to do.
LoadForHeartbeat ==
    /\ reporter.step = "stored"
    /\ reporter' = IF monitors # {} /\ ~Loaded.PhoneOnline
                   THEN Task("online", Loaded.id, FALSE) ELSE Idle
    /\ UNCHANGED <<world, monitors, used, queue, worker, silence, broken, faults>>

\* handleHeartbeatWhenPhoneWasOffline; the online event is for webhooks only.
HandleHeartbeatWhenPhoneWasOffline ==
    /\ reporter.step = "online"
    /\ reporter' = Idle
    /\ UpdatePhoneOnline(reporter.id, TRUE)
    /\ UNCHANGED <<world, used, queue, worker, silence, broken, faults>>

----------------------------------------------------------------------------
(* phone.updated and phone.deleted. *)

\* phoneMonitor: a number without a monitor gets one, and one that has not been
\* updated for long gets a new chain of checks.
PhoneUpdated(w) ==
    /\ worker[w] = Idle
    /\ monitors # {} \/ used # MonitorIDs
    /\ worker' = [worker EXCEPT ![w] =
           CASE monitors = {} -> Task("insert", NoID, TRUE)
             [] monitors # {} /\ RequiresCheck(Loaded) ->
                    Task("start", Loaded.id, TRUE)
             [] OTHER -> Idle]
    /\ UNCHANGED <<world, monitors, used, queue, reporter, silence, broken,
                   faults>>

StoreMonitor(w) ==
    /\ worker[w].step = "insert"
    /\ \E id \in MonitorIDs \ used :
           /\ used' = used \cup {id}
           /\ monitors' = monitors \cup
                 {[id |-> id, PhoneOnline |-> TRUE, UpdatedAt |-> 0]}
           /\ worker' = [worker EXCEPT ![w] = Task("start", id, TRUE)]
    /\ silence' = [silence EXCEPT !.started = TRUE]
    /\ UNCHANGED <<world, queue, reporter, broken, faults>>

StartChecks(w) ==
    /\ worker[w].step = "start"
    /\ ScheduleHeartbeatCheck(checks, worker[w].id)
    /\ worker' = [worker EXCEPT ![w] = Idle]
    /\ silence' = [silence EXCEPT !.started = TRUE]
    /\ broken' = FALSE
    /\ UNCHANGED <<world, used, probes, offline, reporter>>

\* onPhoneDeleted; the checks on their way find no row and end.
DeleteMonitor ==
    /\ monitors # {}
    /\ monitors' = {}
    /\ UNCHANGED <<world, used, queue, worker, reporter, silence, broken, faults>>

\* onUserAccountDeleted: the heartbeats go first; the monitors may be left.
DeleteAllForUser ==
    /\ heard
    /\ heard' = FALSE
    /\ silent' = Forever /\ opened' = FALSE
    /\ \/ monitors' = {} /\ UNCHANGED faults
       \/ Fault /\ UNCHANGED monitors
    /\ UNCHANGED <<quiet, used, queue, worker, reporter, silence, broken>>
----------------------------------------------------------------------------
(* A check. *)

\* Monitor: without a monitor the chain ends, and when it cannot be read it
\* goes on.
LoadMonitor(w) ==
    /\ worker[w] = Idle
    /\ \E id \in MonitorIDs :
           /\ checks[id][0] > 0
           /\ LET rest == [checks EXCEPT ![id][0] = @ - 1] IN
              \/ /\ checks' = rest
                 /\ worker' = [worker EXCEPT ![w] =
                        IF monitors = {} THEN Idle
                        ELSE Task("check", Loaded.id, Loaded.PhoneOnline)]
                 /\ UNCHANGED <<monitors, faults>>
              \/ /\ Fault
                 /\ checks' = Scheduled(rest, id)
                 /\ monitors' = Touched(monitors, id)
                 /\ UNCHANGED worker
    /\ UNCHANGED <<world, used, probes, offline, reporter, silence, broken>>

\* Mutant: the probe waits for as long as the alarm does.
IsMissedLate(since) ==
    since > 4 * CheckInterval /\ since < 5 * CheckInterval

IsMissed(since) ==
    since > CheckInterval /\ since < 5 * CheckInterval

\* Mutant: every check from then on raises the alarm.
IsFailedForGood(since, online) == since > 4 * CheckInterval

\* Mutant: the alarm waits for one more check.
IsFailedLate(since, online) ==
    /\ since > 5 * CheckInterval
    /\ since < 6 * CheckInterval
    /\ online

IsFailed(since, online) ==
    /\ since > 4 * CheckInterval
    /\ since < 5 * CheckInterval
    /\ online

\* The last heartbeat could not be read, or there is none: the chain ends.
RemoveCheck(w) ==
    /\ worker[w].step = "check"
    /\ \/ ~heard /\ UNCHANGED faults
       \/ heard /\ Fault
    /\ worker' = [worker EXCEPT ![w] = Idle]
    /\ broken' = TRUE
    /\ UNCHANGED <<world, monitors, used, queue, reporter, silence>>

\* The next check cannot be dispatched: that is the end of the chain, and no
\* alarm is raised.
ScheduleFails(w) ==
    /\ \/ worker[w].step = "start"
       \/ worker[w].step = "check" /\ heard
    /\ Fault
    /\ worker' = [worker EXCEPT ![w] = Idle]
    /\ broken' = TRUE
    /\ probes' = IF worker[w].step = "check" /\ ~quiet /\ IsMissed(silent)
                 THEN probes \cup {CheckInterval} ELSE probes
    /\ UNCHANGED <<world, monitors, used, checks, offline, reporter, silence>>

\* Mutant: quiet hours end the chain.
MonitorQuietEnds(w) ==
    /\ worker[w].step = "check" /\ heard /\ quiet
    /\ worker' = [worker EXCEPT ![w] = Idle]
    /\ UNCHANGED <<world, monitors, used, queue, reporter, silence, broken, faults>>

MonitorQuiet(w) ==
    /\ worker[w].step = "check" /\ heard /\ quiet
    /\ ScheduleHeartbeatCheck(checks, worker[w].id)
    /\ worker' = [worker EXCEPT ![w] = Idle]
    /\ UNCHANGED <<world, used, probes, offline, reporter, silence, broken>>

\* A late heartbeat queues a probe, a failed one raises the alarm.
React(w, since, note) ==
    /\ probes' = IF IsMissed(since) THEN probes \cup {CheckInterval} ELSE probes
    /\ \/ /\ IsFailed(since, worker[w].PhoneOnline)
          /\ offline' = [offline EXCEPT ![worker[w].id] = @ + 1]
          /\ silence' = [note EXCEPT !.alarms = @ + 1]
       \/ /\ ~IsFailed(since, worker[w].PhoneOnline)
          /\ UNCHANGED offline
          /\ silence' = [note EXCEPT !.aligned = @ \/ since = 4 * CheckInterval]

\* Either way the next check is scheduled, before the alarm is dispatched.
Monitor(w) ==
    /\ worker[w].step = "check" /\ heard /\ ~quiet
    /\ worker' = [worker EXCEPT ![w] = Idle]
    /\ ScheduleHeartbeatCheck(checks, worker[w].id)
    /\ React(w, silent, silence)
    /\ UNCHANGED <<world, used, reporter, broken>>

\* quietMonitorCustom cannot read the phone or its schedule: it measures
\* from the last heartbeat, in quiet hours too.
MonitorUnread(w) ==
    /\ worker[w].step = "check" /\ heard /\ HasWindows
    /\ Fault
    /\ worker' = [worker EXCEPT ![w] = Idle]
    /\ checks' = Scheduled(checks, worker[w].id)
    /\ monitors' = Touched(monitors, worker[w].id)
    /\ \E since \in silent..Forever :
           /\ opened \/ since = silent
           /\ React(w, since, [silence EXCEPT !.unread = TRUE])
    /\ UNCHANGED <<world, used, reporter, broken>>

\* SendHeartbeatFCM: nothing is tried in quiet hours, unless they cannot be read.
\* The try is in vain when the phone is gone, when it has no token to push to and
\* when the push fails: that is only logged, and nothing tries again.
SendHeartbeatFCM ==
    /\ 0 \in probes
    /\ probes' = probes \ {0}
    /\ \/ /\ quiet
          /\ UNCHANGED <<silence, faults>>
       \/ /\ silence' = [silence EXCEPT !.tried = TRUE]
          /\ (~quiet /\ UNCHANGED faults) \/ (quiet /\ Fault)
    /\ UNCHANGED <<world, monitors, used, checks, offline, worker, reporter, broken>>

OnPhoneHeartbeatOffline ==
    \E id \in MonitorIDs :
        /\ offline[id] > 0
        /\ offline' = [offline EXCEPT ![id] = @ - 1]
        /\ UpdatePhoneOnline(id, FALSE)
        /\ UNCHANGED <<world, used, checks, probes, worker, reporter, silence,
                       broken, faults>>

\* The queue delivers a check again.
Duplicate ==
    \E id \in MonitorIDs :
        /\ checks[id][0] > 0
        /\ Fault
        /\ checks' = [checks EXCEPT ![id][0] = @ + 1]
        /\ UNCHANGED <<world, monitors, used, probes, offline, worker, reporter,
                       silence, broken>>

----------------------------------------------------------------------------
CheckNext(w) ==
    \/ LoadMonitor(w)
    \/ RemoveCheck(w)
    \/ ScheduleFails(w)
    \/ MonitorQuiet(w)
    \/ Monitor(w)
    \/ MonitorUnread(w)

UpdateNext(w) == StoreMonitor(w) \/ StartChecks(w)

ReporterNext == LoadForHeartbeat \/ HandleHeartbeatWhenPhoneWasOffline

Next ==
    \/ Tick
    \/ OpenWindow
    \/ CloseWindow
    \/ StoreHeartbeat
    \/ ReporterNext
    \/ \E w \in Workers : PhoneUpdated(w) \/ UpdateNext(w) \/ CheckNext(w)
    \/ DeleteMonitor
    \/ DeleteAllForUser
    \/ SendHeartbeatFCM
    \/ OnPhoneHeartbeatOffline
    \/ Duplicate

Spec == Init /\ [][Next]_vars

\* The API finishes what it began and the queue delivers; time, the phone and
\* its user owe nothing.
Fairness ==
    /\ \A w \in Workers : WF_vars(UpdateNext(w)) /\ WF_vars(CheckNext(w))
    /\ WF_vars(ReporterNext)
    /\ WF_vars(SendHeartbeatFCM)
    /\ WF_vars(OnPhoneHeartbeatOffline)

FairSpec == Spec /\ Fairness

----------------------------------------------------------------------------
(* Properties. *)

\* The checks on their way and in hand, and those about to be started.
Live == SumFunction([id \in MonitorIDs |-> SumFunction(checks[id])])
            + Cardinality({ w \in Workers : worker[w].step = "check" })
Chains == Live + Cardinality({ w \in Workers : worker[w].step \in {"insert", "start"} })

\* Whether there is any of them.
Watched ==
    \/ \E id \in MonitorIDs, d \in Delays : checks[id][d] > 0
    \/ \E w \in Workers : worker[w].step \in {"insert", "start", "check"}

\* A number that has a monitor is watched: some check of it is on its way or in
\* hand, through quiet hours, deletions, new phones and rows that could not be
\* read.  The chain ends only where the code gives it up: for want of any
\* heartbeat, or of a queue.
MonitorIsWatched == monitors # {} /\ ~broken => Watched

\* No chain is started next to a live one: a check leads to at most one check,
\* and RequiresCheck takes no monitor for dead whose checks go on.  (A number
\* whose phone was deleted and added again is another matter: its old check
\* finds the new row.)
ChainsDoNotMultiply ==
    [][ faults' = 0 /\ monitors # {} /\ Chains' > Chains => Live = 0 ]_vars

\* A chain of checks raises one alarm a silence, and its user gets one e-mail:
\* for a second one there has to be a second chain, that is, some check on its
\* way besides the one in hand, or one has measured the silence without the
\* windows.
OneAlarmPerSilence ==
    [][ silence'.alarms > silence.alarms
        => \/ silence.alarms = 0 \/ silence.unread
           \/ \E id \in MonitorIDs, d \in Delays : checks[id][d] > 0 ]_vars

\* A phone that stays silent through a window is noticed: no silence outlasts
\* the time in which an alarm can be raised, unless a check came at the very
\* minute that time began.
SilenceIsNoticed ==
    /\ heard /\ ~quiet /\ silent >= 5 * CheckInterval /\ monitors # {}
    /\ Watched /\ ~silence.started /\ ~Busy /\ faults = 0
    => silence.alarms > 0 \/ silence.aligned \/ ~Loaded.PhoneOnline

\* No alarm is raised about a phone before it was asked for a heartbeat in this
\* silence, or asking it was tried in vain, unless its monitor or its chain of
\* checks is younger than the silence.
ProbedBeforeAlarm ==
    silence.alarms > 0 => silence.tried \/ silence.started \/ faults > 0

\* A phone that keeps sending heartbeats is shown online again and again,
\* whatever alarms were on their way when it came back.
ShownOnlineAgain ==
    []<><<StoreHeartbeat>>_vars => []<>(monitors = {} \/ Loaded.PhoneOnline)
============================================================================
