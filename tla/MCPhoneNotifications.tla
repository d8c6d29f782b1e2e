------------------------ MODULE MCPhoneNotifications ------------------------
EXTENDS PhoneNotifications, TLC
CONSTANTS m1, m2, h1, h2
TwoMessages == {m1, m2}
TwoHandlers == {h1, h2}

\* Two messages, or two handlers, differ in name only.
Symmetry == Permutations(TwoMessages) \cup Permutations(TwoHandlers)

\* The first two minutes of each of the first two days.
Mornings ==
    { [DayOfWeek |-> d, StartMinute |-> 0, EndMinute |-> 2] : d \in {0, 1} }
WithOrWithoutWindows == { {}, Mornings }

\* A behaviour is of two handlers beside edits of the settings, with retries and
\* with nothing going wrong; or of one handler and a limited phone with windows,
\* over more time and with things going wrong.  Both at once are too many states.
VARIABLE kind

OneWorks ==
    \E h \in Handlers : /\ \A g \in Handlers \ {h} : handler[g] = Idle
                        /\ \A n \in notifications : n.by = h

Restriction ==
    \/ /\ kind = "overlapping" /\ faults' = 0 /\ now' <= 1
       /\ \A e \in queue' : e.type = "message.api.sent" => e.due <= 1
    \/ kind = "failing" /\ settings' = settings /\ retries' = 0 /\ OneWorks'

MCInit ==
    /\ Init
    /\ kind \in {"overlapping", "failing"}
    /\ kind = "failing" => settings.MessagesPerMinute # 0 /\ settings.windows # {}

MCNext == Next /\ Restriction /\ UNCHANGED kind

MCSpec == MCInit /\ [][MCNext]_<<vars, kind>>
============================================================================
