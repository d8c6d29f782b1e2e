------------------------- MODULE MessageDeliveries -------------------------
(****************************************************************************)
(* A message, and the deliveries of the events that tell of it and of every *)
(* other event of its phone.  The two share no state, though they name some *)
(* of theirs alike; a step of one can neither enable nor prevent a step of  *)
(* the other.  A behaviour of both is therefore one of either, and which    *)
(* of them it is is chosen at the start.                                    *)
(****************************************************************************)
EXTENDS MessageLifecycle

CONSTANTS
    Webhooks,       \* webhooks the user may configure
    Channels,       \* Discord channels the user may configure
    EventIDs,       \* IDs of events
    Announced,      \* types of events that are announced
    Mailers,        \* handlers of notices that run at the same time
    MaxChanges,     \* bound on the changes of settings
    MaxTicks,       \* bound on time
    MaxMailFaults   \* bound on what goes wrong with the deliveries

ASSUME DeliveriesAssumption == {MaxChanges, MaxTicks, MaxMailFaults} \subseteq Nat

VARIABLES subscribed, enabled, events, announced, posts, begun, heard, noticed,
          notices, mailer, sent, since, dropped, changes, ticks, mailFaults

mailVars == <<subscribed, enabled, events, announced, posts, begun, heard, notices,
              noticed, mailer, sent, since, dropped, changes, ticks, mailFaults>>

Mail == INSTANCE Deliveries WITH
    EventTypes <- Announced, Workers <- Mailers, MaxFaults <- MaxMailFaults,
    queue <- events, worker <- mailer, faults <- mailFaults

VARIABLE which

BothInit ==
    /\ Init /\ Mail!Init
    /\ \/ which = "mail"
       \/ which = "message" /\ subscribed = [h \in Mail!Endpoints |-> {}]

BothNext ==
    \/ which = "message" /\ Next /\ UNCHANGED <<mailVars, which>>
    \/ which = "mail" /\ Mail!Next /\ UNCHANGED <<vars, which>>

BothSpec == BothInit /\ [][BothNext]_<<vars, mailVars, which>>

\* The types of both.
BothTypeOK == TypeOK /\ Mail!TypeOK

\* The property of the deliveries, which Deliveries states.
FailureIsTold == Mail!FailureIsTold
============================================================================
