------------------------------ MODULE Message ------------------------------
(****************************************************************************)
(* The row of the messages table (api/pkg/entities/message.go) and the      *)
(* in-memory mutations its methods make.  A handler of the API loads a row, *)
(* applies one of the mutations below and saves the whole row back.         *)
(*                                                                          *)
(* Of the columns, the ones the lifecycle depends on are kept: the status   *)
(* and the number of push notifications counted so far.  Timestamps,        *)
(* addresses and content are left out: no guard of the lifecycle reads them.*)
(****************************************************************************)
EXTENDS Naturals

CONSTANT MaxSendAttempts    \* MaxSendAttempts, copied from the phone's settings

ASSUME MaxSendAttemptsAssumption == MaxSendAttempts \in Nat \ {0}

\* "none" is not a status of the code: it stands for "there is no such row".
Statuses == {"pending", "scheduled", "sending", "sent", "failed",
             "delivered", "expired"}

Rows == [status : Statuses \cup {"none"}, SendAttemptCount : Nat]

NoRow == [status |-> "none", SendAttemptCount |-> 0]

\* storeSentMessage: what the API stores when it accepts a message.
NewMessage == [status |-> "pending", SendAttemptCount |-> 0]

Exists(message) == message.status # "none"

\* The statuses in which the phone may still fetch a message.
Outstanding == {"pending", "scheduled", "expired"}

\* Mutant: one attempt too many.
CanBeRescheduledOnceMore(message) ==
    message.SendAttemptCount <= MaxSendAttempts

CanBeRescheduled(message) == message.SendAttemptCount < MaxSendAttempts

Sent(message)            == [message EXCEPT !.status = "sent"]
Failed(message)          == [message EXCEPT !.status = "failed"]
Delivered(message)       == [message EXCEPT !.status = "delivered"]
Expired(message)         == [message EXCEPT !.status = "expired"]

\* Mutant: the attempt is counted when it is fetched as well.
AddSendAttemptAndCount(message) ==
    [message EXCEPT !.status = "sending", !.SendAttemptCount = @ + 1]

AddSendAttempt(message)  == [message EXCEPT !.status = "sending"]
AddSendAttemptCount(message) == [message EXCEPT !.SendAttemptCount = @ + 1]

\* Mutant: the status is set whatever it was.
NotificationScheduledAnyway(message) == [message EXCEPT !.status = "scheduled"]

NotificationScheduled(message) ==
    IF message.status \in {"expired", "pending"}
    THEN [message EXCEPT !.status = "scheduled"]
    ELSE message
============================================================================
