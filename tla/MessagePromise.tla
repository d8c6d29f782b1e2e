--------------------------- MODULE MessagePromise ---------------------------
(****************************************************************************)
(* What the owner of a message may rely on, from the statuses that the API  *)
(* shows (api/pkg/entities/message.go) and the phone's maximum of send      *)
(* attempts.  Of queues, handlers and rows nothing is said; only of what    *)
(* has happened in the world, and of what may be shown in view of it.       *)
(*                                                                          *)
(* Any number of things may go wrong on the way, at any moment.  Each of    *)
(* them may cost one more push notification, and one more copy, than the    *)
(* maximum; none of them makes the API show what did not happen.            *)
(****************************************************************************)
EXTENDS Naturals

CONSTANT MaxSendAttempts    \* attempts the phone is configured for

VARIABLES
    status,     \* the status that is shown, "none" while there is no message
    pushes,     \* push notifications sent to the phone
    copies,     \* copies of the SMS that the phone has sent
    happened,   \* "fetched", "delivered", "failed", "final", "deleted"
    mishaps     \* things that have gone wrong

promise == <<status, pushes, copies, happened, mishaps>>

Shown == {"pending", "scheduled", "sending", "sent", "failed", "delivered", "expired"}

Init ==
    /\ status = "none"
    /\ pushes = 0
    /\ copies = 0
    /\ happened = {}
    /\ mishaps = 0

\* A message is accepted once.
Accept ==
    /\ status = "none" /\ happened = {}
    /\ status' = "pending"
    /\ UNCHANGED <<pushes, copies, happened>>

\* The phone is woken as often as its maximum allows.  (What is reported as a
\* failure may have arrived.)
Push ==
    /\ pushes' = pushes + 1
    /\ pushes' <= MaxSendAttempts + mishaps'
    /\ happened' \in {happened, happened \cup {"failed"}}
    /\ UNCHANGED <<status, copies>>

\* A phone that was woken may have the message while it waits to be fetched.
Fetch ==
    /\ pushes > 0
    /\ status \in {"pending", "scheduled", "expired"}
    /\ status' = "sending"
    /\ happened' = happened \cup {"fetched"}
    /\ UNCHANGED <<pushes, copies>>

\* No copy is sent of a message that was not fetched, nor two for one push.
Transmit ==
    /\ "fetched" \in happened
    /\ copies < pushes
    /\ copies' = copies + 1
    /\ \E results \in SUBSET {"delivered", "failed"} : happened' = happened \cup results
    /\ UNCHANGED <<status, pushes>>

Fail ==
    /\ happened' = happened \cup {"failed"}
    /\ UNCHANGED <<status, pushes, copies>>

\* The owner is told that an attempt was the last only after all of them.
GiveUp ==
    /\ pushes + mishaps >= MaxSendAttempts
    /\ happened' = happened \cup {"final"}
    /\ UNCHANGED <<status, pushes, copies>>

Earned(s) ==
    /\ s \in {"sending", "sent"} => "fetched" \in happened
    /\ s = "delivered" => "delivered" \in happened
    /\ s = "failed" => "failed" \in happened
    /\ s = "expired" => pushes > 0

\* A status is shown when it is earned, and a final one is not taken back.  (A
\* message that was deleted while a handler held it comes back.)
Show(s) ==
    /\ Earned(s)
    /\ status \notin {"delivered", "failed"}
    /\ status = "sent" => s \in {"delivered", "failed"}
    /\ status = "none" => "deleted" \in happened
    /\ status' = s
    /\ UNCHANGED <<pushes, copies, happened>>

Delete ==
    /\ status # "none"
    /\ status' = "none"
    /\ happened' = happened \cup {"deleted"}
    /\ UNCHANGED <<pushes, copies>>

Nothing == UNCHANGED <<status, pushes, copies, happened>>

\* Something may go wrong with every step, and without one.
Next ==
    /\ \/ Accept \/ Push \/ Fetch \/ Transmit \/ Fail \/ GiveUp \/ Delete \/ Nothing
       \/ \E s \in Shown : Show(s)
    /\ mishaps' \in {mishaps, mishaps + 1}

Spec == Init /\ [][Next]_promise
=============================================================================
