----------------------------- MODULE ContactBook -----------------------------
(****************************************************************************)
(* What GetContactMap promises: an answer is a contact the user had for the *)
(* number at some moment of the lookup, or a later one, and never one that  *)
(* a change which was finished before the lookup began had replaced.  (A    *)
(* regular register per number, shared by the lookups of one user.)         *)
(*                                                                          *)
(* A contact is the number of the change that stored it; 0 is none, and a   *)
(* deletion is a change like any other.                                     *)
(****************************************************************************)
EXTENDS Naturals

CONSTANTS
    Numbers,    \* phone numbers
    Lookups     \* requests that look contacts up at the same time

VARIABLES
    book,       \* book[n]: the last change of number n
    finished,   \* finished[n]: the last change of n that was made known
    since,      \* since[l]: finished, as it was when lookup l began
    answer      \* answer[l]: the contacts of the numbers l has resolved

vars == <<book, finished, since, answer>>

Contacts == [Numbers -> Nat]

\* A number that is not resolved yet.
Open == [found |-> FALSE, contact |-> 0]

Init ==
    /\ book = [n \in Numbers |-> 0]
    /\ finished = [n \in Numbers |-> 0]
    /\ since = [l \in Lookups |-> [n \in Numbers |-> 0]]
    /\ answer = [l \in Lookups |-> [n \in Numbers |-> Open]]

Change ==
    /\ book' \in Contacts
    /\ \A n \in Numbers : book'[n] >= book[n]
    /\ UNCHANGED <<finished, since, answer>>

Finish ==
    /\ finished' \in Contacts
    /\ \A n \in Numbers : finished[n] <= finished'[n] /\ finished'[n] <= book[n]
    /\ UNCHANGED <<book, since, answer>>

Begin(l) ==
    /\ since' = [since EXCEPT ![l] = finished]
    /\ UNCHANGED <<book, finished, answer>>

End(l) ==
    /\ since' = [since EXCEPT ![l] = [n \in Numbers |-> 0]]
    /\ answer' = [answer EXCEPT ![l] = [n \in Numbers |-> Open]]
    /\ UNCHANGED <<book, finished>>

\* Any of the numbers that are open may be resolved in one step.
Resolve(l) ==
    /\ answer' \in [Lookups -> [Numbers -> [found : BOOLEAN, contact : Nat]]]
    /\ \A k \in Lookups \ {l} : answer'[k] = answer[k]
    /\ \A n \in Numbers :
          answer'[l][n] # answer[l][n] =>
             /\ ~answer[l][n].found /\ answer'[l][n].found
             /\ since[l][n] <= answer'[l][n].contact
             /\ answer'[l][n].contact <= book[n]
    /\ UNCHANGED <<book, finished, since>>

Next ==
    \/ Change
    \/ Finish
    \/ \E l \in Lookups : Begin(l) \/ Resolve(l) \/ End(l)

Spec == Init /\ [][Next]_vars
==============================================================================
