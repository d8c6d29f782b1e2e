------------------------------ MODULE MCCaches ------------------------------
(* The two caches of the API's process, each over all its behaviours: they  *)
(* share nothing, so a behaviour is one of the contacts or one of a phone.  *)
EXTENDS ContactCache, PhoneState, TLC
CONSTANTS l1, l2, c1, c2, n1, r1, r2
TwoLookups == {l1, l2}
TwoChanges == {c1, c2}
OneNumber == {n1}
TwoRequests == {r1, r2}

\* Lookups, changes and requests differ in name only.
Symmetry == Permutations(TwoLookups) \cup Permutations(TwoChanges)
                \cup Permutations(TwoRequests)

phoneVars == <<phones, created, schedules, heap, entry, request, nullify, edits,
               cacheIsLate, tainted, faults>>

Phone == INSTANCE PhoneCache

VARIABLE which

CachesInit == Init /\ Phone!Init /\ which \in {"contacts", "phone"}

CachesNext ==
    \/ which = "contacts" /\ Next /\ UNCHANGED <<phoneVars, which>>
    \/ which = "phone" /\ Phone!Next /\ UNCHANGED <<vars, which>>

CachesSpec == CachesInit /\ [][CachesNext]_<<vars, phoneVars, which>>
============================================================================
