----------------------------- MODULE PhoneState -----------------------------
(****************************************************************************)
(* The phone of one number: its rows (api/pkg/entities/phone.go), the       *)
(* objects in memory that the requests and the cache share, and the         *)
(* properties they should have.  PhoneCache says what the API does to them. *)
(* Of a row's columns it keeps the token, one setting that the user edits,  *)
(* as the number of the edit, and the send schedule.                        *)
(****************************************************************************)
EXTENDS Naturals, FiniteSets

CONSTANTS
    PhoneIDs,       \* IDs of phones; their order is that of the uuids
    Requests,       \* requests and handlers that run at the same time
    Objects,        \* phones in memory, at least one more than requests
    Schedules,      \* IDs of send schedules
    MaxEdits,       \* bound on the edits made, for TLC
    MaxFaults       \* bound on the things that go wrong

None == 0   \* no object, no token, no schedule, no edit

ASSUME PhoneAssumption ==
    /\ PhoneIDs \subseteq Nat /\ PhoneIDs # {}
    /\ IsFiniteSet(Requests) /\ IsFiniteSet(Objects)
    /\ Cardinality(Requests) < Cardinality(Objects)
    /\ None \notin Objects
    /\ MaxEdits \in Nat /\ MaxFaults \in Nat

Phones == [id : PhoneIDs, FcmToken : 0..MaxEdits, MessagesPerMinute : 0..MaxEdits,
           MessageSendScheduleID : Schedules \cup {None}]

Blank == CHOOSE p \in Phones : TRUE

VARIABLES
    phones,         \* the rows of the number
    created,        \* history: IDs given so far
    schedules,      \* the send schedules there are
    heap,           \* heap[o]: what the object o holds
    entry,          \* the object the cache refers to, if any
    request,        \* request[r]: what r is in the middle of
    nullify,        \* message.send.schedule.deleted events waiting
    edits,          \* history: edits made so far
    cacheIsLate,    \* history: the cache was filled by a late request
    tainted,        \* history: a late request has written the row
    faults          \* history: things that have gone wrong so far

\* What a request asks for; an edit that is None leaves the setting alone.
Params == [op : {"none", "Read", "Upsert", "UpsertFCMToken"},
           FcmToken : 0..MaxEdits, MessagesPerMinute : 0..MaxEdits,
           MessageSendScheduleID : Schedules \cup {None}]

NoParams == [op |-> "none", FcmToken |-> None, MessagesPerMinute |-> None,
             MessageSendScheduleID |-> None]
Read == [NoParams EXCEPT !.op = "Read"]

\* A request is late once another one has written the row it read, or removed
\* the schedule it names.
Idle == [step |-> "idle", params |-> NoParams, object |-> None, late |-> FALSE]

\* First: the row with the smallest ID.
Loaded == CHOOSE p \in phones : \A q \in phones : p.id <= q.id

----------------------------------------------------------------------------
(* Properties. *)

AllIdle == \A r \in Requests : request[r] = Idle

\* The cache and the table agree, except for an entry that a request left which
\* was late, or for a save that failed: every other write takes the entry away.
CacheIsRight ==
    AllIdle /\ entry # None /\ ~cacheIsLate /\ faults = 0 =>
        phones # {} /\ heap[entry] = Loaded

\* No edit is undone by another request, one of the phone that registers its
\* token included, unless that one was late or took its phone from an entry of
\* one that was.
EditsAreKept ==
    [][ phones # {} /\ phones' # {} /\ ~tainted' /\ faults = 0 =>
            Loaded'.MessagesPerMinute >= Loaded.MessagesPerMinute ]_phones

\* A number has one phone as long as no request that was late has written it.
OneRowPerNumber == ~tainted => Cardinality(phones) <= 1

\* No phone refers to a schedule that is gone once its event was handled.
NoDanglingSchedule ==
    ~tainted /\ faults = 0 => \A p \in phones :
        p.MessageSendScheduleID \in schedules \cup nullify \cup {None}
=============================================================================
