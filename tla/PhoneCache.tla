----------------------------- MODULE PhoneCache -----------------------------
(****************************************************************************)
(* The phone of one number and the cache in front of its row: PhoneService  *)
(* (api/pkg/services/phone_service.go) and gormPhoneRepository.             *)
(*                                                                          *)
(* The cache holds a pointer.  A request that finds the phone in the cache  *)
(* gets the object itself and changes it in place, before the row is saved; *)
(* every save is of the whole row.  Requests interleave between the reading *)
(* of the row, the filling of the cache, the change of the object, the      *)
(* saving of the row and the dropping of the cache entry.  Nothing in the   *)
(* database makes the number unique.  The state, and what is asked of it,   *)
(* are PhoneState's.                                                        *)
(****************************************************************************)
EXTENDS PhoneState

rows    == <<phones, created>>
memory  == <<heap, entry, cacheIsLate>>
world   == <<schedules, nullify>>
history == <<edits, tainted, faults>>
vars    == <<rows, world, memory, request, history>>

Task(step, params, object, late) ==
    [step |-> step, params |-> params, object |-> object, late |-> late]

TypeOK ==
    /\ phones \subseteq Phones
    /\ created \subseteq PhoneIDs
    /\ schedules \subseteq Schedules
    /\ nullify \subseteq Schedules
    /\ heap \in [Objects -> Phones]
    /\ entry \in Objects \cup {None}
    /\ request \in [Requests ->
          [step : {"idle", "cache", "update", "create", "save", "drop"},
           params : Params, object : Objects \cup {None}, late : BOOLEAN]]
    /\ edits \in 0..MaxEdits
    /\ cacheIsLate \in BOOLEAN
    /\ tainted \in BOOLEAN
    /\ faults \in 0..MaxFaults
    /\ \A r \in Requests : request[r].step \in {"cache", "update", "save"} =>
                              request[r].object \in Objects

Init ==
    /\ phones = {}
    /\ created = {}
    /\ schedules = Schedules
    /\ nullify = {}
    /\ heap = [o \in Objects |-> Blank]
    /\ entry = None
    /\ request = [r \in Requests |-> Idle]
    /\ edits = 0
    /\ cacheIsLate = FALSE
    /\ tainted = FALSE
    /\ faults = 0

Fault == faults < MaxFaults /\ faults' = faults + 1

----------------------------------------------------------------------------
(* Rows, objects and the cache. *)

Held(r) == request[r].object
Free(o) == o # entry /\ \A r \in Requests : Held(r) # o
NewObject == CHOOSE o \in Objects : Free(o)

\* The row is written: whoever is at work with what it read before, the row or
\* its absence, is late.
HasRead == {"cache", "update", "create", "save"}

Wrote(r) ==
    request' = [q \in Requests |->
                   IF q = r THEN Task("drop", NoParams, None, FALSE)
                   ELSE IF request[q].step \in HasRead
                   THEN [request[q] EXCEPT !.late = TRUE] ELSE request[q]]

\* Between the writing of the row and the dropping of its entry the cache is
\* behind the row.
BeingWritten == \E r \in Requests : request[r].step = "drop"

Proceed(r, task) == request' = [request EXCEPT ![r] = task]

\* cache.Del, cache.Clear, or thirty minutes.
Emptied == entry' = None /\ cacheIsLate' = FALSE

----------------------------------------------------------------------------
(* Load. *)

IsIdle(r) == request[r] = Idle
Is(r, step) == request[r].step = step
IsLate(r) == request[r].late
ParamsOf(r) == request[r].params
Reads(r) == ParamsOf(r).op = "Read"

\* What the user and the phone may ask for.  A schedule that is named did exist
\* when the request was validated (ValidateUpsert), before Load; the token of an
\* Upsert is the one the user was shown, and may be left out.
Asked ==
    { [op |-> "Upsert", FcmToken |-> token, MessagesPerMinute |-> edits + 1,
       MessageSendScheduleID |-> s] :
          token \in {None} \cup { p.FcmToken : p \in phones },
          s \in Schedules \cup {None} }
    \cup { [NoParams EXCEPT !.op = "UpsertFCMToken", !.FcmToken = edits + 1] }

\* The schedule that is named was deleted since, and its event was handled.
Forgotten(params) ==
    params.MessageSendScheduleID \notin schedules \cup nullify \cup {None}

Begin == edits < MaxEdits /\ edits' = edits + 1

\* Load, when the phone is in the cache: the request gets the object itself.
LoadCached(r) ==
    /\ IsIdle(r) /\ entry # None
    /\ Begin
    /\ \E params \in Asked :
          Proceed(r, Task("update", params, entry,
                          cacheIsLate \/ BeingWritten \/ Forgotten(params)))
    /\ UNCHANGED <<rows, world, memory, tainted, faults>>

LoadRow(r) ==
    /\ IsIdle(r) /\ entry = None /\ phones # {}
    /\ heap' = [heap EXCEPT ![NewObject] = Loaded]
    /\ \/ /\ Begin
          /\ \E params \in Asked :
                Proceed(r, Task("cache", params, NewObject, Forgotten(params)))
       \/ \* everything else that looks the phone up
          /\ Proceed(r, Task("cache", Read, NewObject, FALSE))
          /\ UNCHANGED edits
    /\ UNCHANGED <<rows, world, entry, cacheIsLate, tainted, faults>>

\* Mutant: whatever keeps the row from being read is taken for its absence.
LoadMissingOrFailing(r) ==
    /\ IsIdle(r) /\ entry = None
    /\ Begin
    /\ \E params \in Asked :
          Proceed(r, Task("create", params, None, Forgotten(params)))
    /\ UNCHANGED <<rows, world, memory, tainted, faults>>

LoadMissing(r) ==
    /\ IsIdle(r) /\ entry = None /\ phones = {}
    /\ Begin
    /\ \E params \in Asked :
          Proceed(r, Task("create", params, None, Forgotten(params)))
    /\ UNCHANGED <<rows, world, memory, tainted, faults>>

\* SetWithTTL; the cache may decline.
CacheLoaded(r) ==
    /\ Is(r, "cache")
    /\ \/ entry' = Held(r) /\ cacheIsLate' = IsLate(r)
       \/ UNCHANGED <<entry, cacheIsLate>>
    /\ Proceed(r, IF Reads(r) THEN Idle
                  ELSE Task("update", ParamsOf(r), Held(r), IsLate(r)))
    /\ UNCHANGED <<rows, world, heap, history>>

----------------------------------------------------------------------------
(* Upsert and UpsertFCMToken. *)

\* update: the token is replaced only when there is one, also by none; the
\* schedule is replaced always.
Updated(phone, params) ==
    IF params.op = "Upsert"
    THEN [id |-> phone.id,
          FcmToken |-> IF phone.FcmToken = None THEN None ELSE params.FcmToken,
          MessagesPerMinute |-> params.MessagesPerMinute,
          MessageSendScheduleID |-> params.MessageSendScheduleID]
    ELSE [phone EXCEPT !.FcmToken = params.FcmToken]

\* The object is changed where it is: whoever shares it sees the change, and
\* will save it.
Update(r) ==
    /\ Is(r, "update")
    /\ heap' = [heap EXCEPT ![Held(r)] = Updated(@, ParamsOf(r))]
    /\ request' = [q \in Requests |->
           IF q = r THEN Task("save", ParamsOf(r), Held(r), IsLate(r))
           ELSE IF Held(q) = Held(r) /\ IsLate(r)
           THEN [request[q] EXCEPT !.late = TRUE] ELSE request[q]]
    /\ cacheIsLate' = (cacheIsLate \/ (entry = Held(r) /\ IsLate(r)))
    /\ UNCHANGED <<rows, world, entry, history>>

\* gorm's Save: the row is inserted when it is no longer there.
Save(r) ==
    /\ Is(r, "save")
    /\ phones' = { p \in phones : p.id # heap[Held(r)].id } \cup {heap[Held(r)]}
    /\ tainted' = (tainted \/ IsLate(r))
    /\ Wrote(r)
    /\ UNCHANGED <<created, world, memory, edits, faults>>

\* The cache keeps an object that was changed and not saved.
SaveFails(r) ==
    /\ Is(r, "save")
    /\ Fault
    /\ Proceed(r, Idle)
    /\ UNCHANGED <<rows, world, memory, edits, tainted>>

\* createPhone: the settings are the defaults.
CreatePhone(r) ==
    /\ Is(r, "create")
    /\ \E id \in PhoneIDs \ created :
          /\ created' = created \cup {id}
          /\ phones' = phones \cup
                {[id |-> id, FcmToken |-> ParamsOf(r).FcmToken,
                  MessagesPerMinute |-> None,
                  MessageSendScheduleID |-> ParamsOf(r).MessageSendScheduleID]}
    /\ tainted' = (tainted \/ IsLate(r))
    /\ Wrote(r)
    /\ UNCHANGED <<world, memory, edits, faults>>

\* Mutant: the entry stays.
DropEntryNot(r) ==
    /\ Is(r, "drop")
    /\ Proceed(r, Idle)
    /\ UNCHANGED <<rows, world, memory, history>>

\* The end of Save, Delete and the rest.
DropEntry(r) ==
    /\ Is(r, "drop")
    /\ Emptied
    /\ Proceed(r, Idle)
    /\ UNCHANGED <<rows, world, heap, history>>

----------------------------------------------------------------------------
(* Deletions. *)

Delete(r) ==
    /\ IsIdle(r)
    /\ \E p \in phones : phones' = phones \ {p}
    /\ Wrote(r)
    /\ UNCHANGED <<created, world, memory, history>>

DeleteAllForUser(r) ==
    /\ IsIdle(r)
    /\ phones # {} /\ phones' = {}
    /\ Wrote(r)
    /\ UNCHANGED <<created, world, memory, history>>

\* MessageSendScheduleService.Delete: the row goes, its event is dispatched.
DeleteSchedule ==
    \E s \in schedules :
        /\ schedules' = schedules \ {s}
        /\ \/ nullify' = nullify \cup {s} /\ UNCHANGED faults
           \/ Fault /\ UNCHANGED nullify
        /\ UNCHANGED <<rows, memory, request, edits, tainted>>

Nullified(s) ==
    { IF p.MessageSendScheduleID = s
      THEN [p EXCEPT !.MessageSendScheduleID = None] ELSE p : p \in phones }

\* Mutant: the cache is left as it is.
NullifyScheduleIDInTable(r) ==
    /\ IsIdle(r)
    /\ \E s \in nullify :
          /\ nullify' = nullify \ {s}
          /\ phones' = Nullified(s)
    /\ UNCHANGED <<created, schedules, memory, request, history>>

NullifyScheduleID(r) ==
    /\ IsIdle(r)
    /\ \E s \in nullify :
          /\ nullify' = nullify \ {s}
          /\ phones' = Nullified(s)
    /\ Wrote(r)
    /\ UNCHANGED <<created, schedules, memory, history>>

\* Thirty minutes are over, or the cache needs the room.
Expire ==
    /\ entry # None
    /\ Emptied
    /\ UNCHANGED <<rows, world, heap, request, history>>

----------------------------------------------------------------------------
RequestNext(r) ==
    \/ LoadCached(r)
    \/ LoadRow(r)
    \/ LoadMissing(r)
    \/ CacheLoaded(r)
    \/ Update(r)
    \/ Save(r)
    \/ SaveFails(r)
    \/ CreatePhone(r)
    \/ DropEntry(r)
    \/ Delete(r)
    \/ DeleteAllForUser(r)
    \/ NullifyScheduleID(r)

Next ==
    \/ \E r \in Requests : RequestNext(r)
    \/ DeleteSchedule
    \/ Expire

Spec == Init /\ [][Next]_vars
============================================================================
