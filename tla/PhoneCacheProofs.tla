-------------------------- MODULE PhoneCacheProofs --------------------------
(****************************************************************************)
(* The phone's cache in front of its row, for any number of requests,       *)
(* objects, phones, schedules, edits and faults.                            *)
(*                                                                          *)
(* The properties speak of the moments at which nothing is under way, or of *)
(* the rows alone; what keeps them true is what the requests in between     *)
(* hold.  A request that is not late holds an object that Fits: it is as    *)
(* new as the row, or newer.  Whoever writes the row makes every other      *)
(* request late and takes the entry away, so what was held before can not   *)
(* come back unnoticed.  PhoneInv says so of every request and of the       *)
(* cache.                                                                   *)
(****************************************************************************)
EXTENDS PhoneCache, FiniteSetTheorems, WellFoundedInduction, TLAPS

USE PhoneAssumption

\* Of any rows there is one with the smallest ID.
LEMMA FirstExists ==
    ASSUME NEW P \in SUBSET Phones, P # {}
    PROVE  \E p \in P : \A q \in P : p.id <= q.id
<1> DEFINE R == { ss \in Nat \X Nat : ss[1] < ss[2] }
           IDs == { p.id : p \in P }
<1>1. IsWellFoundedOn(R, Nat)
  BY NatLessThanWellFounded DEF OpToRel
<1>2. IDs \in SUBSET Nat /\ IDs # {}
  BY DEF Phones
<1> HIDE DEF R, IDs
<1>3. PICK m \in IDs : \A x \in IDs : ~(<<x, m>> \in R)
  BY <1>1, <1>2, WFMin
<1>4. \A x \in IDs : m <= x
  <2> SUFFICES ASSUME NEW x \in IDs, x < m PROVE FALSE
    BY <1>2
  <2>1. <<x, m>> \in R
    BY <1>2 DEF R
  <2> QED
    BY <1>3, <2>1
<1>5. PICK p \in P : p.id = m
  BY <1>3 DEF IDs
<1> QED
  BY <1>4, <1>5 DEF IDs

LEMMA LoadedIsRow ==
    ASSUME phones \subseteq Phones, phones # {}
    PROVE  Loaded \in phones
<1>1. \E p \in phones : \A q \in phones : p.id <= q.id
  BY FirstExists
<1> QED
  BY <1>1 DEF Loaded

\* There is always an object for a request that needs one.
LEMMA NewObjectIsFree ==
    ASSUME TypeOK, entry = None
    PROVE  NewObject \in Objects /\ Free(NewObject)
<1>1. \E o \in Objects : Free(o)
  <2> SUFFICES ASSUME \A o \in Objects : \E r \in Requests : Held(r) = o
               PROVE  FALSE
    BY DEF Free
  <2> DEFINE f == [r \in Requests |-> Held(r)]
             T == { f[r] : r \in Requests }
  <2>1. f \in Surjection(Requests, T)
    BY DEF Surjection
  <2>2. IsFiniteSet(T) /\ Cardinality(T) <= Cardinality(Requests)
    <3> HIDE DEF f, T
    <3> QED
      BY <2>1, FS_Surjection
  <2>3. Objects \in SUBSET T
    OBVIOUS
  <2>4. Cardinality(Objects) <= Cardinality(T)
    <3> HIDE DEF T
    <3> QED
      BY <2>2, <2>3, FS_Subset
  <2>5. /\ Cardinality(Objects) \in Nat /\ Cardinality(T) \in Nat
        /\ Cardinality(Requests) \in Nat
    <3> HIDE DEF T
    <3> QED
      BY <2>2, FS_CardinalityType
  <2> HIDE DEF T
  <2> QED
    BY <2>2, <2>4, <2>5
<1> QED
  BY <1>1 DEF NewObject

----------------------------------------------------------------------------
(* Types. *)

Steps == {"idle", "cache", "update", "create", "save", "drop"}

Tasks == [step : Steps, params : Params, object : Objects \cup {None},
          late : BOOLEAN]

LEMMA TypeParts ==
    TypeOK <=>
      /\ phones \subseteq Phones /\ created \subseteq PhoneIDs
      /\ schedules \subseteq Schedules /\ nullify \subseteq Schedules
      /\ heap \in [Objects -> Phones] /\ entry \in Objects \cup {None}
      /\ request \in [Requests -> Tasks]
      /\ \A r \in Requests : request[r].step \in {"cache", "update", "save"} =>
                                request[r].object \in Objects
      /\ edits \in 0..MaxEdits /\ cacheIsLate \in BOOLEAN
      /\ tainted \in BOOLEAN /\ faults \in 0..MaxFaults
BY DEF TypeOK, Tasks, Steps

LEMMA TasksAreTyped ==
    ASSUME NEW step \in Steps, NEW params \in Params,
           NEW object \in Objects \cup {None}, NEW late \in BOOLEAN
    PROVE  /\ Task(step, params, object, late) \in Tasks
           /\ Task(step, params, object, late).step = step
           /\ Task(step, params, object, late).params = params
           /\ Task(step, params, object, late).object = object
           /\ Task(step, params, object, late).late = late
BY DEF Task, Tasks

LEMMA NoParamsAreTyped ==
    /\ NoParams \in Params /\ Read \in Params /\ Idle \in Tasks
    /\ NoParams.op = "none" /\ Read.op = "Read"
    /\ NoParams.MessagesPerMinute = None /\ Read.MessagesPerMinute = None
    /\ NoParams.MessageSendScheduleID = None
    /\ Read.MessageSendScheduleID = None
    /\ Idle.step = "idle" /\ Idle.object = None /\ Idle.late = FALSE
    /\ Idle.params = NoParams
BY DEF NoParams, Read, Params, Idle, Tasks, Steps, None

\* What is asked for.
LEMMA AskedIsTyped ==
    ASSUME TypeOK, edits < MaxEdits, NEW params \in Asked
    PROVE  /\ params \in Params
           /\ params.op \in {"Upsert", "UpsertFCMToken"}
           /\ params.MessagesPerMinute \in {None, edits + 1}
           /\ params.op = "Upsert" => params.MessagesPerMinute = edits + 1
<1>1. /\ edits \in Nat /\ edits + 1 \in 0..MaxEdits /\ None \in 0..MaxEdits
      /\ \A p \in phones : p.FcmToken \in 0..MaxEdits
  BY DEF TypeOK, Phones, None
<1>2. CASE params = [NoParams EXCEPT !.op = "UpsertFCMToken", !.FcmToken = edits + 1]
  BY <1>1, <1>2 DEF NoParams, Params
<1>3. CASE \E token \in {None} \cup { p.FcmToken : p \in phones },
              s \in Schedules \cup {None} :
                params = [op |-> "Upsert", FcmToken |-> token,
                          MessagesPerMinute |-> edits + 1,
                          MessageSendScheduleID |-> s]
  BY <1>1, <1>3 DEF Params
<1> QED
  BY <1>2, <1>3 DEF Asked

\* A change of an object gives a phone, with the request's setting or its own.
LEMMA UpdatedIsTyped ==
    ASSUME NEW phone \in Phones, NEW params \in Params
    PROVE  /\ Updated(phone, params) \in Phones
           /\ Updated(phone, params).id = phone.id
           /\ Updated(phone, params).MessagesPerMinute =
                IF params.op = "Upsert"
                THEN params.MessagesPerMinute ELSE phone.MessagesPerMinute
           /\ Updated(phone, params).MessageSendScheduleID =
                IF params.op = "Upsert" THEN params.MessageSendScheduleID
                ELSE phone.MessageSendScheduleID
BY DEF Updated, Phones, Params, None

\* The schedule that is gone is taken from every row, and nothing else is.
LEMMA NullifiedRows ==
    ASSUME TypeOK, NEW s
    PROVE  /\ Nullified(s) \subseteq Phones
           /\ \A n \in Nullified(s) : \E p \in phones :
                 /\ n = (IF p.MessageSendScheduleID = s
                         THEN [p EXCEPT !.MessageSendScheduleID = None] ELSE p)
                 /\ n.id = p.id /\ n.MessagesPerMinute = p.MessagesPerMinute
                 /\ n.MessageSendScheduleID # s \/ s = None
                 /\ n.MessageSendScheduleID \in {p.MessageSendScheduleID, None}
           /\ Nullified(s) = {} => phones = {}
<1>1. ASSUME NEW p \in phones
      PROVE  LET n == IF p.MessageSendScheduleID = s
                      THEN [p EXCEPT !.MessageSendScheduleID = None] ELSE p
             IN  /\ n \in Phones
                 /\ n.id = p.id /\ n.MessagesPerMinute = p.MessagesPerMinute
                 /\ n.MessageSendScheduleID # s \/ s = None
                 /\ n.MessageSendScheduleID \in {p.MessageSendScheduleID, None}
  BY DEF TypeOK, Phones
<1> QED
  BY <1>1 DEF Nullified

LEMMA InitIsTyped == Init => TypeOK
<1>1. Blank \in Phones
  <2>1. PICK id \in PhoneIDs : TRUE
    OBVIOUS
  <2>2. [id |-> id, FcmToken |-> 0, MessagesPerMinute |-> 0,
         MessageSendScheduleID |-> None] \in Phones
    BY DEF Phones
  <2> QED
    BY <2>2 DEF Blank
<1> SUFFICES ASSUME Init PROVE TypeOK
  OBVIOUS
<1>2. heap \in [Objects -> Phones] /\ request \in [Requests -> Tasks]
  BY <1>1, NoParamsAreTyped DEF Init
<1>3. \A r \in Requests : request[r].step = "idle"
  BY NoParamsAreTyped DEF Init
<1>4. edits \in 0..MaxEdits /\ faults \in 0..MaxFaults
  BY DEF Init
<1> QED
  BY <1>2, <1>3, <1>4, TypeParts DEF Init

\* What Wrote does to each request.
LEMMA WroteTasks ==
    ASSUME TypeOK, NEW r \in Requests, Wrote(r)
    PROVE  /\ request' \in [Requests -> Tasks]
           /\ request'[r].step = "drop" /\ ~request'[r].late
           /\ request'[r].object = None /\ request'[r].params = NoParams
           /\ \A q \in Requests \ {r} :
                 /\ request'[q].step = request[q].step
                 /\ request'[q].object = request[q].object
                 /\ request'[q].params = request[q].params
                 /\ request'[q].late =
                      (request[q].late \/ request[q].step \in HasRead)
<1>1. request \in [Requests -> Tasks]
  BY DEF TypeOK, Tasks, Steps
<1> DEFINE done == Task("drop", NoParams, None, FALSE)
<1>2. /\ done \in Tasks /\ done.step = "drop" /\ done.object = None
      /\ done.params = NoParams /\ ~done.late
  BY NoParamsAreTyped DEF Task, Tasks, Steps
<1>3. ASSUME NEW task \in Tasks
      PROVE  /\ [task EXCEPT !.late = TRUE] \in Tasks
             /\ [task EXCEPT !.late = TRUE].step = task.step
             /\ [task EXCEPT !.late = TRUE].object = task.object
             /\ [task EXCEPT !.late = TRUE].params = task.params
             /\ [task EXCEPT !.late = TRUE].late
  BY DEF Tasks
<1>4. \A q \in Requests : request[q].late \in BOOLEAN
  BY <1>1 DEF Tasks
<1>5. request'[r] = done
  BY <1>1 DEF Wrote
<1>6. ASSUME NEW q \in Requests \ {r}
      PROVE  request'[q] = IF request[q].step \in HasRead
                           THEN [request[q] EXCEPT !.late = TRUE] ELSE request[q]
  BY DEF Wrote
<1>7. \A q \in Requests : request'[q] \in Tasks
  <2> HIDE DEF done
  <2> QED
    BY <1>1, <1>2, <1>3, <1>5, <1>6
<1>8. request' = [q \in Requests |-> request'[q]]
  BY DEF Wrote
<1>9. request' \in [Requests -> Tasks]
  BY <1>7, <1>8
<1>10. ASSUME NEW q \in Requests \ {r}
       PROVE  /\ request'[q].step = request[q].step
              /\ request'[q].object = request[q].object
              /\ request'[q].params = request[q].params
              /\ request'[q].late =
                   (request[q].late \/ request[q].step \in HasRead)
  <2>1. request[q] \in Tasks
    BY <1>1
  <2>2. CASE request[q].step \in HasRead
    BY <1>3, <1>6, <2>1, <2>2
  <2>3. CASE request[q].step \notin HasRead
    BY <1>4, <1>6, <2>3
  <2> QED
    BY <2>2, <2>3
<1> QED
  BY <1>2, <1>5, <1>9, <1>10
\* What Proceed does to each request.
LEMMA ProceedTasks ==
    ASSUME TypeOK, NEW r \in Requests, NEW task \in Tasks, Proceed(r, task)
    PROVE  /\ request' \in [Requests -> Tasks]
           /\ request'[r] = task
           /\ \A q \in Requests \ {r} : request'[q] = request[q]
BY DEF TypeOK, Proceed, Tasks, Steps

LEMMA TypePartsNext ==
    ASSUME phones' \subseteq Phones, created' \subseteq PhoneIDs,
           schedules' \subseteq Schedules, nullify' \subseteq Schedules,
           heap' \in [Objects -> Phones], entry' \in Objects \cup {None},
           request' \in [Requests -> Tasks],
           \A r \in Requests : request'[r].step \in {"cache", "update", "save"} =>
                                  request'[r].object \in Objects,
           edits' \in 0..MaxEdits, cacheIsLate' \in BOOLEAN,
           tainted' \in BOOLEAN, faults' \in 0..MaxFaults
    PROVE  TypeOK'
BY DEF TypeOK, Tasks, Steps

LEMMA TypeOKIsInductive ==
    ASSUME TypeOK, [Next]_vars
    PROVE  TypeOK'
<1> USE TypeParts
<1>1. ASSUME NEW r \in Requests, Wrote(r),
             phones' \subseteq Phones, created' \subseteq PhoneIDs,
             schedules' \subseteq Schedules, nullify' \subseteq Schedules,
             heap' \in [Objects -> Phones], entry' \in Objects \cup {None},
             edits' \in 0..MaxEdits, cacheIsLate' \in BOOLEAN,
             tainted' \in BOOLEAN, faults' \in 0..MaxFaults
      PROVE  TypeOK'
  BY <1>1, WroteTasks, TypePartsNext
<1>2. ASSUME NEW r \in Requests, NEW task \in Tasks, Proceed(r, task),
             task.step \in {"cache", "update", "save"} => task.object \in Objects,
             phones' \subseteq Phones, created' \subseteq PhoneIDs,
             schedules' \subseteq Schedules, nullify' \subseteq Schedules,
             heap' \in [Objects -> Phones], entry' \in Objects \cup {None},
             edits' \in 0..MaxEdits, cacheIsLate' \in BOOLEAN,
             tainted' \in BOOLEAN, faults' \in 0..MaxFaults
      PROVE  TypeOK'
  BY <1>2, ProceedTasks, TypePartsNext
<1>3. ASSUME NEW r \in Requests
      PROVE  /\ request[r] \in Tasks /\ request[r].params \in Params
             /\ request[r].late \in BOOLEAN
             /\ request[r].object \in Objects \cup {None}
             /\ request[r].step \in {"cache", "update", "save"} =>
                  request[r].object \in Objects
  BY DEF Tasks
<1>4. Begin => edits' \in 0..MaxEdits
  BY DEF Begin
<1>5. Fault => faults' \in 0..MaxFaults
  BY DEF Fault
<1>6. Emptied => entry' \in Objects \cup {None} /\ cacheIsLate' \in BOOLEAN
  BY DEF Emptied
<1>7. NoParams \in Params /\ Read \in Params /\ Idle \in Tasks /\ Idle.step = "idle"
  BY NoParamsAreTyped
<1>8. ASSUME NEW r \in Requests, LoadCached(r) PROVE TypeOK'
  <2>1. PICK params \in Asked :
           Proceed(r, Task("update", params, entry,
                           cacheIsLate \/ BeingWritten \/ Forgotten(params)))
    BY <1>8 DEF LoadCached
  <2> DEFINE late == cacheIsLate \/ BeingWritten \/ Forgotten(params)
  <2>5. Proceed(r, Task("update", params, entry, late))
    BY <2>1
  <2>2. params \in Params /\ entry \in Objects /\ Begin
    BY <1>8, AskedIsTyped DEF LoadCached, Begin
  <2>3. late \in BOOLEAN /\ "update" \in Steps
    BY DEF Steps, Forgotten
  <2> HIDE DEF late
  <2>4. /\ Task("update", params, entry, late) \in Tasks
        /\ Task("update", params, entry, late).object = entry
    BY <2>2, <2>3, TasksAreTyped
  <2> QED
    BY <1>2, <1>4, <1>8, <2>2, <2>4, <2>5
       DEF LoadCached, rows, world, memory
<1>9. ASSUME NEW r \in Requests, LoadRow(r) PROVE TypeOK'
  <2>1. NewObject \in Objects /\ Loaded \in Phones
    BY <1>9, NewObjectIsFree, LoadedIsRow DEF LoadRow
  <2>2. \E params \in Params, late \in BOOLEAN :
           /\ Proceed(r, Task("cache", params, NewObject, late))
           /\ edits' \in 0..MaxEdits
    <3>1. CASE Proceed(r, Task("cache", Read, NewObject, FALSE)) /\ UNCHANGED edits
      BY <1>7, <3>1
    <3>2. CASE Begin /\ \E params \in Asked :
                  Proceed(r, Task("cache", params, NewObject, Forgotten(params)))
      <4>1. PICK params \in Asked :
               Proceed(r, Task("cache", params, NewObject, Forgotten(params)))
        BY <3>2
      <4>2. params \in Params /\ edits' \in 0..MaxEdits
        BY <1>4, <3>2, AskedIsTyped DEF Begin
      <4>3. Forgotten(params) \in BOOLEAN
        BY DEF Forgotten
      <4> QED
        BY <4>1, <4>2, <4>3
    <3> QED
      BY <1>9, <3>1, <3>2 DEF LoadRow
  <2>5. PICK params \in Params, late \in BOOLEAN :
           /\ Proceed(r, Task("cache", params, NewObject, late))
           /\ edits' \in 0..MaxEdits
    BY <2>2
  <2>3. /\ Task("cache", params, NewObject, late) \in Tasks
        /\ Task("cache", params, NewObject, late).object = NewObject
    BY <2>1, TasksAreTyped DEF Steps
  <2>4. heap' \in [Objects -> Phones]
    BY <1>9, <2>1 DEF LoadRow
  <2> QED
    BY <1>2, <1>9, <2>1, <2>3, <2>4, <2>5 DEF LoadRow, rows, world
<1>10. ASSUME NEW r \in Requests, LoadMissing(r) PROVE TypeOK'
  <2>1. PICK params \in Asked :
           Proceed(r, Task("create", params, None, Forgotten(params)))
    BY <1>10 DEF LoadMissing
  <2> DEFINE late == Forgotten(params)
  <2>4. late \in BOOLEAN /\ "create" \in Steps
    BY DEF Forgotten, Steps
  <2>5. Proceed(r, Task("create", params, None, late))
    BY <2>1
  <2>2. params \in Params /\ Begin
    BY <1>10, AskedIsTyped DEF LoadMissing, Begin
  <2> HIDE DEF late
  <2>3. /\ Task("create", params, None, late) \in Tasks
        /\ Task("create", params, None, late).step = "create"
    BY <2>2, <2>4, TasksAreTyped
  <2> QED
    BY <1>2, <1>4, <1>10, <2>2, <2>3, <2>5 DEF LoadMissing, rows, world, memory
<1>11. ASSUME NEW r \in Requests, CacheLoaded(r) PROVE TypeOK'
  <2> DEFINE next == IF Reads(r) THEN Idle
                     ELSE Task("update", ParamsOf(r), Held(r), IsLate(r))
  <2>1. Held(r) \in Objects /\ ParamsOf(r) \in Params /\ IsLate(r) \in BOOLEAN
    BY <1>3, <1>11 DEF CacheLoaded, Is, Held, ParamsOf, IsLate
  <2>2. /\ next \in Tasks
        /\ next.step \in {"cache", "update", "save"} => next.object \in Objects
    BY <1>7, <2>1, TasksAreTyped DEF Steps
  <2>3. entry' \in Objects \cup {None} /\ cacheIsLate' \in BOOLEAN
    BY <1>11, <2>1 DEF CacheLoaded
  <2>4. Proceed(r, next)
    BY <1>11 DEF CacheLoaded
  <2> HIDE DEF next
  <2> QED
    BY <1>2, <1>11, <2>2, <2>3, <2>4 DEF CacheLoaded, rows, world, history
<1>12. ASSUME NEW r \in Requests, Update(r) PROVE TypeOK'
  <2>1. /\ Held(r) \in Objects /\ ParamsOf(r) \in Params /\ IsLate(r) \in BOOLEAN
    BY <1>3, <1>12 DEF Update, Is, Held, ParamsOf, IsLate
  <2>2. heap' \in [Objects -> Phones]
    BY <1>12, <2>1, UpdatedIsTyped DEF Update
  <2>3. cacheIsLate' \in BOOLEAN
    BY <1>12 DEF Update
  <2>4. ASSUME NEW q \in Requests
        PROVE  /\ request'[q] \in Tasks
               /\ request'[q].step \in {"cache", "update", "save"} =>
                     request'[q].object \in Objects
    <3>1. CASE q = r
      <4>1. request'[q] = Task("save", ParamsOf(r), Held(r), IsLate(r))
        BY <1>12, <3>1 DEF Update
      <4>2. "save" \in Steps /\ Held(r) \in Objects \cup {None}
        BY <2>1 DEF Steps
      <4> QED
        BY <2>1, <4>1, <4>2, TasksAreTyped
    <3>2. CASE q # r
      <4>1. request'[q] \in {request[q], [request[q] EXCEPT !.late = TRUE]}
        BY <1>12, <3>2 DEF Update
      <4> QED
        BY <1>3, <4>1 DEF Tasks
    <3> QED
      BY <3>1, <3>2
  <2>5. request' = [q \in Requests |-> request'[q]]
    BY <1>12 DEF Update
  <2>6. request' \in [Requests -> Tasks]
    BY <2>4, <2>5
  <2> QED
    BY <1>12, <2>2, <2>3, <2>4, <2>6, TypePartsNext DEF Update, rows, world, history
<1>13. ASSUME NEW r \in Requests, Save(r) PROVE TypeOK'
  <2>1. Held(r) \in Objects
    BY <1>3, <1>13 DEF Save, Is, Held
  <2>2. phones' \subseteq Phones /\ tainted' \in BOOLEAN
    BY <1>13, <2>1 DEF Save
  <2> QED
    BY <1>1, <1>13, <2>2 DEF Save, world, memory
<1>14. ASSUME NEW r \in Requests, SaveFails(r) PROVE TypeOK'
  BY <1>2, <1>5, <1>7, <1>14 DEF SaveFails, rows, world, memory
<1>15. ASSUME NEW r \in Requests, CreatePhone(r) PROVE TypeOK'
  <2>1. PICK id \in PhoneIDs :
           /\ created' = created \cup {id}
           /\ phones' = phones \cup
                {[id |-> id, FcmToken |-> ParamsOf(r).FcmToken,
                  MessagesPerMinute |-> None,
                  MessageSendScheduleID |-> ParamsOf(r).MessageSendScheduleID]}
    BY <1>15 DEF CreatePhone
  <2>2. ParamsOf(r) \in Params
    BY <1>3 DEF ParamsOf
  <2>3. phones' \subseteq Phones /\ created' \subseteq PhoneIDs
    BY <2>1, <2>2 DEF Params, Phones, None
  <2> QED
    BY <1>1, <1>15, <2>3 DEF CreatePhone, world, memory
<1>16. ASSUME NEW r \in Requests, DropEntry(r) PROVE TypeOK'
  BY <1>2, <1>6, <1>7, <1>16 DEF DropEntry, rows, world, history
<1>17. ASSUME NEW r \in Requests, Delete(r) \/ DeleteAllForUser(r) PROVE TypeOK'
  BY <1>1, <1>17 DEF Delete, DeleteAllForUser, world, memory, history
<1>18. ASSUME NEW r \in Requests, NullifyScheduleID(r) PROVE TypeOK'
  BY <1>1, <1>18, NullifiedRows DEF NullifyScheduleID, memory, history
<1>19. CASE DeleteSchedule
  BY <1>5, <1>19, TypePartsNext DEF DeleteSchedule, rows, memory
<1>20. CASE Expire
  BY <1>6, <1>20, TypePartsNext DEF Expire, rows, world, history
<1>21. CASE UNCHANGED vars
  BY <1>21, TypePartsNext DEF vars, rows, world, memory, history
<1> QED
  BY <1>8, <1>9, <1>10, <1>11, <1>12, <1>13, <1>14, <1>15, <1>16, <1>17, <1>18,
     <1>19, <1>20, <1>21 DEF Next, RequestNext

\* Every state has the types of TypeOK; in particular a request that needs an
\* object always finds a free one.
THEOREM PhoneTypeCorrect == Spec => []TypeOK
  BY InitIsTyped, TypeOKIsInductive, PTL DEF Spec

----------------------------------------------------------------------------
(* What each action does to the requests. *)

Others(r) == \A q \in Requests \ {r} : request'[q] = request[q]

LEMMA ProceedsTo ==
    ASSUME TypeOK, NEW r \in Requests, NEW step \in Steps, NEW params \in Params,
           NEW object \in Objects \cup {None}, NEW late \in BOOLEAN,
           Proceed(r, Task(step, params, object, late))
    PROVE  /\ request'[r].step = step /\ request'[r].params = params
           /\ request'[r].object = object /\ request'[r].late = late
           /\ Others(r)
<1>1. Task(step, params, object, late) \in Tasks
  BY TasksAreTyped
<1> QED
  BY <1>1, ProceedTasks, TasksAreTyped DEF Others

LEMMA ProceedsToIdle ==
    ASSUME TypeOK, NEW r \in Requests, Proceed(r, Idle)
    PROVE  /\ request'[r].step = "idle" /\ request'[r].params = NoParams
           /\ request'[r].object = None /\ ~request'[r].late
           /\ Others(r)
<1>1. Idle \in Tasks
  BY NoParamsAreTyped
<1> QED
  BY <1>1, ProceedTasks, NoParamsAreTyped DEF Others

LEMMA RequestTypes ==
    ASSUME TypeOK, NEW r \in Requests
    PROVE  /\ request[r].step \in Steps /\ request[r].params \in Params
           /\ request[r].object \in Objects \cup {None}
           /\ request[r].late \in BOOLEAN
           /\ request[r].step \in {"cache", "update", "save"} =>
                request[r].object \in Objects
BY TypeParts DEF Tasks

\* A request that asks for a change: what it asks for, in the state before.
MayAsk(params) ==
    /\ params \in Params
    /\ params.MessagesPerMinute \in {None, edits + 1}
    /\ params.op = "Upsert" => params.MessagesPerMinute = edits + 1

LEMMA LoadCachedEffect ==
    ASSUME TypeOK, NEW r \in Requests, LoadCached(r)
    PROVE  /\ request[r].step = "idle" /\ entry \in Objects
           /\ request'[r].step = "update" /\ request'[r].object = entry
           /\ MayAsk(request'[r].params)
           /\ request'[r].late =
                (cacheIsLate \/ BeingWritten \/ Forgotten(request'[r].params))
           /\ Others(r)
           /\ edits \in Nat /\ edits' = edits + 1
           /\ UNCHANGED <<phones, created, schedules, nullify, heap, entry,
                          cacheIsLate, tainted, faults>>
<1>6. PICK params \in Asked :
         Proceed(r, Task("update", params, entry,
                         cacheIsLate \/ BeingWritten \/ Forgotten(params)))
  BY DEF LoadCached
<1> DEFINE late == cacheIsLate \/ BeingWritten \/ Forgotten(params)
<1>1. Proceed(r, Task("update", params, entry, late))
  BY <1>6
<1>2. /\ MayAsk(params) /\ entry \in Objects
      /\ edits \in Nat /\ edits' = edits + 1
  BY AskedIsTyped DEF LoadCached, Begin, MayAsk, TypeOK
<1>3. late \in BOOLEAN /\ "update" \in Steps
  BY TypeParts DEF Steps, Forgotten
<1>4. /\ request'[r].step = "update" /\ request'[r].params = params
      /\ request'[r].object = entry /\ request'[r].late = late
      /\ Others(r)
  <2> HIDE DEF late
  <2> QED
    BY <1>1, <1>2, <1>3, ProceedsTo DEF MayAsk
<1>5. request[r].step = "idle"
  BY NoParamsAreTyped DEF LoadCached, IsIdle
<1> QED
  BY <1>2, <1>4, <1>5 DEF LoadCached, rows, world, memory

LEMMA LoadRowEffect ==
    ASSUME TypeOK, NEW r \in Requests, LoadRow(r)
    PROVE  /\ request[r].step = "idle" /\ entry = None
           /\ request'[r].step = "cache" /\ request'[r].object = NewObject
           /\ NewObject \in Objects /\ Free(NewObject)
           /\ Loaded \in phones
           /\ heap' = [heap EXCEPT ![NewObject] = Loaded]
           /\ request'[r].late = Forgotten(request'[r].params)
           /\ \/ MayAsk(request'[r].params) /\ edits' = edits + 1
              \/ request'[r].params = Read /\ edits' = edits
           /\ Others(r)
           /\ UNCHANGED <<phones, created, schedules, nullify, entry,
                          cacheIsLate, tainted, faults>>
<1>1. NewObject \in Objects /\ Free(NewObject) /\ Loaded \in phones
  BY NewObjectIsFree, LoadedIsRow, TypeParts DEF LoadRow
<1>2. PICK params \in Params :
         /\ Proceed(r, Task("cache", params, NewObject, Forgotten(params)))
         /\ \/ MayAsk(params) /\ edits' = edits + 1
            \/ params = Read /\ edits' = edits
  <2>1. CASE Begin /\ \E params \in Asked :
                Proceed(r, Task("cache", params, NewObject, Forgotten(params)))
    <3>1. PICK params \in Asked :
             Proceed(r, Task("cache", params, NewObject, Forgotten(params)))
      BY <2>1
    <3>2. MayAsk(params) /\ edits' = edits + 1
      BY <2>1, AskedIsTyped DEF Begin, MayAsk
    <3> QED
      BY <3>1, <3>2 DEF MayAsk
  <2>2. CASE Proceed(r, Task("cache", Read, NewObject, FALSE)) /\ UNCHANGED edits
    <3>1. Read \in Params /\ Forgotten(Read) = FALSE
      BY NoParamsAreTyped DEF Forgotten
    <3>2. Proceed(r, Task("cache", Read, NewObject, Forgotten(Read)))
      BY <2>2, <3>1
    <3> QED
      BY <2>2, <3>1, <3>2
  <2> QED
    BY <2>1, <2>2 DEF LoadRow
<1> DEFINE late == Forgotten(params)
<1>3. "cache" \in Steps /\ late \in BOOLEAN
  BY DEF Steps, Forgotten
<1>6. Proceed(r, Task("cache", params, NewObject, late))
  BY <1>2
<1>4. /\ request'[r].step = "cache" /\ request'[r].params = params
      /\ request'[r].object = NewObject /\ request'[r].late = late
      /\ Others(r)
  <2> HIDE DEF late
  <2> QED
    BY <1>1, <1>3, <1>6, ProceedsTo
<1>5. request[r].step = "idle"
  BY NoParamsAreTyped DEF LoadRow, IsIdle
<1> QED
  BY <1>1, <1>2, <1>4, <1>5 DEF LoadRow, rows, world

LEMMA LoadMissingEffect ==
    ASSUME TypeOK, NEW r \in Requests, LoadMissing(r)
    PROVE  /\ request[r].step = "idle" /\ entry = None /\ phones = {}
           /\ request'[r].step = "create" /\ request'[r].object = None
           /\ MayAsk(request'[r].params)
           /\ request'[r].late = Forgotten(request'[r].params)
           /\ Others(r)
           /\ edits \in Nat /\ edits' = edits + 1
           /\ UNCHANGED <<phones, created, schedules, nullify, heap, entry,
                          cacheIsLate, tainted, faults>>
<1>6. PICK params \in Asked :
         Proceed(r, Task("create", params, None, Forgotten(params)))
  BY DEF LoadMissing
<1> DEFINE late == Forgotten(params)
<1>1. Proceed(r, Task("create", params, None, late))
  BY <1>6
<1>2. MayAsk(params) /\ edits \in Nat /\ edits' = edits + 1
  BY AskedIsTyped DEF LoadMissing, Begin, MayAsk, TypeOK
<1>3. late \in BOOLEAN /\ "create" \in Steps
  BY DEF Steps, Forgotten
<1>4. /\ request'[r].step = "create" /\ request'[r].params = params
      /\ request'[r].object = None /\ request'[r].late = late
      /\ Others(r)
  <2> HIDE DEF late
  <2> QED
    BY <1>1, <1>2, <1>3, ProceedsTo DEF MayAsk
<1>5. request[r].step = "idle"
  BY NoParamsAreTyped DEF LoadMissing, IsIdle
<1> QED
  BY <1>2, <1>4, <1>5 DEF LoadMissing, rows, world, memory

LEMMA CacheLoadedEffect ==
    ASSUME TypeOK, NEW r \in Requests, CacheLoaded(r)
    PROVE  /\ request[r].step = "cache" /\ request[r].object \in Objects
           /\ \/ entry' = request[r].object /\ cacheIsLate' = request[r].late
              \/ UNCHANGED <<entry, cacheIsLate>>
           /\ \/ /\ request'[r].step = "idle" /\ request'[r].params = NoParams
                 /\ request'[r].object = None
              \/ /\ request'[r].step = "update"
                 /\ request'[r].params = request[r].params
                 /\ request'[r].object = request[r].object
                 /\ request'[r].late = request[r].late
           /\ Others(r)
           /\ UNCHANGED <<phones, created, schedules, nullify, heap, edits,
                          tainted, faults>>
<1>1. /\ request[r].step = "cache" /\ request[r].object \in Objects
      /\ request[r].params \in Params /\ request[r].late \in BOOLEAN
  BY RequestTypes DEF CacheLoaded, Is
<1>2. CASE Reads(r)
  BY <1>1, <1>2, ProceedsToIdle
     DEF CacheLoaded, rows, world, history, Held, IsLate
<1>3. CASE ~Reads(r)
  <2>1. Proceed(r, Task("update", request[r].params, request[r].object,
                        request[r].late))
    BY <1>3 DEF CacheLoaded, Held, IsLate, ParamsOf
  <2>2. "update" \in Steps
    BY DEF Steps
  <2>3. /\ request'[r].step = "update" /\ request'[r].params = request[r].params
        /\ request'[r].object = request[r].object
        /\ request'[r].late = request[r].late
        /\ Others(r)
    BY <1>1, <2>1, <2>2, ProceedsTo
  <2> QED
    BY <1>1, <2>3 DEF CacheLoaded, rows, world, history, Held, IsLate
<1> QED
  BY <1>2, <1>3

LEMMA UpdateEffect ==
    ASSUME TypeOK, NEW r \in Requests, Update(r)
    PROVE  /\ request[r].step = "update" /\ request[r].object \in Objects
           /\ request[r].params \in Params
           /\ heap' = [heap EXCEPT ![request[r].object] =
                          Updated(heap[request[r].object], request[r].params)]
           /\ request'[r].step = "save" /\ request'[r].late = request[r].late
           /\ \A q \in Requests :
                 /\ q # r => request'[q].step = request[q].step
                 /\ request'[q].params = request[q].params
                 /\ request'[q].object = request[q].object
                 /\ request'[q].late =
                      (request[q].late \/ (/\ request[q].object = request[r].object
                                           /\ request[r].late))
           /\ cacheIsLate' = (cacheIsLate \/ (/\ entry = request[r].object
                                              /\ request[r].late))
           /\ UNCHANGED <<phones, created, schedules, nullify, entry, edits,
                          tainted, faults>>
<1>1. /\ request[r].step = "update" /\ request[r].object \in Objects
      /\ request[r].params \in Params /\ request[r].late \in BOOLEAN
  BY RequestTypes DEF Update, Is
<1>2. "save" \in Steps
  BY DEF Steps
<1>3. request'[r] = Task("save", request[r].params, request[r].object,
                         request[r].late)
  BY DEF Update, ParamsOf, Held, IsLate
<1>4. /\ request'[r].step = "save" /\ request'[r].params = request[r].params
      /\ request'[r].object = request[r].object
      /\ request'[r].late = request[r].late
  BY <1>1, <1>2, <1>3, TasksAreTyped
<1>5. ASSUME NEW q \in Requests \ {r}
      PROVE  /\ request'[q].step = request[q].step
             /\ request'[q].params = request[q].params
             /\ request'[q].object = request[q].object
             /\ request'[q].late =
                  (request[q].late \/ (/\ request[q].object = request[r].object
                                       /\ request[r].late))
  <2>1. request[q] \in Tasks
    BY TypeParts
  <2>2. CASE request[q].object = request[r].object /\ request[r].late
    <3>1. request'[q] = [request[q] EXCEPT !.late = TRUE]
      BY <2>2 DEF Update, Held, IsLate
    <3> QED
      BY <2>1, <2>2, <3>1 DEF Tasks
  <2>3. CASE ~(request[q].object = request[r].object /\ request[r].late)
    <3>1. request'[q] = request[q]
      BY <2>3 DEF Update, Held, IsLate
    <3>2. request[q].late \in BOOLEAN
      BY RequestTypes
    <3> QED
      BY <2>3, <3>1, <3>2
  <2> QED
    BY <2>2, <2>3
<1>6. ASSUME NEW q \in Requests
      PROVE  /\ q # r => request'[q].step = request[q].step
             /\ request'[q].params = request[q].params
             /\ request'[q].object = request[q].object
             /\ request'[q].late =
                  (request[q].late \/ (/\ request[q].object = request[r].object
                                       /\ request[r].late))
  BY <1>1, <1>4, <1>5
<1> QED
  BY <1>1, <1>4, <1>6
     DEF Update, Held, IsLate, ParamsOf, rows, world, history

\* Every write of the row: what it does to the rows is in Save and the others.
WriteOfRow(r) ==
    \/ Save(r) \/ CreatePhone(r) \/ Delete(r) \/ DeleteAllForUser(r)
    \/ NullifyScheduleID(r)

LEMMA WriteOfRowEffect ==
    ASSUME TypeOK, NEW r \in Requests, WriteOfRow(r)
    PROVE  /\ Wrote(r)
           /\ UNCHANGED <<heap, entry, cacheIsLate, edits, faults, schedules>>
BY DEF WriteOfRow, Save, CreatePhone, Delete, DeleteAllForUser,
       NullifyScheduleID, world, memory, history

LEMMA StopsEffect ==
    ASSUME TypeOK, NEW r \in Requests, SaveFails(r) \/ DropEntry(r)
    PROVE  /\ request[r].step = IF SaveFails(r) THEN "save" ELSE "drop"
           /\ request'[r].step = "idle" /\ request'[r].params = NoParams
           /\ request'[r].object = None /\ ~request'[r].late
           /\ Others(r)
           /\ \/ SaveFails(r) /\ Fault /\ UNCHANGED <<entry, cacheIsLate>>
              \/ DropEntry(r) /\ Emptied /\ UNCHANGED faults
           /\ UNCHANGED <<phones, created, schedules, nullify, heap, edits,
                          tainted>>
BY ProceedsToIdle DEF SaveFails, DropEntry, Is, rows, world, memory, history

----------------------------------------------------------------------------
(* Who shares an object. *)

Holding == {"cache", "update", "save"}

\* The object of a request that has still to fill the cache is its own.
SharingInv ==
    \A r \in Requests :
       /\ request[r].step \in Holding <=> Held(r) # None
       /\ request[r].step = "cache" =>
            /\ Held(r) # entry
            /\ \A q \in Requests \ {r} : Held(q) # Held(r)

LEMMA SharingStays ==
    ASSUME TypeOK, SharingInv, [Next]_vars
    PROVE  SharingInv'
<1>1. ASSUME NEW r \in Requests, LoadCached(r) PROVE SharingInv'
  BY <1>1, LoadCachedEffect DEF SharingInv, Holding, Held, Others
<1>2. ASSUME NEW r \in Requests, LoadRow(r) PROVE SharingInv'
  BY <1>2, LoadRowEffect DEF SharingInv, Holding, Held, Others, Free
<1>3. ASSUME NEW r \in Requests, LoadMissing(r) PROVE SharingInv'
  BY <1>3, LoadMissingEffect DEF SharingInv, Holding, Held, Others
<1>4. ASSUME NEW r \in Requests, CacheLoaded(r) PROVE SharingInv'
  BY <1>4, CacheLoadedEffect DEF SharingInv, Holding, Held, Others
<1>5. ASSUME NEW r \in Requests, Update(r) PROVE SharingInv'
  <2>1. /\ request[r].step = "update" /\ request'[r].step = "save"
        /\ entry' = entry
        /\ \A q \in Requests : /\ q # r => request'[q].step = request[q].step
                               /\ request'[q].object = request[q].object
    BY <1>5, UpdateEffect
  <2> QED
    BY <2>1 DEF SharingInv, Holding, Held
<1>6. ASSUME NEW r \in Requests, WriteOfRow(r) PROVE SharingInv'
  <2>1. /\ request'[r].step = "drop" /\ request'[r].object = None
        /\ entry' = entry
        /\ \A q \in Requests \ {r} : /\ request'[q].step = request[q].step
                                     /\ request'[q].object = request[q].object
    BY <1>6, WriteOfRowEffect, WroteTasks
  <2> QED
    BY <2>1 DEF SharingInv, Holding, Held
<1>7. ASSUME NEW r \in Requests, SaveFails(r) \/ DropEntry(r) PROVE SharingInv'
  <2>1. /\ request'[r].step = "idle" /\ request'[r].object = None
        /\ entry' \in {entry, None} /\ Others(r)
    BY <1>7, StopsEffect DEF Emptied
  <2> QED
    BY <2>1 DEF SharingInv, Holding, Held, Others
<1>8. CASE DeleteSchedule \/ Expire \/ UNCHANGED vars
  <2>1. UNCHANGED request /\ entry' \in {entry, None}
    BY <1>8 DEF DeleteSchedule, Expire, Emptied, vars, memory
  <2> QED
    BY <2>1 DEF SharingInv, Holding, Held
<1> QED
  BY <1>1, <1>2, <1>3, <1>4, <1>5, <1>6, <1>7, <1>8
     DEF Next, RequestNext, WriteOfRow

----------------------------------------------------------------------------
(* Edits are numbered in the order in which they are asked for. *)

EditsSoFar(phone) == phone.MessagesPerMinute <= edits

CountInv ==
    /\ \A p \in phones : EditsSoFar(p)
    /\ \A r \in Requests :
          /\ request[r].params.MessagesPerMinute <= edits
          /\ Held(r) # None => EditsSoFar(heap[Held(r)])
    /\ entry # None => EditsSoFar(heap[entry])

LEMMA CountStays ==
    ASSUME TypeOK, CountInv, [Next]_vars
    PROVE  CountInv'
<1>1. /\ edits \in Nat
      /\ \A p \in phones : p.MessagesPerMinute \in Nat
      /\ \A o \in Objects : heap[o].MessagesPerMinute \in Nat /\ heap[o] \in Phones
      /\ \A r \in Requests : /\ request[r].params.MessagesPerMinute \in Nat
                             /\ Held(r) \in Objects \cup {None}
      /\ heap \in [Objects -> Phones] /\ entry \in Objects \cup {None}
  BY TypeParts DEF Tasks, Phones, Params, Held
<1>2. Read.MessagesPerMinute = None /\ NoParams.MessagesPerMinute = None
  BY NoParamsAreTyped
<1>3. ASSUME NEW r \in Requests, LoadCached(r) PROVE CountInv'
  <2>1. /\ request'[r].params.MessagesPerMinute <= edits'
        /\ request'[r].object = entry /\ entry \in Objects
        /\ Others(r) /\ edits' = edits + 1 /\ UNCHANGED <<phones, heap, entry>>
    BY <1>1, <1>3, LoadCachedEffect DEF MayAsk, None
  <2> QED
    BY <1>1, <2>1 DEF CountInv, EditsSoFar, Held, Others
<1>4. ASSUME NEW r \in Requests, LoadRow(r) PROVE CountInv'
  <2>1. /\ request'[r].params.MessagesPerMinute <= edits'
        /\ request'[r].object = NewObject /\ NewObject \in Objects
        /\ entry' = None /\ Others(r) /\ edits' \in {edits, edits + 1}
        /\ Loaded \in phones /\ phones' = phones
        /\ heap' = [heap EXCEPT ![NewObject] = Loaded]
    BY <1>1, <1>2, <1>4, LoadRowEffect DEF MayAsk, None
  <2> QED
    BY <1>1, <2>1 DEF CountInv, EditsSoFar, Held, Others
<1>5. ASSUME NEW r \in Requests, LoadMissing(r) PROVE CountInv'
  <2>1. /\ request'[r].params.MessagesPerMinute <= edits'
        /\ request'[r].object = None
        /\ Others(r) /\ edits' = edits + 1 /\ UNCHANGED <<phones, heap, entry>>
    BY <1>1, <1>5, LoadMissingEffect DEF MayAsk, None
  <2> QED
    BY <1>1, <2>1 DEF CountInv, EditsSoFar, Held, Others
<1>6. ASSUME NEW r \in Requests, CacheLoaded(r) PROVE CountInv'
  <2>1. /\ request'[r].params \in {request[r].params, NoParams}
        /\ request'[r].object \in {request[r].object, None}
        /\ entry' \in {entry, request[r].object}
        /\ Others(r) /\ UNCHANGED <<phones, heap, edits>>
    BY <1>6, CacheLoadedEffect
  <2> QED
    BY <1>1, <1>2, <2>1 DEF CountInv, EditsSoFar, Held, Others, None
<1>7. ASSUME NEW r \in Requests, Update(r) PROVE CountInv'
  <2> DEFINE o == request[r].object
             changed == Updated(heap[o], request[r].params)
  <2>1. /\ o \in Objects /\ heap' = [heap EXCEPT ![o] = changed]
        /\ \A q \in Requests : /\ request'[q].params = request[q].params
                               /\ request'[q].object = request[q].object
        /\ UNCHANGED <<phones, entry, edits>>
    BY <1>7, UpdateEffect
  <2>2. EditsSoFar(heap[o])
    BY <2>1 DEF CountInv, Held
  <2>3. EditsSoFar(changed)
    BY <1>1, <1>7, <2>1, <2>2, UpdateEffect, UpdatedIsTyped
       DEF CountInv, EditsSoFar
  <2> HIDE DEF changed
  <2> QED
    BY <1>1, <2>1, <2>3 DEF CountInv, EditsSoFar, Held
<1>8. ASSUME NEW r \in Requests, WriteOfRow(r) PROVE CountInv'
  <2>1. /\ request'[r].params = NoParams /\ request'[r].object = None
        /\ UNCHANGED <<heap, entry, edits>>
        /\ \A q \in Requests \ {r} : /\ request'[q].params = request[q].params
                                     /\ request'[q].object = request[q].object
    BY <1>8, WriteOfRowEffect, WroteTasks
  <2>2. \A p \in phones' : p.MessagesPerMinute <= edits
    <3>1. CASE Save(r)
      <4>1. EditsSoFar(heap[Held(r)])
        BY <3>1, RequestTypes DEF Save, Is, CountInv, Held
      <4> QED
        BY <3>1, <4>1 DEF Save, CountInv, EditsSoFar
    <3>2. CASE CreatePhone(r)
      BY <1>1, <3>2 DEF CreatePhone, CountInv, EditsSoFar, None
    <3>3. CASE Delete(r) \/ DeleteAllForUser(r)
      BY <3>3 DEF Delete, DeleteAllForUser, CountInv, EditsSoFar
    <3>4. CASE NullifyScheduleID(r)
      BY <3>4, NullifiedRows DEF NullifyScheduleID, CountInv, EditsSoFar
    <3> QED
      BY <1>8, <3>1, <3>2, <3>3, <3>4 DEF WriteOfRow
  <2> QED
    BY <1>1, <1>2, <2>1, <2>2 DEF CountInv, EditsSoFar, Held, None
<1>9. ASSUME NEW r \in Requests, SaveFails(r) \/ DropEntry(r) PROVE CountInv'
  <2>1. /\ request'[r].params = NoParams /\ request'[r].object = None
        /\ entry' \in {entry, None} /\ Others(r)
        /\ UNCHANGED <<phones, heap, edits>>
    BY <1>9, StopsEffect DEF Emptied
  <2> QED
    BY <1>1, <1>2, <2>1 DEF CountInv, EditsSoFar, Held, Others, None
<1>10. CASE DeleteSchedule \/ Expire \/ UNCHANGED vars
  <2>1. /\ UNCHANGED <<request, phones, heap, edits>>
        /\ entry' \in {entry, None}
    BY <1>10 DEF DeleteSchedule, Expire, Emptied, vars, memory, rows, history
  <2> QED
    BY <2>1 DEF CountInv, EditsSoFar, Held
<1> QED
  BY <1>3, <1>4, <1>5, <1>6, <1>7, <1>8, <1>9, <1>10
     DEF Next, RequestNext, WriteOfRow

----------------------------------------------------------------------------
(* The rows and what is held of them. *)

\* What an object holds is as new as the row, or newer.
Fits(phone, table) ==
    \E p \in table : /\ table = {p}
                     /\ phone.id = p.id
                     /\ phone.MessagesPerMinute >= p.MessagesPerMinute

\* What is asked for is newer than every row.
Newer(params, table) ==
    params.op = "Upsert" =>
        \A p \in table : params.MessagesPerMinute > p.MessagesPerMinute

OneRow == \A p, q \in phones : p = q

Sound(r) ==
    ~request[r].late =>
       /\ request[r].step \in Holding => Fits(heap[request[r].object], phones)
       /\ request[r].step \in {"cache", "update"} => Newer(request[r].params, phones)
       /\ request[r].step = "create" => phones = {}

EntryFits ==
    entry # None /\ ~cacheIsLate /\ ~BeingWritten => Fits(heap[entry], phones)

RowInv == ~tainted => OneRow /\ (\A r \in Requests : Sound(r)) /\ EntryFits

\* What holds of the rows and of the objects held is kept where none of them
\* changes.
LEMMA SoundOthers ==
    ASSUME TypeOK, NEW r \in Requests, Others(r), UNCHANGED phones,
           \A q \in Requests : Sound(q), Sound(r)',
           \A q \in Requests \ {r} : request[q].step \in Holding =>
                                        heap'[request[q].object] = heap[request[q].object]
    PROVE  \A q \in Requests : Sound(q)'
<1> SUFFICES ASSUME NEW q \in Requests \ {r} PROVE Sound(q)'
  OBVIOUS
<1>1. request'[q] = request[q]
  BY DEF Others
<1> QED
  BY <1>1 DEF Sound

LEMMA BeingWrittenOthers ==
    ASSUME NEW r \in Requests, Others(r), request'[r].step # "drop",
           request[r].step # "drop"
    PROVE  BeingWritten' = BeingWritten
BY DEF BeingWritten, Others

LEMMA WrittenRows ==
    ASSUME TypeOK, RowInv, NEW r \in Requests, WriteOfRow(r), ~tainted'
    PROVE  /\ ~tainted /\ OneRow'
           /\ phones # {} /\ phones' # {} =>
                 \A p \in phones, n \in phones' :
                    n.MessagesPerMinute >= p.MessagesPerMinute
<1>1. \A p \in phones : p.MessagesPerMinute \in Nat
  BY TypeParts DEF Phones
<1>2. CASE Save(r)
  <2>1. request[r].step = "save" /\ ~request[r].late /\ ~tainted
    BY <1>2 DEF Save, Is, IsLate
  <2>2. PICK p \in phones :
            /\ phones = {p} /\ heap[Held(r)].id = p.id
            /\ heap[Held(r)].MessagesPerMinute >= p.MessagesPerMinute
    BY <2>1 DEF RowInv, Sound, Fits, Holding, Held
  <2>3. phones' = {heap[Held(r)]}
    BY <1>2, <2>2 DEF Save
  <2> QED
    BY <2>1, <2>2, <2>3 DEF OneRow
<1>3. CASE CreatePhone(r)
  <2>1. request[r].step = "create" /\ ~request[r].late /\ ~tainted
    BY <1>3 DEF CreatePhone, Is, IsLate
  <2>2. phones = {}
    BY <2>1 DEF RowInv, Sound
  <2>3. OneRow'
    BY <1>3, <2>2 DEF CreatePhone, OneRow
  <2> QED
    BY <2>1, <2>2, <2>3
<1>4. CASE Delete(r) \/ DeleteAllForUser(r)
  <2>1. phones' \subseteq phones /\ ~tainted /\ OneRow
    BY <1>4 DEF Delete, DeleteAllForUser, RowInv, history
  <2> QED
    BY <1>1, <2>1 DEF OneRow
<1>5. CASE NullifyScheduleID(r)
  <2>1. PICK s : phones' = Nullified(s)
    BY <1>5 DEF NullifyScheduleID
  <2>2. ~tainted /\ OneRow
    BY <1>5 DEF NullifyScheduleID, RowInv, history
  <2>3. \A n \in phones' : \E p \in phones :
           /\ n = IF p.MessageSendScheduleID = s
                  THEN [p EXCEPT !.MessageSendScheduleID = None] ELSE p
           /\ n.MessagesPerMinute = p.MessagesPerMinute
    BY <2>1, NullifiedRows
  <2> QED
    BY <1>1, <2>2, <2>3 DEF OneRow
<1> QED
  BY <1>2, <1>3, <1>4, <1>5 DEF WriteOfRow

\* A write makes everyone late who has read, and takes the entry away.
LEMMA WriteLeavesNothingHeld ==
    ASSUME TypeOK, NEW r \in Requests, WriteOfRow(r)
    PROVE  /\ BeingWritten'
           /\ \A q \in Requests : request'[q].step \in HasRead => request'[q].late
<1>1. Wrote(r)
  BY WriteOfRowEffect
<1> QED
  BY <1>1, WroteTasks DEF BeingWritten, HasRead

LEMMA RowStays ==
    ASSUME TypeOK, SharingInv, CountInv, RowInv, [Next]_vars
    PROVE  RowInv'
<1> SUFFICES ASSUME ~tainted' PROVE (OneRow /\ (\A r \in Requests : Sound(r)) /\ EntryFits)'
  BY DEF RowInv
<1>1. /\ edits \in Nat
      /\ \A p \in phones : p.MessagesPerMinute \in Nat /\ p.MessagesPerMinute <= edits
      /\ \A o \in Objects : heap[o].MessagesPerMinute \in Nat /\ heap[o] \in Phones
      /\ heap \in [Objects -> Phones]
  BY TypeParts DEF Phones, CountInv, EditsSoFar
<1>2. ASSUME NEW params, MayAsk(params) PROVE Newer(params, phones)
  BY <1>1, <1>2 DEF MayAsk, Newer
<1>3. ASSUME ~tainted
      PROVE  OneRow /\ (\A r \in Requests : Sound(r)) /\ EntryFits
  BY <1>3 DEF RowInv
<1>4. ASSUME NEW r \in Requests, LoadCached(r)
      PROVE  (OneRow /\ (\A q \in Requests : Sound(q)) /\ EntryFits)'
  <2>1. /\ ~tainted /\ UNCHANGED <<phones, heap, entry, cacheIsLate>> /\ Others(r)
        /\ request[r].step = "idle" /\ request'[r].step = "update"
        /\ request'[r].object = entry /\ MayAsk(request'[r].params)
        /\ ~request'[r].late => ~cacheIsLate /\ ~BeingWritten
        /\ entry # None
    BY <1>4, LoadCachedEffect
  <2>2. BeingWritten' = BeingWritten
    BY <2>1, BeingWrittenOthers
  <2>3. Newer(request'[r].params, phones)
    BY <1>2, <2>1
  <2>4. ~request'[r].late => Fits(heap[entry], phones)
    BY <1>3, <2>1 DEF EntryFits
  <2>5. Sound(r)'
    BY <2>1, <2>3, <2>4 DEF Sound
  <2>6. \A q \in Requests : Sound(q)'
    BY <1>3, <2>1, <2>5, SoundOthers
  <2> QED
    BY <1>3, <2>1, <2>2, <2>6 DEF OneRow, EntryFits
<1>5. ASSUME NEW r \in Requests, LoadRow(r)
      PROVE  (OneRow /\ (\A q \in Requests : Sound(q)) /\ EntryFits)'
  <2>1. /\ ~tainted /\ UNCHANGED phones /\ entry' = None /\ Others(r)
        /\ request'[r].step = "cache" /\ request'[r].object = NewObject
        /\ NewObject \in Objects /\ Free(NewObject) /\ Loaded \in phones
        /\ heap' = [heap EXCEPT ![NewObject] = Loaded]
        /\ MayAsk(request'[r].params) \/ request'[r].params = Read
    BY <1>5, LoadRowEffect
  <2>2. Newer(request'[r].params, phones)
    BY <1>2, <2>1, NoParamsAreTyped DEF Newer
  <2>3. OneRow /\ phones = {Loaded} /\ heap'[NewObject] = Loaded
    BY <1>1, <1>3, <2>1 DEF OneRow
  <2>4. Fits(heap'[NewObject], phones)
    BY <1>1, <2>1, <2>3 DEF Fits
  <2>5. Sound(r)'
    BY <2>1, <2>2, <2>4 DEF Sound, Holding
  <2>6. ASSUME NEW q \in Requests \ {r}, request[q].step \in Holding
        PROVE  heap'[request[q].object] = heap[request[q].object]
    BY <2>1, <1>1, <2>6, RequestTypes DEF Free, Held, Holding
  <2>7. \A q \in Requests : Sound(q)'
    BY <1>3, <2>1, <2>5, <2>6, SoundOthers
  <2> QED
    BY <2>1, <2>3, <2>7 DEF OneRow, EntryFits
<1>6. ASSUME NEW r \in Requests, LoadMissing(r)
      PROVE  (OneRow /\ (\A q \in Requests : Sound(q)) /\ EntryFits)'
  <2>1. /\ ~tainted /\ UNCHANGED <<phones, heap, entry, cacheIsLate>> /\ Others(r)
        /\ request[r].step = "idle" /\ request'[r].step = "create"
        /\ phones = {} /\ entry = None
    BY <1>6, LoadMissingEffect
  <2>2. Sound(r)'
    BY <2>1 DEF Sound, Holding
  <2>3. \A q \in Requests : Sound(q)'
    BY <1>3, <2>1, <2>2, SoundOthers
  <2> QED
    BY <2>1, <2>3 DEF OneRow, EntryFits
<1>7. ASSUME NEW r \in Requests, CacheLoaded(r)
      PROVE  (OneRow /\ (\A q \in Requests : Sound(q)) /\ EntryFits)'
  <2>1. /\ ~tainted /\ UNCHANGED <<phones, heap>> /\ Others(r)
        /\ request[r].step = "cache"
        /\ \/ entry' = request[r].object /\ cacheIsLate' = request[r].late
           \/ UNCHANGED <<entry, cacheIsLate>>
        /\ \/ request'[r].step = "idle"
           \/ /\ request'[r].step = "update"
              /\ request'[r].params = request[r].params
              /\ request'[r].object = request[r].object
              /\ request'[r].late = request[r].late
    BY <1>7, CacheLoadedEffect
  <2>2. BeingWritten' = BeingWritten
    BY <2>1, BeingWrittenOthers
  <2>3. Sound(r)
    BY <1>3, <2>1
  <2>4. Sound(r)'
    BY <2>1, <2>3 DEF Sound, Holding
  <2>5. \A q \in Requests : Sound(q)'
    BY <1>3, <2>1, <2>4, SoundOthers
  <2>6. EntryFits'
    BY <1>3, <2>1, <2>2, <2>3 DEF EntryFits, Sound, Holding
  <2> QED
    BY <1>3, <2>1, <2>5, <2>6 DEF OneRow
<1>8. ASSUME NEW r \in Requests, Update(r)
      PROVE  (OneRow /\ (\A q \in Requests : Sound(q)) /\ EntryFits)'
  <2> DEFINE o == request[r].object
             changed == Updated(heap[o], request[r].params)
  <2>1. /\ ~tainted /\ UNCHANGED <<phones, entry>>
        /\ o \in Objects /\ request[r].params \in Params
        /\ request[r].step = "update"
        /\ heap' = [heap EXCEPT ![o] = changed]
        /\ request'[r].step = "save"
        /\ \A q \in Requests :
              /\ q # r => request'[q].step = request[q].step
              /\ request'[q].params = request[q].params
              /\ request'[q].object = request[q].object
              /\ request'[q].late = (request[q].late \/ (/\ request[q].object = o
                                                         /\ request[r].late))
        /\ cacheIsLate' = (cacheIsLate \/ (entry = o /\ request[r].late))
    BY <1>8, UpdateEffect
  <2>2. BeingWritten' = BeingWritten
    BY <2>1 DEF BeingWritten
  <2>3. ASSUME ~request[r].late PROVE Fits(heap'[o], phones)
    <3>1. Fits(heap[o], phones) /\ Newer(request[r].params, phones)
      BY <1>3, <2>1, <2>3 DEF Sound, Holding
    <3>2. /\ changed.id = heap[o].id
          /\ changed.MessagesPerMinute =
               IF request[r].params.op = "Upsert"
               THEN request[r].params.MessagesPerMinute
               ELSE heap[o].MessagesPerMinute
      BY <1>1, <2>1, UpdatedIsTyped
    <3>3. request[r].params.MessagesPerMinute \in Nat
      BY <2>1 DEF Params
    <3>4. heap'[o] = changed
      BY <1>1, <2>1
    <3> HIDE DEF changed, o
    <3> QED
      BY <1>1, <2>1, <3>1, <3>2, <3>3, <3>4 DEF Fits, Newer
  <2>4. ASSUME NEW u \in Objects, u # o PROVE heap'[u] = heap[u]
    BY <1>1, <2>1, <2>4
  <2> HIDE DEF changed
  <2>5. ASSUME NEW q \in Requests PROVE Sound(q)'
    <3> SUFFICES ASSUME ~request'[q].late PROVE Sound(q)'
      BY DEF Sound
    <3>1. ~request[q].late /\ (request[q].object = o => ~request[r].late)
      BY <2>1
    <3>2. Sound(q) /\ Sound(r)
      BY <1>3, <2>1
    <3>3. CASE request[q].object = o
      BY <2>1, <2>3, <3>1, <3>2, <3>3 DEF Sound, Holding
    <3>4. CASE request[q].object # o
      <4>1. request[q].step \in Holding =>
               heap'[request[q].object] = heap[request[q].object]
        BY <2>4, <3>4, RequestTypes DEF Holding
      <4>2. q # r
        BY <3>4
      <4> QED
        BY <2>1, <3>1, <3>2, <4>1, <4>2 DEF Sound
    <3> QED
      BY <3>3, <3>4
  <2>6. EntryFits'
    <3>1. entry \in Objects \cup {None}
      BY TypeParts
    <3>2. CASE entry = o
      BY <2>1, <2>2, <2>3, <3>2 DEF EntryFits
    <3>3. CASE entry # o
      BY <1>3, <2>1, <2>2, <2>4, <3>1, <3>3 DEF EntryFits
    <3> QED
      BY <3>2, <3>3
  <2> QED
    BY <1>3, <2>1, <2>5, <2>6 DEF OneRow
<1>9. ASSUME NEW r \in Requests, WriteOfRow(r)
      PROVE  (OneRow /\ (\A q \in Requests : Sound(q)) /\ EntryFits)'
  <2>1. OneRow'
    BY <1>9, WrittenRows
  <2>2. /\ BeingWritten'
        /\ \A q \in Requests : request'[q].step \in HasRead => request'[q].late
    BY <1>9, WriteLeavesNothingHeld
  <2> QED
    BY <2>1, <2>2 DEF Sound, EntryFits, HasRead, Holding
<1>10. ASSUME NEW r \in Requests, SaveFails(r) \/ DropEntry(r)
       PROVE  (OneRow /\ (\A q \in Requests : Sound(q)) /\ EntryFits)'
  <2>1. /\ ~tainted /\ UNCHANGED <<phones, heap>> /\ Others(r)
        /\ request'[r].step = "idle"
        /\ \/ request[r].step = "save" /\ UNCHANGED <<entry, cacheIsLate>>
           \/ entry' = None
    BY <1>10, StopsEffect DEF Emptied, SaveFails, Is
  <2>2. Sound(r)'
    BY <2>1 DEF Sound, Holding
  <2>3. \A q \in Requests : Sound(q)'
    BY <1>3, <2>1, <2>2, SoundOthers
  <2>4. EntryFits'
    BY <1>3, <2>1, BeingWrittenOthers DEF EntryFits
  <2> QED
    BY <1>3, <2>1, <2>3, <2>4 DEF OneRow
<1>11. CASE DeleteSchedule \/ Expire \/ UNCHANGED vars
  <2>1. /\ UNCHANGED <<request, phones, heap, tainted>>
        /\ UNCHANGED <<entry, cacheIsLate>> \/ entry' = None
    BY <1>11 DEF DeleteSchedule, Expire, Emptied, vars, memory, rows, history
  <2>2. BeingWritten' = BeingWritten
    BY <2>1 DEF BeingWritten
  <2> QED
    BY <1>3, <2>1, <2>2 DEF OneRow, Sound, EntryFits
<1> QED
  BY <1>4, <1>5, <1>6, <1>7, <1>8, <1>9, <1>10, <1>11
     DEF Next, RequestNext, WriteOfRow

----------------------------------------------------------------------------
(* The schedules that the rows and the requests name. *)

\* The schedules that a phone may name: those there are, and those whose event
\* is still to take them from the phones.
Standing == schedules \cup nullify \cup {None}

Names(r) ==
    ~request[r].late =>
       /\ request[r].step \in Holding =>
             heap[request[r].object].MessageSendScheduleID \in Standing
       /\ request[r].step \in {"cache", "update", "create"} =>
             request[r].params.MessageSendScheduleID \in Standing

EntryNames ==
    entry # None /\ ~cacheIsLate /\ ~BeingWritten =>
        heap[entry].MessageSendScheduleID \in Standing

RowsName == \A p \in phones : p.MessageSendScheduleID \in Standing

ScheduleInv ==
    ~tainted /\ faults = 0 =>
        RowsName /\ (\A r \in Requests : Names(r)) /\ EntryNames

LEMMA NamesOthers ==
    ASSUME NEW r \in Requests, Others(r), UNCHANGED <<schedules, nullify>>,
           \A q \in Requests : Names(q), Names(r)',
           \A q \in Requests \ {r} : request[q].step \in Holding =>
                                        heap'[request[q].object] = heap[request[q].object]
    PROVE  \A q \in Requests : Names(q)'
<1> SUFFICES ASSUME NEW q \in Requests \ {r} PROVE Names(q)'
  OBVIOUS
<1>1. request'[q] = request[q]
  BY DEF Others
<1> QED
  BY <1>1 DEF Names, Standing

LEMMA ScheduleStays ==
    ASSUME TypeOK, SharingInv, ScheduleInv, [Next]_vars
    PROVE  ScheduleInv'
<1> SUFFICES ASSUME ~tainted', faults' = 0
             PROVE  (RowsName /\ (\A r \in Requests : Names(r)) /\ EntryNames)'
  BY DEF ScheduleInv
<1>1. /\ heap \in [Objects -> Phones] /\ entry \in Objects \cup {None}
      /\ faults \in Nat
  BY TypeParts
<1>2. /\ NoParams.MessageSendScheduleID \in Standing
      /\ Read.MessageSendScheduleID \in Standing
  BY NoParamsAreTyped DEF Standing
<1>3. ASSUME ~tainted, faults = 0
      PROVE  RowsName /\ (\A r \in Requests : Names(r)) /\ EntryNames
  BY <1>3 DEF ScheduleInv
<1>4. ASSUME NEW params, ~Forgotten(params)
      PROVE  params.MessageSendScheduleID \in Standing
  BY <1>4 DEF Forgotten, Standing
<1>5. ASSUME NEW r \in Requests, LoadCached(r)
      PROVE  (RowsName /\ (\A q \in Requests : Names(q)) /\ EntryNames)'
  <2>1. /\ ~tainted /\ faults = 0 /\ Others(r)
        /\ UNCHANGED <<phones, heap, entry, cacheIsLate, schedules, nullify>>
        /\ request[r].step = "idle" /\ request'[r].step = "update"
        /\ request'[r].object = entry /\ entry # None
        /\ ~request'[r].late =>
              ~cacheIsLate /\ ~BeingWritten /\ ~Forgotten(request'[r].params)
    BY <1>5, LoadCachedEffect
  <2>2. BeingWritten' = BeingWritten
    BY <2>1, BeingWrittenOthers
  <2>3. Standing' = Standing
    BY <2>1 DEF Standing
  <2>4. ~request'[r].late => request'[r].params.MessageSendScheduleID \in Standing
    BY <1>4, <2>1
  <2>5. Names(r)'
    BY <1>3, <2>1, <2>3, <2>4 DEF Names, EntryNames
  <2>6. \A q \in Requests : Names(q)'
    BY <1>3, <2>1, <2>5, NamesOthers
  <2> QED
    BY <1>3, <2>1, <2>2, <2>3, <2>6 DEF RowsName, EntryNames
<1>6. ASSUME NEW r \in Requests, LoadRow(r)
      PROVE  (RowsName /\ (\A q \in Requests : Names(q)) /\ EntryNames)'
  <2>1. /\ ~tainted /\ faults = 0 /\ Others(r) /\ entry' = None
        /\ UNCHANGED <<phones, schedules, nullify>>
        /\ request'[r].step = "cache" /\ request'[r].object = NewObject
        /\ NewObject \in Objects /\ Free(NewObject) /\ Loaded \in phones
        /\ heap' = [heap EXCEPT ![NewObject] = Loaded]
        /\ request'[r].late = Forgotten(request'[r].params)
    BY <1>6, LoadRowEffect
  <2>2. Standing' = Standing
    BY <2>1 DEF Standing
  <2>3. ~request'[r].late => request'[r].params.MessageSendScheduleID \in Standing
    BY <1>4, <2>1
  <2>4. heap'[NewObject].MessageSendScheduleID \in Standing
    BY <1>1, <1>3, <2>1 DEF RowsName
  <2>5. Names(r)'
    BY <2>1, <2>2, <2>3, <2>4 DEF Names
  <2>6. ASSUME NEW q \in Requests \ {r}, request[q].step \in Holding
        PROVE  heap'[request[q].object] = heap[request[q].object]
    BY <2>1, <1>1, <2>6, RequestTypes DEF Free, Held, Holding
  <2>7. \A q \in Requests : Names(q)'
    BY <1>3, <2>1, <2>5, <2>6, NamesOthers
  <2> QED
    BY <1>3, <2>1, <2>2, <2>7 DEF RowsName, EntryNames
<1>7. ASSUME NEW r \in Requests, LoadMissing(r)
      PROVE  (RowsName /\ (\A q \in Requests : Names(q)) /\ EntryNames)'
  <2>1. /\ ~tainted /\ faults = 0 /\ Others(r) /\ entry' = None
        /\ UNCHANGED <<phones, heap, schedules, nullify>>
        /\ request'[r].step = "create"
        /\ request'[r].late = Forgotten(request'[r].params)
    BY <1>7, LoadMissingEffect
  <2>2. Standing' = Standing
    BY <2>1 DEF Standing
  <2>3. Names(r)'
    BY <1>4, <2>1, <2>2 DEF Names, Holding
  <2>4. \A q \in Requests : Names(q)'
    BY <1>3, <2>1, <2>3, NamesOthers
  <2> QED
    BY <1>3, <2>1, <2>2, <2>4 DEF RowsName, EntryNames
<1>8. ASSUME NEW r \in Requests, CacheLoaded(r)
      PROVE  (RowsName /\ (\A q \in Requests : Names(q)) /\ EntryNames)'
  <2>1. /\ ~tainted /\ faults = 0 /\ Others(r)
        /\ UNCHANGED <<phones, heap, schedules, nullify>>
        /\ request[r].step = "cache"
        /\ \/ entry' = request[r].object /\ cacheIsLate' = request[r].late
           \/ UNCHANGED <<entry, cacheIsLate>>
        /\ \/ request'[r].step = "idle"
           \/ /\ request'[r].step = "update"
              /\ request'[r].params = request[r].params
              /\ request'[r].object = request[r].object
              /\ request'[r].late = request[r].late
    BY <1>8, CacheLoadedEffect
  <2>2. BeingWritten' = BeingWritten
    BY <2>1, BeingWrittenOthers
  <2>3. Standing' = Standing
    BY <2>1 DEF Standing
  <2>4. Names(r)
    BY <1>3, <2>1
  <2>5. Names(r)'
    BY <2>1, <2>3, <2>4 DEF Names, Holding
  <2>6. \A q \in Requests : Names(q)'
    BY <1>3, <2>1, <2>5, NamesOthers
  <2>7. EntryNames'
    BY <1>3, <2>1, <2>2, <2>3, <2>4 DEF EntryNames, Names, Holding
  <2> QED
    BY <1>3, <2>1, <2>3, <2>6, <2>7 DEF RowsName
<1>9. ASSUME NEW r \in Requests, Update(r)
      PROVE  (RowsName /\ (\A q \in Requests : Names(q)) /\ EntryNames)'
  <2> DEFINE o == request[r].object
             changed == Updated(heap[o], request[r].params)
  <2>1. /\ ~tainted /\ faults = 0
        /\ UNCHANGED <<phones, entry, schedules, nullify>>
        /\ o \in Objects /\ request[r].params \in Params
        /\ request[r].step = "update"
        /\ heap' = [heap EXCEPT ![o] = changed]
        /\ request'[r].step = "save"
        /\ \A q \in Requests :
              /\ q # r => request'[q].step = request[q].step
              /\ request'[q].params = request[q].params
              /\ request'[q].object = request[q].object
              /\ request'[q].late = (request[q].late \/ (/\ request[q].object = o
                                                         /\ request[r].late))
        /\ cacheIsLate' = (cacheIsLate \/ (entry = o /\ request[r].late))
    BY <1>9, UpdateEffect
  <2>2. BeingWritten' = BeingWritten
    BY <2>1 DEF BeingWritten
  <2>3. Standing' = Standing
    BY <2>1 DEF Standing
  <2>4. ASSUME ~request[r].late
        PROVE  heap'[o].MessageSendScheduleID \in Standing
    <3>1. /\ heap[o].MessageSendScheduleID \in Standing
          /\ request[r].params.MessageSendScheduleID \in Standing
      BY <1>3, <2>1, <2>4 DEF Names, Holding
    <3>2. changed.MessageSendScheduleID \in
             {request[r].params.MessageSendScheduleID,
              heap[o].MessageSendScheduleID}
      BY <1>1, <2>1, UpdatedIsTyped
    <3>3. heap'[o] = changed
      BY <1>1, <2>1
    <3> HIDE DEF changed
    <3> QED
      BY <3>1, <3>2, <3>3
  <2>5. ASSUME NEW u \in Objects, u # o PROVE heap'[u] = heap[u]
    BY <1>1, <2>1, <2>5
  <2> HIDE DEF changed
  <2>6. ASSUME NEW q \in Requests PROVE Names(q)'
    <3> SUFFICES ASSUME ~request'[q].late PROVE Names(q)'
      BY DEF Names
    <3>1. ~request[q].late /\ (request[q].object = o => ~request[r].late)
      BY <2>1
    <3>2. Names(q) /\ Names(r)
      BY <1>3, <2>1
    <3>3. CASE request[q].object = o
      BY <2>1, <2>3, <2>4, <3>1, <3>2, <3>3 DEF Names, Holding
    <3>4. CASE request[q].object # o
      <4>1. request[q].step \in Holding =>
               heap'[request[q].object] = heap[request[q].object]
        BY <2>5, <3>4, RequestTypes DEF Holding
      <4>2. q # r
        BY <3>4
      <4> QED
        BY <2>1, <2>3, <3>1, <3>2, <4>1, <4>2 DEF Names
    <3> QED
      BY <3>3, <3>4
  <2>7. EntryNames'
    <3>1. CASE entry = o
      <4>1. ~cacheIsLate' => ~request[r].late
        BY <2>1, <3>1
      <4>2. entry' = o
        BY <2>1, <3>1
      <4> HIDE DEF o
      <4> QED
        BY <2>3, <2>4, <4>1, <4>2 DEF EntryNames
    <3>2. CASE entry # o
      BY <1>1, <1>3, <2>1, <2>2, <2>3, <2>5, <3>2 DEF EntryNames
    <3> QED
      BY <3>1, <3>2
  <2> QED
    BY <1>3, <2>1, <2>3, <2>6, <2>7 DEF RowsName
<1>10. ASSUME NEW r \in Requests, WriteOfRow(r)
       PROVE  (RowsName /\ (\A q \in Requests : Names(q)) /\ EntryNames)'
  <2>1. /\ BeingWritten'
        /\ \A q \in Requests : request'[q].step \in HasRead => request'[q].late
    BY <1>10, WriteLeavesNothingHeld
  <2>2. faults = 0 /\ schedules' = schedules
    BY <1>10, WriteOfRowEffect
  <2>3. RowsName'
    <3>1. CASE Save(r)
      <4>1. ~tainted /\ ~request[r].late /\ request[r].step = "save"
        BY <3>1 DEF Save, Is, IsLate
      <4>2. heap[Held(r)].MessageSendScheduleID \in Standing
        BY <1>3, <2>2, <4>1 DEF Names, Holding, Held
      <4>3. Standing' = Standing
        BY <3>1 DEF Save, Standing, world
      <4> QED
        BY <1>3, <2>2, <3>1, <4>1, <4>2, <4>3 DEF Save, RowsName
    <3>2. CASE CreatePhone(r)
      <4>1. ~tainted /\ ~request[r].late /\ request[r].step = "create"
        BY <3>2 DEF CreatePhone, Is, IsLate
      <4>2. ParamsOf(r).MessageSendScheduleID \in Standing
        BY <1>3, <2>2, <4>1 DEF Names, ParamsOf
      <4>3. Standing' = Standing
        BY <3>2 DEF CreatePhone, Standing, world
      <4> QED
        BY <1>3, <2>2, <3>2, <4>1, <4>2, <4>3 DEF CreatePhone, RowsName
    <3>3. CASE Delete(r) \/ DeleteAllForUser(r)
      <4>1. ~tainted /\ phones' \subseteq phones /\ Standing' = Standing
        BY <3>3 DEF Delete, DeleteAllForUser, Standing, world, history
      <4> QED
        BY <1>3, <2>2, <4>1 DEF RowsName
    <3>4. CASE NullifyScheduleID(r)
      <4>1. PICK s : nullify' = nullify \ {s} /\ phones' = Nullified(s)
        BY <3>4 DEF NullifyScheduleID
      <4>2. ~tainted
        BY <3>4 DEF NullifyScheduleID, history
      <4>3. Standing \ {s} \subseteq Standing' /\ None \in Standing'
        BY <2>2, <4>1 DEF Standing
      <4>4. \A n \in phones' : \E p \in phones :
               /\ n.MessageSendScheduleID # s \/ s = None
               /\ n.MessageSendScheduleID \in {p.MessageSendScheduleID, None}
        BY <4>1, NullifiedRows
      <4> QED
        BY <1>3, <2>2, <4>2, <4>3, <4>4 DEF RowsName
    <3> QED
      BY <1>10, <3>1, <3>2, <3>3, <3>4 DEF WriteOfRow
  <2> QED
    BY <2>1, <2>3 DEF Names, EntryNames, HasRead, Holding
<1>11. ASSUME NEW r \in Requests, SaveFails(r) \/ DropEntry(r)
       PROVE  (RowsName /\ (\A q \in Requests : Names(q)) /\ EntryNames)'
  <2>1. ~Fault
    BY <1>1 DEF Fault
  <2>2. /\ ~tainted /\ faults = 0 /\ entry' = None /\ Others(r)
        /\ request'[r].step = "idle"
        /\ UNCHANGED <<phones, heap, schedules, nullify>>
    BY <1>11, <2>1, StopsEffect DEF Emptied
  <2>3. Names(r)'
    BY <2>2 DEF Names, Holding
  <2>4. \A q \in Requests : Names(q)'
    BY <1>3, <2>2, <2>3, NamesOthers
  <2> QED
    BY <1>3, <2>2, <2>4 DEF RowsName, EntryNames, Standing
<1>12. CASE DeleteSchedule \/ Expire \/ UNCHANGED vars
  <2>1. /\ UNCHANGED <<request, phones, heap, tainted>>
        /\ UNCHANGED <<entry, cacheIsLate>> \/ entry' = None
    BY <1>12 DEF DeleteSchedule, Expire, Emptied, vars, memory, rows, history
  <2>2. faults = 0 /\ Standing' = Standing
    <3>1. ~Fault
      BY <1>1 DEF Fault
    <3>2. CASE DeleteSchedule
      BY <3>1, <3>2 DEF DeleteSchedule, Standing
    <3>3. CASE Expire \/ UNCHANGED vars
      BY <3>3 DEF Expire, vars, world, history, Standing
    <3> QED
      BY <1>12, <3>2, <3>3
  <2>3. BeingWritten' = BeingWritten
    BY <2>1 DEF BeingWritten
  <2> QED
    BY <1>3, <2>1, <2>2, <2>3 DEF RowsName, Names, EntryNames
<1> QED
  BY <1>5, <1>6, <1>7, <1>8, <1>9, <1>10, <1>11, <1>12
     DEF Next, RequestNext, WriteOfRow

----------------------------------------------------------------------------
(* The entry of the cache. *)

\* The object in the cache is changed and not saved yet.
Unsaved == \E r \in Requests : request[r].step = "save" /\ request[r].object = entry

\* What will be put into the cache is the row, and so is what is in it, unless
\* it was changed for a save.
EntryInv ==
    /\ \A r \in Requests : request[r].step = "cache" /\ ~request[r].late =>
          phones # {} /\ heap[request[r].object] = Loaded
    /\ entry # None /\ ~cacheIsLate /\ ~BeingWritten /\ faults = 0
          /\ ~Unsaved => phones # {} /\ heap[entry] = Loaded

LEMMA EntryStays ==
    ASSUME TypeOK, SharingInv, EntryInv, [Next]_vars
    PROVE  EntryInv'
<1>1. /\ heap \in [Objects -> Phones] /\ entry \in Objects \cup {None}
      /\ faults \in Nat
  BY TypeParts
<1>2. phones' = phones => Loaded' = Loaded
  BY DEF Loaded
<1>3. ASSUME NEW r \in Requests, LoadCached(r) PROVE EntryInv'
  <2>1. /\ Others(r) /\ UNCHANGED <<phones, heap, entry, cacheIsLate, faults>>
        /\ request[r].step = "idle" /\ request'[r].step = "update"
    BY <1>3, LoadCachedEffect
  <2>2. BeingWritten' = BeingWritten
    BY <2>1, BeingWrittenOthers
  <2> QED
    BY <1>2, <2>1, <2>2 DEF EntryInv, Unsaved, Others
<1>4. ASSUME NEW r \in Requests, LoadRow(r) PROVE EntryInv'
  <2>1. /\ Others(r) /\ entry' = None /\ UNCHANGED phones
        /\ request'[r].object = NewObject
        /\ NewObject \in Objects /\ Free(NewObject) /\ Loaded \in phones
        /\ heap' = [heap EXCEPT ![NewObject] = Loaded]
    BY <1>4, LoadRowEffect
  <2>2. ASSUME NEW q \in Requests \ {r}, request[q].step = "cache"
        PROVE  heap'[request[q].object] = heap[request[q].object]
    BY <1>1, <2>1, <2>2, RequestTypes DEF Free, Held
  <2>3. heap'[NewObject] = Loaded
    BY <1>1, <2>1
  <2> QED
    BY <1>2, <2>1, <2>2, <2>3 DEF EntryInv, Others
<1>5. ASSUME NEW r \in Requests, LoadMissing(r) PROVE EntryInv'
  <2>1. /\ Others(r) /\ entry' = None /\ UNCHANGED <<phones, heap>>
        /\ request'[r].step = "create"
    BY <1>5, LoadMissingEffect
  <2> QED
    BY <1>2, <2>1 DEF EntryInv, Others
<1>6. ASSUME NEW r \in Requests, CacheLoaded(r) PROVE EntryInv'
  <2>1. /\ Others(r) /\ UNCHANGED <<phones, heap, faults>>
        /\ request[r].step = "cache" /\ request'[r].step \in {"idle", "update"}
        /\ \/ entry' = request[r].object /\ cacheIsLate' = request[r].late
           \/ UNCHANGED <<entry, cacheIsLate>>
    BY <1>6, CacheLoadedEffect
  <2>2. BeingWritten' = BeingWritten
    BY <2>1, BeingWrittenOthers
  <2>3. CASE entry' = request[r].object /\ cacheIsLate' = request[r].late
    BY <1>2, <2>1, <2>3 DEF EntryInv, Others
  <2>4. CASE UNCHANGED <<entry, cacheIsLate>>
    BY <1>2, <2>1, <2>2, <2>4 DEF EntryInv, Unsaved, Others
  <2> QED
    BY <2>1, <2>3, <2>4
<1>7. ASSUME NEW r \in Requests, Update(r) PROVE EntryInv'
  <2> DEFINE o == request[r].object
             changed == Updated(heap[o], request[r].params)
  <2>1. /\ UNCHANGED <<phones, entry, faults>>
        /\ o \in Objects /\ request[r].step = "update"
        /\ heap' = [heap EXCEPT ![o] = changed]
        /\ request'[r].step = "save"
        /\ \A q \in Requests :
              /\ q # r => request'[q].step = request[q].step
              /\ request'[q].object = request[q].object
              /\ request[q].late => request'[q].late
        /\ cacheIsLate => cacheIsLate'
    BY <1>7, UpdateEffect
  <2>2. BeingWritten' = BeingWritten
    BY <2>1 DEF BeingWritten
  <2> HIDE DEF changed
  <2>3. ASSUME NEW u \in Objects, u # o PROVE heap'[u] = heap[u]
    BY <1>1, <2>1, <2>3
  <2>4. ASSUME NEW q \in Requests, request'[q].step = "cache", ~request'[q].late
        PROVE  phones' # {} /\ heap'[request'[q].object] = Loaded'
    <3>1. /\ q # r /\ request[q].step = "cache" /\ ~request[q].late
          /\ request'[q].object = request[q].object
      BY <2>1, <2>4
    <3>2. request[q].object # o /\ request[q].object \in Objects
      BY <3>1, RequestTypes DEF SharingInv, Held
    <3>3. heap'[request'[q].object] = heap[request[q].object]
      BY <2>3, <3>1, <3>2
    <3>4. phones # {} /\ heap[request[q].object] = Loaded
      BY <3>1 DEF EntryInv
    <3> QED
      BY <1>2, <2>1, <3>3, <3>4 DEF EntryInv
  <2>5. ASSUME entry' # None, ~cacheIsLate', ~BeingWritten', faults' = 0,
               ~Unsaved'
        PROVE  phones' # {} /\ heap'[entry'] = Loaded'
    <3>1. entry # o
      BY <2>1, <2>5 DEF Unsaved
    <3>2. ~Unsaved
      <4>1. \A q \in Requests : request[q].step = "save" => request'[q].step = "save"
        BY <2>1
      <4> QED
        BY <2>1, <2>5, <4>1 DEF Unsaved
    <3>3. phones # {} /\ heap[entry] = Loaded
      BY <2>1, <2>2, <2>5, <3>2 DEF EntryInv
    <3>4. heap'[entry] = heap[entry]
      BY <1>1, <2>1, <2>3, <2>5, <3>1
    <3> QED
      BY <1>2, <2>1, <3>3, <3>4 DEF EntryInv
  <2> QED
    BY <2>4, <2>5 DEF EntryInv
<1>8. ASSUME NEW r \in Requests, WriteOfRow(r) PROVE EntryInv'
  BY <1>8, WriteLeavesNothingHeld DEF EntryInv, HasRead
<1>9. ASSUME NEW r \in Requests, SaveFails(r) \/ DropEntry(r) PROVE EntryInv'
  <2>1. /\ request'[r].step = "idle" /\ Others(r) /\ UNCHANGED <<phones, heap>>
        /\ faults' # 0 \/ entry' = None
    <3>1. SaveFails(r) => faults' # 0
      BY <1>1 DEF SaveFails, Fault
    <3>2. DropEntry(r) => entry' = None
      BY DEF DropEntry, Emptied
    <3> QED
      BY <1>9, <3>1, <3>2, StopsEffect
  <2> QED
    BY <1>2, <2>1 DEF EntryInv, Others
<1>10. CASE DeleteSchedule \/ Expire \/ UNCHANGED vars
  <2>1. /\ UNCHANGED <<request, phones, heap>>
        /\ faults' = 0 => faults = 0
        /\ UNCHANGED <<entry, cacheIsLate>> \/ entry' = None
    BY <1>1, <1>10 DEF DeleteSchedule, Expire, Emptied, vars, memory, rows, history,
                       Fault
  <2>2. BeingWritten' = BeingWritten
    BY <2>1 DEF BeingWritten
  <2> QED
    BY <1>2, <2>1, <2>2 DEF EntryInv, Unsaved
<1> QED
  BY <1>3, <1>4, <1>5, <1>6, <1>7, <1>8, <1>9, <1>10
     DEF Next, RequestNext, WriteOfRow

----------------------------------------------------------------------------
(* The properties. *)

PhoneInv == TypeOK /\ SharingInv /\ CountInv /\ RowInv /\ ScheduleInv /\ EntryInv

LEMMA InitIsSound == Init => PhoneInv
<1> SUFFICES ASSUME Init PROVE PhoneInv
  OBVIOUS
<1>1. \A r \in Requests :
         /\ request[r].step = "idle" /\ request[r].object = None
         /\ request[r].params = NoParams
  BY NoParamsAreTyped DEF Init
<1>2. TypeOK
  BY InitIsTyped
<1>3. SharingInv
  BY <1>1 DEF SharingInv, Holding, Held
<1>4. CountInv
  BY <1>1, NoParamsAreTyped DEF Init, CountInv, Held, None
<1>5. RowInv
  BY <1>1 DEF Init, RowInv, OneRow, Sound, EntryFits, Holding
<1>6. ScheduleInv
  BY <1>1 DEF Init, ScheduleInv, RowsName, Names, EntryNames, Holding
<1>7. EntryInv
  BY <1>1 DEF Init, EntryInv
<1> QED
  BY <1>2, <1>3, <1>4, <1>5, <1>6, <1>7 DEF PhoneInv

LEMMA PhoneInvariant == Spec => []PhoneInv
<1>1. PhoneInv /\ [Next]_vars => PhoneInv'
  BY TypeOKIsInductive, SharingStays, CountStays, RowStays, ScheduleStays,
     EntryStays DEF PhoneInv
<1> QED
  BY <1>1, InitIsSound, PTL DEF Spec

\* As long as no request that was late has written the row, there is one phone
\* for the number at most, though the table has no index that says so: whoever
\* stores one makes late every other request that has found none.
THEOREM OnePhonePerNumber == Spec => []OneRowPerNumber
<1>1. PhoneInv => OneRowPerNumber
  <2> SUFFICES ASSUME PhoneInv, ~tainted PROVE Cardinality(phones) <= 1
    BY DEF OneRowPerNumber
  <2>1. \A p, q \in phones : p = q
    BY DEF PhoneInv, RowInv, OneRow
  <2>2. CASE phones = {}
    BY <2>2, FS_EmptySet
  <2>3. CASE phones # {}
    <3>1. PICK p : phones = {p}
      BY <2>1, <2>3
    <3>2. QED
      <4>1. Cardinality(phones) = 1
        BY <3>1, FS_Singleton
      <4> QED
        BY <4>1
  <2> QED
    BY <2>2, <2>3
<1> QED
  BY <1>1, PhoneInvariant, PTL

\* Whenever nothing is under way, the phone in the cache is the row, field by
\* field, unless a late request has put it there or changed it, or a save has
\* failed: no order of loads, changes of the shared object, saves and drops
\* leaves another one behind.
THEOREM CacheKept == Spec => []CacheIsRight
<1>1. PhoneInv => CacheIsRight
  BY NoParamsAreTyped
     DEF PhoneInv, EntryInv, CacheIsRight, AllIdle, Unsaved, BeingWritten
<1> QED
  BY <1>1, PhoneInvariant, PTL

\* A phone that names a schedule names one that exists, or one whose deletion
\* is still to be handled, unless a late request has written it back.
THEOREM SchedulesStand == Spec => []NoDanglingSchedule
<1>1. PhoneInv => NoDanglingSchedule
  BY DEF PhoneInv, ScheduleInv, RowsName, Standing, NoDanglingSchedule
<1> QED
  BY <1>1, PhoneInvariant, PTL

\* The setting of the phone never goes back to that of an earlier edit, as long
\* as no late request has written it.
THEOREM EditsKept == Spec => EditsAreKept
<1> DEFINE Step == phones # {} /\ phones' # {} /\ ~tainted' /\ faults = 0 =>
                      Loaded'.MessagesPerMinute >= Loaded.MessagesPerMinute
<1>1. PhoneInv /\ [Next]_vars => [Step]_phones
  <2> SUFFICES ASSUME PhoneInv, [Next]_vars, phones' # phones,
                      phones # {}, phones' # {}, ~tainted'
               PROVE  Loaded'.MessagesPerMinute >= Loaded.MessagesPerMinute
    OBVIOUS
  <2>1. PICK r \in Requests : WriteOfRow(r)
    BY LoadCachedEffect, LoadRowEffect, LoadMissingEffect, CacheLoadedEffect,
       UpdateEffect, StopsEffect
       DEF PhoneInv, Next, RequestNext, WriteOfRow, DeleteSchedule, Expire, vars,
           rows
  <2>2. \A p \in phones, n \in phones' :
           n.MessagesPerMinute >= p.MessagesPerMinute
    BY <2>1, WrittenRows DEF PhoneInv
  <2>3. phones \subseteq Phones /\ phones' \subseteq Phones
    BY TypeOKIsInductive DEF PhoneInv, TypeOK
  <2>4. Loaded \in phones
    BY <2>3, LoadedIsRow
  <2>5. Loaded' \in phones'
    <3>1. \E p \in phones' : \A q \in phones' : p.id <= q.id
      BY <2>3, FirstExists
    <3> QED
      BY <3>1 DEF Loaded
  <2> QED
    BY <2>2, <2>4, <2>5
<1> QED
  BY <1>1, PhoneInvariant, PTL DEF Spec, EditsAreKept
=============================================================================
