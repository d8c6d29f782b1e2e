--------------------------- MODULE PhoneKeysProofs ---------------------------
(****************************************************************************)
(* For any keys, phones, numbers and number of requests and handlers that   *)
(* interleave.  A phone and a number are of one key at most: the property   *)
(* is inductive beside the type invariant, in which an event and a task     *)
(* name one key at most, so that what AddPhone joins is one key, and the    *)
(* same transaction has taken the phone and its number from every other.    *)
(*                                                                          *)
(* And all settles.  CacheInv: an entry that is not late is the row's, or   *)
(* whoever wrote the row has still to drop it.  OrderInv: while events come *)
(* in order, a phone that has joined a key, or is about to, is one whose    *)
(* number has no deletion left to be handled but its own.                   *)
(****************************************************************************)
EXTENDS PhoneKeys, SequenceTheorems, TLAPS

IInv == TypeOK /\ OneKeyPerPhone

USE KeyAssumption

\* Taking an event leaves events.
LEMMA TakeType ==
    ASSUME queue \in Seq(Events), NEW i \in DOMAIN queue, Take(i),
           disorder \in BOOLEAN
    PROVE  queue' \in Seq(Events) /\ disorder' \in BOOLEAN
<1>1. i \in 1..Len(queue) /\ Len(queue) \in Nat
  BY LenProperties
<1>2. SubSeq(queue, 1, i - 1) \in Seq(Events)
  BY <1>1, SubSeqProperties
<1>3. SubSeq(queue, i + 1, Len(queue)) \in Seq(Events)
  BY <1>1, SubSeqProperties
<1>4. queue' = SubSeq(queue, 1, i - 1) \o SubSeq(queue, i + 1, Len(queue))
  BY DEF Take, RemoveAt
<1> QED
  BY <1>2, <1>3, <1>4, ConcatProperties DEF Take

\* What is dispatched is an event, and a fault is counted.
LEMMA DispatchType ==
    ASSUME queue \in Seq(Events), faults \in 0..MaxFaults,
           NEW e \in Events, Dispatch(e)
    PROVE  queue' \in Seq(Events) /\ faults' \in 0..MaxFaults
<1>1. CASE queue' = Append(queue, e) /\ UNCHANGED faults
  BY <1>1, AppendProperties
<1>2. CASE Fault /\ UNCHANGED queue
  BY <1>2 DEF Fault
<1> QED
  BY <1>1, <1>2 DEF Dispatch

\* A task of a request or a handler has the type of a task.
LEMMA TaskType ==
    ASSUME NEW step \in Steps, NEW p \in AtMostOne(PhoneIDs),
           NEW k \in AtMostOne(Keys), NEW numbers \in SUBSET Numbers
    PROVE  Task(step, p, k, numbers) \in Tasks
BY DEF Task, Tasks

LEMMA IdleType == /\ Idle \in Tasks
                  /\ Task("clear", {}, {}, {}) \in Tasks
                  /\ \A k \in Keys : Task("forget", {}, {k}, {}) \in Tasks
<1>1. {} \in AtMostOne(PhoneIDs) /\ {} \in AtMostOne(Keys)
      /\ \A k \in Keys : {k} \in AtMostOne(Keys)
  BY DEF AtMostOne
<1>2. {"idle", "clear", "forget"} \subseteq Steps
  BY DEF Steps
<1> QED
  BY <1>1, <1>2, TaskType DEF Idle

\* A write marks tasks late and gives the writer a task.
LEMMA WroteType ==
    ASSUME worker \in [Workers -> Tasks], NEW w \in Workers, NEW task \in Tasks,
           Wrote(w, task) \/ Proceed(w, task)
    PROVE  worker' \in [Workers -> Tasks]
<1>1. \A v \in Workers : [worker[v] EXCEPT !.late = TRUE] \in Tasks
  BY DEF Tasks
<1>2. CASE Wrote(w, task)
  <2> DEFINE marked(v) == IF v = w THEN task
                          ELSE IF worker[v].step \in Holds
                               THEN [worker[v] EXCEPT !.late = TRUE] ELSE worker[v]
  <2>1. \A v \in Workers : marked(v) \in Tasks
    BY <1>1
  <2>2. worker' = [v \in Workers |-> marked(v)]
    BY <1>2 DEF Wrote
  <2> HIDE DEF marked
  <2> QED
    BY <2>1, <2>2
<1>3. CASE Proceed(w, task)
  BY <1>3 DEF Proceed
<1> QED
  BY <1>2, <1>3

----------------------------------------------------------------------------
(* The lists. *)

ListType == PhoneList \in [Keys -> SUBSET PhoneIDs]
            /\ NumberList \in [Keys -> SUBSET Numbers]

\* A phone and its number taken from some keys: lists only lose, and where the
\* number stays another phone of that number does.
LEMMA WithoutKeeps ==
    ASSUME ListType, OneKeyPerPhone, NEW p \in PhoneIDs, NEW ks, Without(p, ks)
    PROVE  ListType' /\ OneKeyPerPhone'
<1>1. \A k \in Keys : PhoneList'[k] = IF k \in ks THEN PhoneList[k] \ {p} ELSE PhoneList[k]
  BY DEF Without
<1>2. \A k \in Keys : NumberList'[k] =
          IF k \in ks THEN NumberList[k] \ {NumberOf[p]} ELSE NumberList[k]
  BY DEF Without
<1>3. \A k \in Keys : PhoneList'[k] \subseteq PhoneList[k]
                      /\ NumberList'[k] \subseteq NumberList[k]
  BY <1>1, <1>2
<1>4. ListType'
  BY <1>3 DEF Without, ListType
<1>5. ASSUME NEW k \in Keys, NEW n \in NumberList'[k]
      PROVE  \E q \in PhoneList'[k] : n = NumberOf[q]
  <2>1. PICK q \in PhoneList[k] : n = NumberOf[q]
    BY <1>3 DEF OneKeyPerPhone
  <2>2. q \in PhoneList'[k]
    BY <2>1, <1>1, <1>2
  <2> QED
    BY <2>1, <2>2
<1>6. \A j, k \in Keys : j # k => /\ PhoneList'[j] \cap PhoneList'[k] = {}
                                  /\ NumberList'[j] \cap NumberList'[k] = {}
  BY <1>3 DEF OneKeyPerPhone
<1> QED
  BY <1>4, <1>5, <1>6 DEF OneKeyPerPhone

\* A phone leaves every key and joins one at most.
LEMMA JoinKeeps ==
    ASSUME ListType, OneKeyPerPhone, NEW p \in PhoneIDs, NEW joined,
           \A j, k \in joined : j = k,
           PhoneList' = [k \in Keys |->
              (PhoneList[k] \ {p}) \cup (IF k \in joined THEN {p} ELSE {})],
           NumberList' = [k \in Keys |->
              (NumberList[k] \ {NumberOf[p]})
                 \cup (IF k \in joined THEN {NumberOf[p]} ELSE {})]
    PROVE  ListType' /\ OneKeyPerPhone'
<1>1. \A k \in Keys : /\ k \in joined => PhoneList'[k] = PhoneList[k] \cup {p}
                      /\ k \notin joined => PhoneList'[k] = PhoneList[k] \ {p}
  BY DEF ListType
<1>2. \A k \in Keys : /\ k \in joined => NumberList'[k] = NumberList[k] \cup {NumberOf[p]}
                      /\ k \notin joined => NumberList'[k] = NumberList[k] \ {NumberOf[p]}
  BY DEF ListType
<1>3. NumberOf[p] \in Numbers
  BY KeyAssumption
<1>4. ListType'
  BY <1>3 DEF ListType
<1>5. \A k \in Keys : NumberList'[k] \subseteq { NumberOf[q] : q \in PhoneList'[k] }
  BY <1>1, <1>2 DEF OneKeyPerPhone
<1>6. ASSUME NEW j \in Keys, NEW k \in Keys, j # k
      PROVE  /\ PhoneList'[j] \cap PhoneList'[k] = {}
             /\ NumberList'[j] \cap NumberList'[k] = {}
  <2>1. j \notin joined \/ k \notin joined
    BY <1>6
  <2>2. PhoneList[j] \cap PhoneList[k] = {} /\ NumberList[j] \cap NumberList[k] = {}
    BY <1>6 DEF OneKeyPerPhone
  <2> QED
    BY <1>1, <1>2, <2>1, <2>2
<1> QED
  BY <1>4, <1>5, <1>6 DEF OneKeyPerPhone

\* A row is deleted with its lists.
LEMMA EmptyKeeps ==
    ASSUME ListType, OneKeyPerPhone,
           NEW emptied,
           PhoneList' = [k \in Keys |-> IF k \in emptied THEN {} ELSE PhoneList[k]],
           NumberList' = [k \in Keys |-> IF k \in emptied THEN {} ELSE NumberList[k]]
    PROVE  ListType' /\ OneKeyPerPhone'
<1>1. \A k \in Keys : \/ PhoneList'[k] = {} /\ NumberList'[k] = {}
                      \/ PhoneList'[k] = PhoneList[k] /\ NumberList'[k] = NumberList[k]
  OBVIOUS
<1>2. ListType'
  BY <1>1 DEF ListType
<1>3. \A k \in Keys : NumberList'[k] \subseteq { NumberOf[q] : q \in PhoneList'[k] }
  BY <1>1 DEF OneKeyPerPhone
<1>4. \A j, k \in Keys : j # k => /\ PhoneList'[j] \cap PhoneList'[k] = {}
                                  /\ NumberList'[j] \cap NumberList'[k] = {}
  BY <1>1 DEF OneKeyPerPhone
<1> QED
  BY <1>2, <1>3, <1>4 DEF OneKeyPerPhone

----------------------------------------------------------------------------
(* The actions, one lemma each. *)

LEMMA LoginKeeps == ASSUME IInv, Login PROVE IInv'
<1>1. PICK k \in keys \cup CachedKeys, n \in Numbers :
          \E p \in PhoneIDs : /\ p \in phones \/ p \in PhoneIDs \ usedPhones
                              /\ phones' = phones \cup {p}
                              /\ usedPhones' = usedPhones \cup {p}
                              /\ Dispatch(Updated(p, k))
  BY DEF Login, IInv, TypeOK
<1>2. PICK p \in PhoneIDs : /\ phones' = phones \cup {p}
                            /\ usedPhones' = usedPhones \cup {p}
                            /\ Dispatch(Updated(p, k))
  BY <1>1
<1>3. k \in Keys
  BY DEF IInv, TypeOK, CachedKeys, Entries
<1>4. Updated(p, k) \in Events
  BY <1>3 DEF Updated, Events, AtMostOne
<1>5. queue' \in Seq(Events) /\ faults' \in 0..MaxFaults
  BY <1>2, <1>4, DispatchType DEF IInv, TypeOK
<1>6. logins' \in 0..MaxLogins
  BY DEF Login, IInv, TypeOK
<1> QED
  BY <1>2, <1>5, <1>6 DEF Login, IInv, TypeOK, OneKeyPerPhone, lists

LEMMA DeletePhoneKeeps == ASSUME IInv, DeletePhone PROVE IInv'
<1>1. PICK p \in phones :
          /\ phones' = phones \ {p}
          /\ Dispatch(Deleted(p))
          /\ worker' = [v \in Workers |->
                IF Is(v, "add") /\ p \in worker[v].phone
                THEN [worker[v] EXCEPT !.late = TRUE] ELSE worker[v]]
  BY DEF DeletePhone
<1>2. Deleted(p) \in Events
  BY DEF Deleted, Events, AtMostOne, IInv, TypeOK
<1>3. queue' \in Seq(Events) /\ faults' \in 0..MaxFaults
  BY <1>1, <1>2, DispatchType DEF IInv, TypeOK
<1>4. \A v \in Workers : [worker[v] EXCEPT !.late = TRUE] \in Tasks
  BY DEF IInv, TypeOK, Tasks
<1>5. worker' \in [Workers -> Tasks]
  BY <1>1, <1>4 DEF IInv, TypeOK
<1> QED
  BY <1>1, <1>3, <1>5
     DEF DeletePhone, IInv, TypeOK, OneKeyPerPhone, lists, counts

LEMMA OnPhoneUpdatedKeeps ==
    ASSUME IInv, NEW w \in Workers, OnPhoneUpdated(w) PROVE IInv'
<1>1. PICK i \in DOMAIN queue :
          /\ Take(i)
          /\ \/ Proceed(w, Task("add", {queue[i].phone}, queue[i].key, {}))
             \/ UNCHANGED worker
  BY DEF OnPhoneUpdated
<1>2. queue[i] \in Events
  BY ElementOfSeq, LenProperties DEF IInv, TypeOK
<1>3. Task("add", {queue[i].phone}, queue[i].key, {}) \in Tasks
  BY <1>2 DEF Task, Tasks, Events, AtMostOne, Steps
<1>4. worker' \in [Workers -> Tasks]
  BY <1>1, <1>3, WroteType DEF IInv, TypeOK
<1>5. queue' \in Seq(Events) /\ disorder' \in BOOLEAN
  BY <1>1, TakeType DEF IInv, TypeOK
<1> QED
  BY <1>4, <1>5 DEF OnPhoneUpdated, IInv, TypeOK, OneKeyPerPhone, rows, lists, counts

LEMMA AddPhoneKeeps == ASSUME IInv, NEW w \in Workers, AddPhone(w) PROVE IInv'
<1>1. worker[w] \in Tasks
  BY DEF IInv, TypeOK
<1>2. PICK p \in worker[w].phone :
          /\ PhoneList' = [k \in Keys |-> (PhoneList[k] \ {p}) \cup
                (IF k \in worker[w].key \cap keys THEN {p} ELSE {})]
          /\ NumberList' = [k \in Keys |-> (NumberList[k] \ {NumberOf[p]}) \cup
                (IF k \in worker[w].key \cap keys THEN {NumberOf[p]} ELSE {})]
  BY DEF AddPhone
<1>3. p \in PhoneIDs
  BY <1>1 DEF Tasks, AtMostOne
<1>4. \A j, k \in worker[w].key \cap keys : j = k
  BY <1>1 DEF Tasks, AtMostOne
<1>5. ListType /\ OneKeyPerPhone
  BY DEF IInv, TypeOK, ListType
<1>6. ListType' /\ OneKeyPerPhone'
  BY <1>2, <1>3, <1>4, <1>5, JoinKeeps
<1>7. worker' \in [Workers -> Tasks]
  BY IdleType, WroteType DEF AddPhone, IInv, TypeOK
<1>8. worker[w].late \in BOOLEAN
  BY <1>1 DEF Tasks
<1>9. disorder' \in BOOLEAN
  BY <1>8 DEF AddPhone, IInv, TypeOK
<1> QED
  BY <1>6, <1>7, <1>9 DEF AddPhone, IInv, TypeOK, ListType, counts

LEMMA OnPhoneDeletedKeeps ==
    ASSUME IInv, NEW w \in Workers, OnPhoneDeleted(w) PROVE IInv'
<1>1. PICK i \in DOMAIN queue :
          /\ Take(i)
          /\ Without(queue[i].phone, { k \in Keys : queue[i].phone \in PhoneList[k] })
  BY DEF OnPhoneDeleted
<1>2. queue[i] \in Events
  BY ElementOfSeq, LenProperties DEF IInv, TypeOK
<1>3. queue[i].phone \in PhoneIDs
  BY <1>2 DEF Events
<1>4. ListType /\ OneKeyPerPhone
  BY DEF IInv, TypeOK, ListType
<1>5. ListType' /\ OneKeyPerPhone'
  BY <1>1, <1>3, <1>4, WithoutKeeps
<1>6. worker' \in [Workers -> Tasks]
  BY IdleType, WroteType DEF OnPhoneDeleted, IInv, TypeOK
<1>7. queue' \in Seq(Events) /\ disorder' \in BOOLEAN
  BY <1>1, TakeType DEF IInv, TypeOK
<1> QED
  BY <1>5, <1>6, <1>7 DEF OnPhoneDeleted, IInv, TypeOK, ListType, counts

\* The steps that write no row: they change the cache, or what a worker does.
LEMMA CacheStepKeeps ==
    ASSUME IInv, NEW w \in Workers,
           ClearCache(w) \/ Forget(w) \/ LoadAuthContext(w) \/ FillCache(w)
    PROVE  IInv'
<1>1. worker[w] \in Tasks
  BY DEF IInv, TypeOK
<1>2. CASE ClearCache(w)
  <2>1. worker' \in [Workers -> Tasks] /\ cache' = {}
    BY <1>2, IdleType, WroteType DEF ClearCache, IInv, TypeOK
  <2> QED
    BY <1>2, <2>1 DEF ClearCache, IInv, TypeOK, OneKeyPerPhone, rows, lists, counts
<1>3. CASE Forget(w)
  <2>1. worker' \in [Workers -> Tasks] /\ cache' \subseteq cache
    BY <1>3, IdleType, WroteType DEF Forget, IInv, TypeOK
  <2> QED
    BY <1>3, <2>1 DEF Forget, IInv, TypeOK, OneKeyPerPhone, rows, lists, counts
<1>4. CASE LoadAuthContext(w)
  <2>1. PICK k \in keys : Proceed(w, Task("fill", {}, {k}, NumberList[k]))
    BY <1>4 DEF LoadAuthContext
  <2>2. k \in Keys /\ NumberList[k] \in SUBSET Numbers
    BY DEF IInv, TypeOK
  <2>3. Task("fill", {}, {k}, NumberList[k]) \in Tasks
    BY <2>2, TaskType DEF AtMostOne, Steps
  <2>4. worker' \in [Workers -> Tasks]
    BY <2>1, <2>3, WroteType DEF IInv, TypeOK
  <2> QED
    BY <1>4, <2>4
       DEF LoadAuthContext, IInv, TypeOK, OneKeyPerPhone, rows, lists, counts
<1>5. CASE FillCache(w)
  <2>1. worker' \in [Workers -> Tasks]
    BY <1>5, IdleType, WroteType DEF FillCache, IInv, TypeOK
  <2>2. cache' \subseteq Entries /\ \A d, e \in cache' : d.key = e.key => d = e
    <3>1. CASE UNCHANGED cache
      BY <3>1 DEF IInv, TypeOK
    <3>2. ASSUME NEW k \in worker[w].key,
                 cache' = { e \in cache : e.key # k } \cup
                    {[key |-> k, numbers |-> worker[w].numbers, late |-> worker[w].late]}
          PROVE  cache' \subseteq Entries /\ \A d, e \in cache' : d.key = e.key => d = e
      <4>1. k \in Keys /\ worker[w].numbers \in SUBSET Numbers
            /\ worker[w].late \in BOOLEAN
        BY <1>1 DEF Tasks, AtMostOne
      <4> QED
        BY <3>2, <4>1 DEF IInv, TypeOK, Entries
    <3> QED
      BY <1>5, <3>1, <3>2 DEF FillCache
  <2> QED
    BY <1>5, <2>1, <2>2
       DEF FillCache, IInv, TypeOK, OneKeyPerPhone, rows, lists, counts
<1> QED
  BY <1>2, <1>3, <1>4, <1>5

LEMMA CreateKeeps == ASSUME IInv, NEW w \in Workers, Create(w) PROVE IInv'
BY DEF Create, IInv, TypeOK, OneKeyPerPhone, lists, counts

LEMMA LoadForRemoveKeeps ==
    ASSUME IInv, NEW w \in Workers, LoadForRemove(w) PROVE IInv'
<1>1. PICK k \in keys, p \in phones : Proceed(w, Task("remove", {p}, {k}, {}))
  BY DEF LoadForRemove
<1>2. k \in Keys /\ p \in PhoneIDs
  BY DEF IInv, TypeOK
<1>3. Task("remove", {p}, {k}, {}) \in Tasks
  BY <1>2, TaskType DEF AtMostOne, Steps
<1>4. worker' \in [Workers -> Tasks]
  BY <1>1, <1>3, WroteType DEF IInv, TypeOK
<1>5. removals' \in 0..MaxRemovals
  BY DEF LoadForRemove, IInv, TypeOK
<1> QED
  BY <1>4, <1>5 DEF LoadForRemove, IInv, TypeOK, OneKeyPerPhone, rows, lists

\* Entries that are marked late are still one for each key.
LEMMA LateEntries ==
    ASSUME cache \subseteq Entries, \A d, e \in cache : d.key = e.key => d = e,
           NEW late \in [cache -> BOOLEAN],
           cache' = { [e EXCEPT !.late = late[e]] : e \in cache }
    PROVE  cache' \subseteq Entries /\ \A d, e \in cache' : d.key = e.key => d = e
<1>1. \A e \in cache : /\ [e EXCEPT !.late = late[e]] \in Entries
                       /\ [e EXCEPT !.late = late[e]].key = e.key
  BY DEF Entries
<1>2. cache' \subseteq Entries
  BY <1>1
<1>3. ASSUME NEW d \in cache', NEW e \in cache', d.key = e.key
      PROVE  d = e
  <2>1. PICK c \in cache : d = [c EXCEPT !.late = late[c]]
    OBVIOUS
  <2>2. PICK b \in cache : e = [b EXCEPT !.late = late[b]]
    OBVIOUS
  <2>3. c.key = b.key
    BY <1>1, <1>3, <2>1, <2>2
  <2>4. c = b
    BY <2>3
  <2> QED
    BY <2>1, <2>2, <2>4
<1> QED
  BY <1>2, <1>3

LEMMA RemovePhoneKeeps ==
    ASSUME IInv, NEW w \in Workers, RemovePhone(w) PROVE IInv'
<1>1. worker[w] \in Tasks
  BY DEF IInv, TypeOK
<1>2. PICK p \in worker[w].phone : Without(p, worker[w].key \cap keys)
  BY DEF RemovePhone
<1>3. p \in PhoneIDs
  BY <1>1 DEF Tasks, AtMostOne
<1>4. ListType /\ OneKeyPerPhone
  BY DEF IInv, TypeOK, ListType
<1>5. ListType' /\ OneKeyPerPhone'
  BY <1>2, <1>3, <1>4, WithoutKeeps
<1>6. worker' \in [Workers -> Tasks]
  BY IdleType, WroteType DEF RemovePhone, IInv, TypeOK
<1>7. worker[w].late \in BOOLEAN
  BY <1>1 DEF Tasks
<1>8. disorder' \in BOOLEAN
  BY <1>7 DEF RemovePhone, IInv, TypeOK
<1>9. cache' \subseteq Entries /\ \A d, e \in cache' : d.key = e.key => d = e
  <2> DEFINE late == [e \in cache |-> e.late \/ e.key \in worker[w].key]
  <2>1. cache' = { [e EXCEPT !.late = late[e]] : e \in cache }
    BY DEF RemovePhone
  <2>2. late \in [cache -> BOOLEAN]
    BY DEF IInv, TypeOK, Entries
  <2>3. cache \subseteq Entries /\ \A d, e \in cache : d.key = e.key => d = e
    BY DEF IInv, TypeOK
  <2> HIDE DEF late
  <2> QED
    BY <2>1, <2>2, <2>3, LateEntries
<1> QED
  BY <1>5, <1>6, <1>8, <1>9 DEF RemovePhone, IInv, TypeOK, ListType, counts

LEMMA DeleteKeeps == ASSUME IInv, NEW w \in Workers, Delete(w) PROVE IInv'
<1>1. PICK k \in keys : /\ keys' = keys \ {k}
                        /\ PhoneList' = [PhoneList EXCEPT ![k] = {}]
                        /\ NumberList' = [NumberList EXCEPT ![k] = {}]
                        /\ Wrote(w, Task("forget", {}, {k}, {}))
  BY DEF Delete
<1>2. k \in Keys
  BY DEF IInv, TypeOK
<1>3. ListType /\ OneKeyPerPhone
  BY DEF IInv, TypeOK, ListType
<1>4. /\ PhoneList' = [j \in Keys |-> IF j \in {k} THEN {} ELSE PhoneList[j]]
      /\ NumberList' = [j \in Keys |-> IF j \in {k} THEN {} ELSE NumberList[j]]
  BY <1>1, <1>3 DEF ListType
<1>5. ListType' /\ OneKeyPerPhone'
  BY <1>3, <1>4, EmptyKeeps
<1>6. worker' \in [Workers -> Tasks]
  BY <1>1, <1>2, IdleType, WroteType DEF IInv, TypeOK
<1> QED
  BY <1>1, <1>5, <1>6 DEF Delete, IInv, TypeOK, ListType, counts

LEMMA DeleteAllForUserKeeps ==
    ASSUME IInv, NEW w \in Workers, DeleteAllForUser(w) PROVE IInv'
<1>1. ListType /\ OneKeyPerPhone
  BY DEF IInv, TypeOK, ListType
<1>2. /\ PhoneList' = [k \in Keys |-> IF k \in Keys THEN {} ELSE PhoneList[k]]
      /\ NumberList' = [k \in Keys |-> IF k \in Keys THEN {} ELSE NumberList[k]]
  BY DEF DeleteAllForUser
<1>3. ListType' /\ OneKeyPerPhone'
  BY <1>1, <1>2, EmptyKeeps
<1>4. worker' \in [Workers -> Tasks]
  BY IdleType, WroteType DEF DeleteAllForUser, IInv, TypeOK
<1>5. cache' \subseteq Entries /\ \A d, e \in cache' : d.key = e.key => d = e
  <2> DEFINE late == [e \in cache |-> TRUE]
  <2>1. cache' = { [e EXCEPT !.late = late[e]] : e \in cache }
    BY DEF DeleteAllForUser
  <2>2. late \in [cache -> BOOLEAN]
    OBVIOUS
  <2>3. cache \subseteq Entries /\ \A d, e \in cache : d.key = e.key => d = e
    BY DEF IInv, TypeOK
  <2> HIDE DEF late
  <2> QED
    BY <2>1, <2>2, <2>3, LateEntries
<1> QED
  BY <1>3, <1>4, <1>5 DEF DeleteAllForUser, IInv, TypeOK, ListType, counts

LEMMA RepeatKeeps == ASSUME IInv, Repeat PROVE IInv'
<1>1. PICK i \in DOMAIN queue : queue' = Append(queue, queue[i])
  BY DEF Repeat
<1>2. queue[i] \in Events
  BY ElementOfSeq, LenProperties DEF IInv, TypeOK
<1>3. queue' \in Seq(Events)
  BY <1>1, <1>2, AppendProperties DEF IInv, TypeOK
<1>4. faults' \in 0..MaxFaults
  BY DEF Repeat, Fault, IInv, TypeOK
<1> QED
  BY <1>3, <1>4 DEF Repeat, IInv, TypeOK, OneKeyPerPhone, rows, lists, counts

LEMMA ExpireKeeps == ASSUME IInv, Expire PROVE IInv'
<1>1. cache' \subseteq cache
  BY DEF Expire
<1> QED
  BY <1>1 DEF Expire, IInv, TypeOK, OneKeyPerPhone, rows, lists, counts

LEMMA InitHolds == Init => IInv
<1> SUFFICES ASSUME Init PROVE IInv
  OBVIOUS
<1>1. queue \in Seq(Events)
  BY DEF Init
<1>2. worker \in [Workers -> Tasks]
  BY IdleType DEF Init
<1>3. logins \in 0..MaxLogins /\ removals \in 0..MaxRemovals /\ faults \in 0..MaxFaults
  BY KeyAssumption DEF Init
<1>4. \A k \in Keys : PhoneList[k] = {} /\ NumberList[k] = {}
  BY DEF Init
<1>5. OneKeyPerPhone
  BY <1>4 DEF OneKeyPerPhone
<1>6. ListType
  BY DEF Init, ListType
<1>7. cache = {} /\ disorder = FALSE /\ phones = {} /\ usedPhones = {}
      /\ keys = {} /\ usedKeys = {}
  BY DEF Init
<1> QED
  BY <1>1, <1>2, <1>3, <1>5, <1>6, <1>7 DEF IInv, TypeOK, ListType

LEMMA NextKeeps == IInv /\ [Next]_vars => IInv'
<1> SUFFICES ASSUME IInv, [Next]_vars PROVE IInv'
  OBVIOUS
<1>1. ASSUME NEW w \in Workers, WorkerNext(w) PROVE IInv'
  BY <1>1, OnPhoneUpdatedKeeps, AddPhoneKeeps, OnPhoneDeletedKeeps, CacheStepKeeps,
     CreateKeeps, LoadForRemoveKeeps, RemovePhoneKeeps, DeleteKeeps,
     DeleteAllForUserKeeps DEF WorkerNext
<1>2. CASE UNCHANGED vars
  BY <1>2 DEF vars, rows, lists, counts, IInv, TypeOK, OneKeyPerPhone
<1> QED
  BY <1>1, <1>2, LoginKeeps, DeletePhoneKeeps, ExpireKeeps, RepeatKeeps DEF Next

----------------------------------------------------------------------------
\* Every reachable state has its type; in particular, the cache has one entry for
\* a key, and an event and a task are of one key at most.
THEOREM KeysTypeCorrect == Spec => []TypeOK
<1>1. IInv => TypeOK
  BY DEF IInv
<1> QED
  BY <1>1, InitHolds, NextKeeps, PTL DEF Spec

\* A phone, and a number, is of one key at most, and a key allows no number but
\* those of its phones (AddPhone, RemovePhoneByID, RemovePhone), for any number of
\* keys, phones, workers, logins, removals and faults.
THEOREM OneKeyPerPhoneHolds == Spec => []OneKeyPerPhone
<1>1. IInv => OneKeyPerPhone
  BY DEF IInv
<1> QED
  BY <1>1, InitHolds, NextKeeps, PTL DEF Spec

----------------------------------------------------------------------------
(* The cache settles. *)

\* w is about to drop what the cache holds for k.
Clears(w, k) ==
    \/ worker[w].step = "clear"
    \/ worker[w].step = "forget" /\ k \in worker[w].key

\* An entry that is not late is the row's, or will be dropped by whoever wrote the
\* row; and what will be cached and is not late is the row's.
CacheInv ==
    /\ \A e \in cache :
          \/ e.late
          \/ e.key \in keys /\ e.numbers = NumberList[e.key]
          \/ \E w \in Workers : Clears(w, e.key)
    /\ \A w \in Workers : worker[w].step = "fill" /\ ~worker[w].late =>
          \A k \in worker[w].key : k \in keys /\ worker[w].numbers = NumberList[k]

\* No list is written, and whoever clears goes on to.
LEMMA UnwrittenAgrees ==
    ASSUME CacheInv, NumberList' = NumberList, keys \subseteq keys',
           cache' \subseteq cache,
           \A v \in Workers :
              \/ /\ worker'[v].step = worker[v].step
                 /\ worker'[v].key = worker[v].key
                 /\ worker'[v].numbers = worker[v].numbers
                 /\ worker[v].late => worker'[v].late
              \/ /\ worker[v].step \notin {"clear", "forget"}
                 /\ worker'[v].step # "fill"
              \/ /\ worker[v].step = "idle" /\ worker'[v].step = "fill"
                 /\ \A k \in worker'[v].key :
                       k \in keys /\ worker'[v].numbers = NumberList[k]
    PROVE  CacheInv'
<1>1. ASSUME NEW e \in cache'
      PROVE  \/ e.late
             \/ e.key \in keys' /\ e.numbers = NumberList'[e.key]
             \/ \E w \in Workers : /\ \/ worker'[w].step = "clear"
                                      \/ worker'[w].step = "forget" /\ e.key \in worker'[w].key
  <2>1. CASE \E w \in Workers : Clears(w, e.key)
    <3>1. PICK w \in Workers : Clears(w, e.key)
      BY <2>1
    <3> QED
      BY <3>1 DEF Clears
  <2> QED
    BY <2>1 DEF CacheInv
<1>2. ASSUME NEW w \in Workers, worker'[w].step = "fill", ~worker'[w].late,
             NEW k \in worker'[w].key
      PROVE  k \in keys' /\ worker'[w].numbers = NumberList'[k]
  BY <1>2 DEF CacheInv
<1> QED
  BY <1>1, <1>2 DEF CacheInv, Clears

\* After a write nobody holds what is not late, and the writer answers for the
\* entries that its write concerned.
LEMMA WrittenAgrees ==
    ASSUME CacheInv, NEW w \in Workers, NEW task, Wrote(w, task),
           worker \in [Workers -> Tasks],
           worker[w].step \notin {"clear", "forget"}, task.step # "fill",
           \A e \in cache' :
              \/ e.late
              \/ task.step = "clear"
              \/ task.step = "forget" /\ e.key \in task.key
              \/ /\ e \in cache
                 /\ e.key \in keys => e.key \in keys'
                 /\ NumberList'[e.key] = NumberList[e.key]
    PROVE  CacheInv'
<1>1. worker'[w] = task
  BY DEF Wrote
<1>2. \A v \in Workers : v # w =>
          worker'[v] = IF worker[v].step \in Holds
                       THEN [worker[v] EXCEPT !.late = TRUE] ELSE worker[v]
  BY DEF Wrote
<1>3. ASSUME NEW v \in Workers, worker'[v].step = "fill" PROVE worker'[v].late
  <2>1. v # w
    BY <1>1, <1>3
  <2>2. worker[v] \in Tasks
    OBVIOUS
  <2>3. worker[v].step \in Holds
    BY <1>2, <1>3, <2>1 DEF Holds
  <2>4. worker'[v] = [worker[v] EXCEPT !.late = TRUE]
    BY <1>2, <2>1, <2>3
  <2> QED
    BY <2>2, <2>4 DEF Tasks
<1>4. ASSUME NEW v \in Workers, NEW k, Clears(v, k)
      PROVE  worker'[v] = worker[v]
  BY <1>2, <1>4 DEF Clears, Holds
<1>5. ASSUME NEW e \in cache'
      PROVE  \/ e.late
             \/ e.key \in keys' /\ e.numbers = NumberList'[e.key]
             \/ \E v \in Workers :
                   \/ worker'[v].step = "clear"
                   \/ worker'[v].step = "forget" /\ e.key \in worker'[v].key
  <2>1. CASE task.step = "clear" \/ (task.step = "forget" /\ e.key \in task.key)
    BY <1>1, <2>1
  <2>2. CASE /\ e \in cache
             /\ e.key \in keys => e.key \in keys'
             /\ NumberList'[e.key] = NumberList[e.key]
    <3>1. CASE \E v \in Workers : Clears(v, e.key)
      <4>1. PICK v \in Workers : Clears(v, e.key)
        BY <3>1
      <4>2. worker'[v] = worker[v]
        BY <1>4, <4>1
      <4> QED
        BY <4>1, <4>2 DEF Clears
    <3> QED
      BY <2>2, <3>1 DEF CacheInv
  <2> QED
    BY <2>1, <2>2
<1> QED
  BY <1>3, <1>5 DEF CacheInv, Clears

\* What becomes of the others when one goes on to a task of its own.
LEMMA ProceedsAlone ==
    ASSUME worker \in [Workers -> Tasks], NEW w \in Workers, NEW task,
           Proceed(w, task)
    PROVE  worker'[w] = task /\ \A v \in Workers \ {w} : worker'[v] = worker[v]
BY DEF Proceed

LEMMA IdleFields == Idle.step = "idle"
BY DEF Idle, Task

LEMMA CacheAgrees ==
    ASSUME IInv, CacheInv, [Next]_vars
    PROVE  CacheInv'
<1>1. worker \in [Workers -> Tasks] /\ cache \subseteq Entries /\ keys \subseteq Keys
  BY DEF IInv, TypeOK
<1>2. CASE UNCHANGED vars
  BY <1>2, UnwrittenAgrees DEF vars, rows, lists
<1>3. CASE Login \/ Expire \/ Repeat
  BY <1>3, UnwrittenAgrees DEF Login, Expire, Repeat, rows, lists
<1>4. CASE DeletePhone
  <2>1. PICK p \in phones :
          worker' = [v \in Workers |->
                IF Is(v, "add") /\ p \in worker[v].phone
                THEN [worker[v] EXCEPT !.late = TRUE] ELSE worker[v]]
    BY <1>4 DEF DeletePhone
  <2>2. ASSUME NEW v \in Workers
        PROVE  /\ worker'[v].step = worker[v].step
               /\ worker'[v].key = worker[v].key
               /\ worker'[v].numbers = worker[v].numbers
               /\ worker[v].late => worker'[v].late
    BY <1>1, <2>1 DEF Tasks
  <2> QED
    BY <1>4, <2>2, UnwrittenAgrees DEF DeletePhone, lists
<1>5. ASSUME NEW w \in Workers, OnPhoneUpdated(w) \/ LoadForRemove(w)
      PROVE  CacheInv'
  <2>1. \/ UNCHANGED worker
        \/ \E step \in {"add", "remove"} : \E p, k : Proceed(w, Task(step, p, k, {}))
    BY <1>5 DEF OnPhoneUpdated, LoadForRemove
  <2>2. worker[w].step = "idle"
    BY <1>5, IdleFields DEF OnPhoneUpdated, LoadForRemove, IsIdle
  <2>3. worker'[w].step \in {"idle", "add", "remove"}
    <3>1. ASSUME NEW step \in {"add", "remove"}, NEW p, NEW k,
                 Proceed(w, Task(step, p, k, {}))
          PROVE  worker'[w].step = step
      BY <1>1, <3>1 DEF Proceed, Task
    <3> QED
      BY <2>1, <2>2, <3>1
  <2>4. \A v \in Workers \ {w} : worker'[v] = worker[v]
    BY <1>1, <2>1, ProceedsAlone
  <2> QED
    BY <1>5, <2>2, <2>3, <2>4, UnwrittenAgrees
       DEF OnPhoneUpdated, LoadForRemove, rows, lists
<1>6. ASSUME NEW w \in Workers, Create(w) PROVE CacheInv'
  BY <1>6, UnwrittenAgrees DEF Create, lists
<1>7. ASSUME NEW w \in Workers, LoadAuthContext(w) PROVE CacheInv'
  <2>1. PICK k \in keys : Proceed(w, Task("fill", {}, {k}, NumberList[k]))
    BY <1>7 DEF LoadAuthContext
  <2>2. worker[w].step = "idle"
    BY <1>7, IdleFields DEF LoadAuthContext, IsIdle
  <2>3. /\ worker'[w].step = "fill" /\ worker'[w].key = {k}
        /\ worker'[w].numbers = NumberList[k]
    BY <1>1, <2>1, ProceedsAlone DEF Task
  <2>4. \A v \in Workers \ {w} : worker'[v] = worker[v]
    BY <1>1, <2>1, ProceedsAlone
  <2> QED
    BY <1>7, <2>2, <2>3, <2>4, UnwrittenAgrees DEF LoadAuthContext, rows, lists
<1>8. ASSUME NEW w \in Workers, AddPhone(w) \/ OnPhoneDeleted(w)
      PROVE  CacheInv'
  <2>1. Wrote(w, Task("clear", {}, {}, {}))
    BY <1>8 DEF AddPhone, OnPhoneDeleted
  <2>2. worker[w].step \notin {"clear", "forget"}
    BY <1>8, IdleFields DEF AddPhone, OnPhoneDeleted, Is, IsIdle
  <2>3. Task("clear", {}, {}, {}).step = "clear"
    BY DEF Task
  <2> QED
    BY <1>1, <2>1, <2>2, <2>3, WrittenAgrees
<1>9. ASSUME NEW w \in Workers, RemovePhone(w) PROVE CacheInv'
  <2>1. PICK p \in worker[w].phone : Without(p, worker[w].key \cap keys)
    BY <1>9 DEF RemovePhone
  <2>2. cache' = { [e EXCEPT !.late = @ \/ e.key \in worker[w].key] : e \in cache }
    BY <1>9 DEF RemovePhone
  <2>3. ASSUME NEW e \in cache'
        PROVE  \/ e.late
               \/ /\ e \in cache
                  /\ e.key \in keys => e.key \in keys'
                  /\ NumberList'[e.key] = NumberList[e.key]
    <3>1. PICK d \in cache : e = [d EXCEPT !.late = @ \/ d.key \in worker[w].key]
      BY <2>2
    <3>2. d \in Entries
      BY <1>1
    <3>3. CASE d.key \in worker[w].key
      BY <3>1, <3>2, <3>3 DEF Entries
    <3>4. CASE d.key \notin worker[w].key
      <4>1. e = d
        BY <3>1, <3>2, <3>4 DEF Entries
      <4>2. d.key \in Keys
        BY <3>2 DEF Entries
      <4>3. NumberList'[d.key] = NumberList[d.key]
        BY <2>1, <3>4, <4>2 DEF Without
      <4> QED
        BY <1>9, <4>1, <4>3 DEF RemovePhone
    <3> QED
      BY <3>3, <3>4
  <2>4. Wrote(w, Idle) /\ worker[w].step = "remove"
    BY <1>9 DEF RemovePhone, Is
  <2> QED
    BY <1>1, <2>3, <2>4, IdleFields, WrittenAgrees
<1>10. ASSUME NEW w \in Workers, Delete(w) PROVE CacheInv'
  <2>1. PICK k \in keys : /\ keys' = keys \ {k}
                          /\ NumberList' = [NumberList EXCEPT ![k] = {}]
                          /\ Wrote(w, Task("forget", {}, {k}, {}))
    BY <1>10 DEF Delete
  <2>2. worker[w].step = "idle" /\ cache' = cache
    BY <1>10, IdleFields DEF Delete, IsIdle
  <2>3. ASSUME NEW e \in cache', e.key # k
        PROVE  /\ e \in cache
               /\ e.key \in keys => e.key \in keys'
               /\ NumberList'[e.key] = NumberList[e.key]
    <3>1. e.key \in Keys
      BY <1>1, <2>2 DEF Entries
    <3> QED
      BY <2>1, <2>2, <2>3, <3>1 DEF IInv, TypeOK
  <2>4. /\ Task("forget", {}, {k}, {}).step = "forget"
        /\ Task("forget", {}, {k}, {}).key = {k}
    BY DEF Task
  <2> QED
    BY <1>1, <2>1, <2>2, <2>3, <2>4, WrittenAgrees
<1>11. ASSUME NEW w \in Workers, DeleteAllForUser(w) PROVE CacheInv'
  <2>1. Wrote(w, Idle) /\ worker[w].step = "idle"
    BY <1>11, IdleFields DEF DeleteAllForUser, IsIdle
  <2>2. \A e \in cache' : e.late
    BY <1>1, <1>11 DEF DeleteAllForUser, Entries
  <2> QED
    BY <1>1, <2>1, <2>2, IdleFields, WrittenAgrees
<1>12. ASSUME NEW w \in Workers, ClearCache(w) \/ Forget(w) PROVE CacheInv'
  <2>1. /\ worker'[w] = Idle
        /\ \A v \in Workers \ {w} : worker'[v] = worker[v]
    BY <1>1, <1>12, ProceedsAlone DEF ClearCache, Forget
  <2>2. \A e \in cache' : e \in cache /\ ~Clears(w, e.key)
    BY <1>12 DEF ClearCache, Forget, Clears, Is
  <2>3. NumberList' = NumberList /\ keys' = keys
    BY <1>12 DEF ClearCache, Forget, rows, lists
  <2>5. ASSUME NEW e \in cache'
        PROVE  \/ e.late
               \/ e.key \in keys' /\ e.numbers = NumberList'[e.key]
               \/ \E v \in Workers :
                     \/ worker'[v].step = "clear"
                     \/ worker'[v].step = "forget" /\ e.key \in worker'[v].key
    <3>1. CASE \E v \in Workers : Clears(v, e.key)
      <4>1. PICK v \in Workers : Clears(v, e.key)
        BY <3>1
      <4>2. worker'[v] = worker[v]
        BY <2>1, <2>2, <4>1
      <4> QED
        BY <4>1, <4>2 DEF Clears
    <3> QED
      BY <2>2, <2>3, <3>1 DEF CacheInv
  <2> QED
    BY <2>1, <2>3, <2>5, IdleFields DEF CacheInv, Clears
<1>13. ASSUME NEW w \in Workers, FillCache(w) PROVE CacheInv'
  <2>1. /\ worker'[w] = Idle
        /\ \A v \in Workers \ {w} : worker'[v] = worker[v]
    BY <1>1, <1>13, ProceedsAlone DEF FillCache
  <2>2. NumberList' = NumberList /\ keys' = keys
    BY <1>13 DEF FillCache, rows, lists
  <2>3. ASSUME NEW e \in cache'
        PROVE  \/ e \in cache
               \/ e.late
               \/ e.key \in keys /\ e.numbers = NumberList[e.key]
    <3>1. CASE e \notin cache
      <4>1. PICK k \in worker[w].key :
               e = [key |-> k, numbers |-> worker[w].numbers, late |-> worker[w].late]
        BY <1>13, <3>1 DEF FillCache
      <4>2. e.key = k /\ e.numbers = worker[w].numbers /\ e.late = worker[w].late
        BY <4>1
      <4> QED
        BY <1>13, <4>2 DEF FillCache, Is, CacheInv
    <3> QED
      BY <3>1
  <2>4. ASSUME NEW v \in Workers, NEW k, Clears(v, k) PROVE worker'[v] = worker[v]
    BY <1>13, <2>1, <2>4 DEF FillCache, Is, Clears
  <2>5. ASSUME NEW e \in cache'
        PROVE  \/ e.late
               \/ e.key \in keys' /\ e.numbers = NumberList'[e.key]
               \/ \E v \in Workers :
                     \/ worker'[v].step = "clear"
                     \/ worker'[v].step = "forget" /\ e.key \in worker'[v].key
    <3>1. CASE \E v \in Workers : Clears(v, e.key)
      <4>1. PICK v \in Workers : Clears(v, e.key)
        BY <3>1
      <4>2. worker'[v] = worker[v]
        BY <2>4, <4>1
      <4> QED
        BY <4>1, <4>2 DEF Clears
    <3> QED
      BY <2>2, <2>3, <3>1 DEF CacheInv
  <2> QED
    BY <2>1, <2>2, <2>5, IdleFields DEF CacheInv, Clears
<1> QED
  BY <1>2, <1>3, <1>4, <1>5, <1>6, <1>7, <1>8, <1>9, <1>10, <1>11, <1>12, <1>13
     DEF Next, WorkerNext

----------------------------------------------------------------------------
(* The lists settle. *)

Orderly == ~disorder /\ faults = 0

\* The deletion of p has still to be handled.
Gone(q, p) == \E i \in DOMAIN q : q[i].type = "phone.deleted" /\ q[i].phone = p

\* No other phone of p's number has.
Alone(q, p) == \A o \in PhoneIDs : NumberOf[o] = NumberOf[p] /\ Gone(q, o) => o = p

\* In order, a number has one phone; and no phone there is has joined a key, or is
\* about to, before the phones that had its number were taken from theirs.
NumbersInOrder == \A o, p \in phones : NumberOf[o] = NumberOf[p] => o = p

MentionedInOrder ==
    /\ \A k \in Keys : PhoneList[k] \subseteq usedPhones
    /\ \A i \in DOMAIN queue : queue[i].phone \in usedPhones

ListsInOrder ==
    \A k \in Keys : \A p \in PhoneList[k] :
        /\ p \in phones => Alone(queue, p) /\ NumberOf[p] \in NumberList[k]
        /\ p \notin phones => Gone(queue, p)

QueueInOrder ==
    \A i, j \in DOMAIN queue :
        /\ i < j /\ queue[i].phone \in phones
        /\ queue[i].type = "phone.updated" /\ queue[j].type = "phone.deleted"
        /\ NumberOf[queue[j].phone] = NumberOf[queue[i].phone]
        => queue[j].phone = queue[i].phone

TasksInOrder ==
    \A w \in Workers : ~worker[w].late =>
        /\ worker[w].step = "add" =>
              \A p \in worker[w].phone : p \in phones /\ Alone(queue, p)
        /\ worker[w].step = "remove" =>
              \A p \in worker[w].phone : p \in phones \/ Gone(queue, p)

InOrder == /\ NumbersInOrder /\ MentionedInOrder /\ ListsInOrder
           /\ QueueInOrder /\ TasksInOrder

OrderInv == Orderly => InOrder

\* What an event that is appended changes.
LEMMA AppendedGone ==
    ASSUME NEW q \in Seq(Events), NEW e \in Events
    PROVE  /\ DOMAIN Append(q, e) = 1..(Len(q) + 1)
           /\ DOMAIN q = 1..Len(q) /\ Len(q) \in Nat
           /\ \A i \in DOMAIN q : Append(q, e)[i] = q[i]
           /\ Append(q, e)[Len(q) + 1] = e
           /\ \A p : Gone(Append(q, e), p) <=>
                        Gone(q, p) \/ (e.type = "phone.deleted" /\ e.phone = p)
<1> DEFINE r == Append(q, e)
<1>1. /\ r \in Seq(Events) /\ Len(r) = Len(q) + 1 /\ Len(q) \in Nat
      /\ \A i \in 1..Len(q) : r[i] = q[i]
      /\ r[Len(q) + 1] = e
  BY AppendProperties, LenProperties
<1>2. DOMAIN r = 1..(Len(q) + 1) /\ DOMAIN q = 1..Len(q)
  BY <1>1, LenProperties
<1> HIDE DEF r
<1>3. ASSUME NEW p
      PROVE  Gone(r, p) <=> Gone(q, p) \/ (e.type = "phone.deleted" /\ e.phone = p)
  <2>1. ASSUME Gone(r, p) PROVE Gone(q, p) \/ (e.type = "phone.deleted" /\ e.phone = p)
    <3>1. PICK i \in DOMAIN r : r[i].type = "phone.deleted" /\ r[i].phone = p
      BY <2>1 DEF Gone
    <3>2. i = Len(q) + 1 \/ i \in DOMAIN q
      BY <1>1, <1>2
    <3> QED
      BY <1>1, <1>2, <3>1, <3>2 DEF Gone
  <2>2. ASSUME Gone(q, p) PROVE Gone(r, p)
    <3>1. PICK i \in DOMAIN q : q[i].type = "phone.deleted" /\ q[i].phone = p
      BY <2>2 DEF Gone
    <3>2. i \in DOMAIN r /\ r[i] = q[i]
      BY <1>1, <1>2
    <3> QED
      BY <3>1, <3>2 DEF Gone
  <2>3. ASSUME e.type = "phone.deleted", e.phone = p PROVE Gone(r, p)
    <3>1. Len(q) + 1 \in DOMAIN r /\ r[Len(q) + 1] = e
      BY <1>1, <1>2
    <3> QED
      BY <2>3, <3>1 DEF Gone
  <2> QED
    BY <2>1, <2>2, <2>3
<1> QED
  BY <1>1, <1>2, <1>3 DEF r

\* In order the first event is taken, and the others move up.
LEMMA TakenFirst ==
    ASSUME queue \in Seq(Events), NEW i \in DOMAIN queue, Take(i), ~disorder'
    PROVE  /\ i = 1 /\ queue # <<>> /\ ~disorder
           /\ \A j \in DOMAIN queue' : j + 1 \in DOMAIN queue /\ queue'[j] = queue[j + 1]
                                       /\ j \in Nat \ {0}
           /\ \A j \in DOMAIN queue : j # 1 => j - 1 \in DOMAIN queue' /\ queue'[j - 1] = queue[j]
                                               /\ j \in Nat \ {0}
<1>1. i = 1 /\ ~disorder /\ 1 \in DOMAIN queue
  <2>1. i \in Nat /\ i >= 1
    BY LenProperties
  <2>2. ~(disorder \/ i > 1)
    BY DEF Take
  <2>3. ~disorder
    BY <2>2
  <2>4. i = 1
    BY <2>1, <2>2
  <2> QED
    BY <2>3, <2>4
<1>2. Len(queue) \in Nat /\ DOMAIN queue = 1..Len(queue)
  BY LenProperties
<1>3. queue' = SubSeq(queue, 1, 0) \o SubSeq(queue, 2, Len(queue))
  BY <1>1 DEF Take, RemoveAt
<1> DEFINE t == SubSeq(queue, 2, Len(queue))
<1>4. /\ t \in Seq(Events) /\ Len(t) = Len(queue) - 1
      /\ \A j \in 1..(Len(queue) - 1) : t[j] = queue[j + 1]
  <2>1. 2 \in 1..Len(queue) + 1 /\ Len(queue) \in 1..Len(queue)
    BY <1>1, <1>2
  <2> QED
    BY <1>1, <1>2, <2>1, SubSeqProperties
<1>5. SubSeq(queue, 1, 0) = <<>>
  BY <1>2, SubSeqProperties
<1> HIDE DEF t
<1>6. queue' = t
  BY <1>3, <1>4, <1>5, ConcatEmptySeq DEF t
<1>7. DOMAIN t = 1..(Len(queue) - 1)
  BY <1>2, <1>4, LenProperties
<1> QED
  BY <1>1, <1>2, <1>4, <1>6, <1>7

LEMMA TakenGone ==
    ASSUME queue \in Seq(Events), NEW i \in DOMAIN queue, Take(i), ~disorder'
    PROVE  \A p : /\ Gone(queue', p) => Gone(queue, p)
                  /\ Gone(queue, p) => \/ Gone(queue', p)
                                       \/ queue[1].type = "phone.deleted" /\ queue[1].phone = p
<1> SUFFICES ASSUME NEW p
             PROVE  /\ Gone(queue', p) => Gone(queue, p)
                    /\ Gone(queue, p) =>
                          \/ Gone(queue', p)
                          \/ queue[1].type = "phone.deleted" /\ queue[1].phone = p
  OBVIOUS
<1>1. ASSUME Gone(queue', p) PROVE Gone(queue, p)
  <2>1. PICK j \in DOMAIN queue' : queue'[j].type = "phone.deleted" /\ queue'[j].phone = p
    BY <1>1 DEF Gone
  <2>2. j + 1 \in DOMAIN queue /\ queue'[j] = queue[j + 1]
    BY TakenFirst
  <2> QED
    BY <2>1, <2>2 DEF Gone
<1>2. ASSUME Gone(queue, p), ~(queue[1].type = "phone.deleted" /\ queue[1].phone = p)
      PROVE  Gone(queue', p)
  <2>1. PICK j \in DOMAIN queue : queue[j].type = "phone.deleted" /\ queue[j].phone = p
    BY <1>2 DEF Gone
  <2>2. j - 1 \in DOMAIN queue' /\ queue'[j - 1] = queue[j]
    BY <1>2, <2>1, TakenFirst
  <2> QED
    BY <2>1, <2>2 DEF Gone
<1> QED
  BY <1>1, <1>2

----------------------------------------------------------------------------
(* The actions, in order. *)

\* The lists, the phones and the events stay.
LEMMA WorkersInOrder ==
    ASSUME InOrder, UNCHANGED <<phones, usedPhones, PhoneList, NumberList, queue>>,
           \A v \in Workers :
              \/ worker'[v] = worker[v]
              \/ worker'[v].step \notin {"add", "remove"}
              \/ worker'[v].step = "remove" /\ worker'[v].phone \subseteq phones
    PROVE  InOrder'
<1>1. TasksInOrder'
  <2> SUFFICES ASSUME NEW w \in Workers, ~worker'[w].late
               PROVE  /\ worker'[w].step = "add" =>
                            \A p \in worker'[w].phone : p \in phones /\ Alone(queue, p)
                      /\ worker'[w].step = "remove" =>
                            \A p \in worker'[w].phone : p \in phones \/ Gone(queue, p)
    BY DEF TasksInOrder
  <2>1. CASE worker'[w] = worker[w]
    BY <2>1 DEF InOrder, TasksInOrder
  <2> QED
    BY <2>1
<1> QED
  BY <1>1 DEF InOrder, NumbersInOrder, MentionedInOrder, ListsInOrder, QueueInOrder

\* After a write nobody who is not late is about to write.
LEMMA WrittenInOrder ==
    ASSUME worker \in [Workers -> Tasks], NEW w \in Workers, NEW task, Wrote(w, task),
           task.step \notin {"add", "remove"}
    PROVE  TasksInOrder'
<1>1. ASSUME NEW v \in Workers, worker'[v].step \in {"add", "remove"}
      PROVE  worker'[v].late
  <2>1. worker'[v] = IF v = w THEN task
                     ELSE IF worker[v].step \in Holds
                     THEN [worker[v] EXCEPT !.late = TRUE] ELSE worker[v]
    BY DEF Wrote
  <2>2. worker[v] \in Tasks
    OBVIOUS
  <2>3. v # w /\ worker[v].step \in Holds
    BY <1>1, <2>1, <2>2 DEF Holds, Tasks
  <2>4. worker'[v] = [worker[v] EXCEPT !.late = TRUE]
    BY <2>1, <2>3
  <2> QED
    BY <2>2, <2>4 DEF Tasks
<1> QED
  BY <1>1 DEF TasksInOrder

LEMMA AddPhoneInOrder ==
    ASSUME IInv, InOrder, NEW w \in Workers, AddPhone(w), ~disorder'
    PROVE  InOrder'
<1>1. /\ worker \in [Workers -> Tasks]
      /\ PhoneList \in [Keys -> SUBSET PhoneIDs]
      /\ NumberList \in [Keys -> SUBSET Numbers]
      /\ phones \subseteq PhoneIDs /\ phones \subseteq usedPhones
  BY DEF IInv, TypeOK
<1>2. worker[w].step = "add" /\ ~worker[w].late
  BY DEF AddPhone, Is
<1>3. PICK p \in worker[w].phone :
          /\ PhoneList' = [k \in Keys |-> (PhoneList[k] \ {p}) \cup
                (IF k \in worker[w].key \cap keys THEN {p} ELSE {})]
          /\ NumberList' = [k \in Keys |-> (NumberList[k] \ {NumberOf[p]}) \cup
                (IF k \in worker[w].key \cap keys THEN {NumberOf[p]} ELSE {})]
  BY DEF AddPhone
<1>4. p \in phones /\ Alone(queue, p)
  BY <1>2 DEF InOrder, TasksInOrder
<1>5. UNCHANGED <<phones, usedPhones, queue>>
  BY DEF AddPhone
<1>6. ASSUME NEW k \in Keys
      PROVE  /\ PhoneList'[k] \subseteq PhoneList[k] \cup {p}
             /\ NumberList[k] \subseteq NumberList'[k] \cup {NumberOf[p]}
             /\ p \in PhoneList'[k] => NumberOf[p] \in NumberList'[k]
  BY <1>3
<1>7. ListsInOrder'
  <2> SUFFICES ASSUME NEW k \in Keys, NEW o \in PhoneList'[k]
               PROVE  /\ o \in phones => Alone(queue, o) /\ NumberOf[o] \in NumberList'[k]
                      /\ o \notin phones => Gone(queue, o)
    BY <1>5 DEF ListsInOrder
  <2>1. CASE o = p
    BY <1>4, <1>6, <2>1
  <2>2. CASE o # p
    <3>1. o \in PhoneList[k]
      BY <1>6, <2>2
    <3>2. o \in phones => NumberOf[o] # NumberOf[p]
      BY <1>4, <2>2 DEF InOrder, NumbersInOrder
    <3> QED
      BY <1>6, <3>1, <3>2 DEF InOrder, ListsInOrder
  <2> QED
    BY <2>1, <2>2
<1>8. MentionedInOrder'
  BY <1>1, <1>4, <1>5, <1>6 DEF InOrder, MentionedInOrder
<1>9. TasksInOrder'
  <2>1. Task("clear", {}, {}, {}).step = "clear"
    BY DEF Task
  <2> QED
    BY <1>1, <2>1, WrittenInOrder DEF AddPhone
<1> QED
  BY <1>5, <1>7, <1>8, <1>9 DEF InOrder, NumbersInOrder, QueueInOrder

LEMMA RemovePhoneInOrder ==
    ASSUME IInv, InOrder, NEW w \in Workers, RemovePhone(w), ~disorder'
    PROVE  InOrder'
<1>1. /\ worker \in [Workers -> Tasks]
      /\ PhoneList \in [Keys -> SUBSET PhoneIDs]
      /\ NumberList \in [Keys -> SUBSET Numbers]
      /\ phones \subseteq PhoneIDs
  BY DEF IInv, TypeOK
<1>2. worker[w].step = "remove" /\ ~worker[w].late
  BY DEF RemovePhone, Is
<1>3. PICK p \in worker[w].phone : Without(p, worker[w].key \cap keys)
  BY DEF RemovePhone
<1>4. p \in phones \/ Gone(queue, p)
  BY <1>2 DEF InOrder, TasksInOrder
<1>5. UNCHANGED <<phones, usedPhones, queue>>
  BY DEF RemovePhone
<1>6. ASSUME NEW k \in Keys
      PROVE  /\ PhoneList'[k] \subseteq PhoneList[k]
             /\ NumberList[k] \subseteq NumberList'[k] \cup {NumberOf[p]}
             /\ p \in PhoneList'[k] => NumberList'[k] = NumberList[k]
  BY <1>3 DEF Without
<1>7. p \in PhoneIDs
  BY <1>1 DEF Tasks, AtMostOne
<1>8. ListsInOrder'
  <2> SUFFICES ASSUME NEW k \in Keys, NEW o \in PhoneList'[k]
               PROVE  /\ o \in phones => Alone(queue, o) /\ NumberOf[o] \in NumberList'[k]
                      /\ o \notin phones => Gone(queue, o)
    BY <1>5 DEF ListsInOrder
  <2>1. o \in PhoneList[k]
    BY <1>6
  <2>2. /\ o \in phones => Alone(queue, o) /\ NumberOf[o] \in NumberList[k]
        /\ o \notin phones => Gone(queue, o)
    BY <2>1 DEF InOrder, ListsInOrder
  <2>3. CASE o = p
    BY <1>6, <2>2, <2>3
  <2>4. CASE o # p
    <3>1. o \in phones => NumberOf[o] # NumberOf[p]
      BY <1>4, <1>7, <2>2, <2>4 DEF InOrder, NumbersInOrder, Alone
    <3> QED
      BY <1>6, <2>2, <3>1
  <2> QED
    BY <2>3, <2>4
<1>9. MentionedInOrder'
  BY <1>5, <1>6 DEF InOrder, MentionedInOrder
<1>10. TasksInOrder'
  BY <1>1, IdleFields, WrittenInOrder DEF RemovePhone
<1> QED
  BY <1>5, <1>8, <1>9, <1>10 DEF InOrder, NumbersInOrder, QueueInOrder

LEMMA RowsDeletedInOrder ==
    ASSUME IInv, InOrder, NEW w \in Workers, Delete(w) \/ DeleteAllForUser(w)
    PROVE  InOrder'
<1>1. /\ worker \in [Workers -> Tasks]
      /\ PhoneList \in [Keys -> SUBSET PhoneIDs]
      /\ NumberList \in [Keys -> SUBSET Numbers]
  BY DEF IInv, TypeOK
<1>2. UNCHANGED <<phones, usedPhones, queue>>
  BY DEF Delete, DeleteAllForUser
<1>3. ASSUME NEW k \in Keys
      PROVE  \/ PhoneList'[k] = {}
             \/ PhoneList'[k] = PhoneList[k] /\ NumberList'[k] = NumberList[k]
  BY <1>1 DEF Delete, DeleteAllForUser
<1>4. ListsInOrder' /\ MentionedInOrder'
  BY <1>2, <1>3 DEF InOrder, ListsInOrder, MentionedInOrder
<1>5. TasksInOrder'
  <2>1. \A k : Task("forget", {}, {k}, {}).step = "forget"
    BY DEF Task
  <2>2. CASE Delete(w)
    <3>1. PICK k \in keys : Wrote(w, Task("forget", {}, {k}, {}))
      BY <2>2 DEF Delete
    <3> QED
      BY <1>1, <2>1, <3>1, WrittenInOrder
  <2>3. CASE DeleteAllForUser(w)
    <3>1. Wrote(w, Idle)
      BY <2>3 DEF DeleteAllForUser
    <3> QED
      BY <1>1, <3>1, IdleFields, WrittenInOrder
  <2> QED
    BY <2>2, <2>3
<1> QED
  BY <1>2, <1>4, <1>5 DEF InOrder, NumbersInOrder, QueueInOrder

\* What is still in order when the first event was taken.
LEMMA TakenInOrder ==
    ASSUME IInv, InOrder, NEW i \in DOMAIN queue, Take(i), ~disorder',
           UNCHANGED <<phones, usedPhones>>
    PROVE  /\ NumbersInOrder' /\ QueueInOrder'
           /\ \A j \in DOMAIN queue' : queue'[j].phone \in usedPhones'
<1>1. queue \in Seq(Events)
  BY DEF IInv, TypeOK
<1>2. \A j \in DOMAIN queue' : /\ j + 1 \in DOMAIN queue /\ queue'[j] = queue[j + 1]
                               /\ j \in Nat \ {0}
  BY <1>1, TakenFirst
<1>3. QueueInOrder'
  <2> SUFFICES ASSUME NEW j \in DOMAIN queue', NEW l \in DOMAIN queue', j < l,
                      queue'[j].phone \in phones,
                      queue'[j].type = "phone.updated",
                      queue'[l].type = "phone.deleted",
                      NumberOf[queue'[l].phone] = NumberOf[queue'[j].phone]
               PROVE  queue'[l].phone = queue'[j].phone
    BY DEF QueueInOrder
  <2>1. j + 1 < l + 1
    BY <1>2
  <2> QED
    BY <1>2, <2>1 DEF InOrder, QueueInOrder
<1> QED
  BY <1>2, <1>3 DEF InOrder, NumbersInOrder, MentionedInOrder

LEMMA OnPhoneDeletedInOrder ==
    ASSUME IInv, InOrder, NEW w \in Workers, OnPhoneDeleted(w), ~disorder'
    PROVE  InOrder'
<1>1. /\ worker \in [Workers -> Tasks]
      /\ PhoneList \in [Keys -> SUBSET PhoneIDs]
      /\ NumberList \in [Keys -> SUBSET Numbers]
      /\ queue \in Seq(Events)
  BY DEF IInv, TypeOK
<1>2. PICK i \in DOMAIN queue :
          /\ queue[i].type = "phone.deleted" /\ Take(i)
          /\ Without(queue[i].phone, { k \in Keys : queue[i].phone \in PhoneList[k] })
  BY DEF OnPhoneDeleted
<1>3. UNCHANGED <<phones, usedPhones>>
  BY DEF OnPhoneDeleted
<1> DEFINE q == queue[i].phone
<1>4. i = 1 /\ Gone(queue, q)
  <2>1. i = 1
    BY <1>1, <1>2, TakenFirst
  <2> QED
    BY <1>2, <2>1 DEF Gone
<1>5. q \in PhoneIDs
  <2>1. queue[i] \in Events
    BY <1>1, ElementOfSeq, LenProperties
  <2> QED
    BY <2>1 DEF Events
<1>6. \A p : /\ Gone(queue', p) => Gone(queue, p)
             /\ Gone(queue, p) => Gone(queue', p) \/ p = q
  <2>1. \A p : /\ Gone(queue', p) => Gone(queue, p)
               /\ Gone(queue, p) => \/ Gone(queue', p)
                                    \/ queue[1].type = "phone.deleted" /\ queue[1].phone = p
    BY <1>1, <1>2, TakenGone
  <2> QED
    BY <1>4, <2>1
<1>7. ASSUME NEW k \in Keys
      PROVE  /\ PhoneList'[k] \subseteq PhoneList[k] /\ q \notin PhoneList'[k]
             /\ q \notin PhoneList[k] => NumberList'[k] = NumberList[k]
             /\ NumberList[k] \subseteq NumberList'[k] \cup {NumberOf[q]}
  BY <1>1, <1>2 DEF Without
<1> HIDE DEF q
<1>8. ListsInOrder'
  <2> SUFFICES ASSUME NEW k \in Keys, NEW o \in PhoneList'[k]
               PROVE  /\ o \in phones => Alone(queue', o) /\ NumberOf[o] \in NumberList'[k]
                      /\ o \notin phones => Gone(queue', o)
    BY <1>3 DEF ListsInOrder
  <2>1. o \in PhoneList[k] /\ o # q
    BY <1>7
  <2>2. /\ o \in phones => Alone(queue, o) /\ NumberOf[o] \in NumberList[k]
        /\ o \notin phones => Gone(queue, o)
    BY <2>1 DEF InOrder, ListsInOrder
  <2>3. o \in phones => NumberOf[o] # NumberOf[q]
    BY <1>4, <1>5, <2>1, <2>2 DEF Alone
  <2>4. o \in phones => NumberOf[o] \in NumberList'[k]
    BY <1>7, <2>2, <2>3
  <2>5. o \in phones => Alone(queue', o)
    BY <1>6, <2>2 DEF Alone
  <2> QED
    BY <1>6, <2>1, <2>2, <2>4, <2>5
<1>9. MentionedInOrder'
  BY <1>2, <1>3, <1>7, TakenInOrder DEF InOrder, MentionedInOrder
<1>10. TasksInOrder'
  <2>1. Task("clear", {}, {}, {}).step = "clear"
    BY DEF Task
  <2> QED
    BY <1>1, <2>1, WrittenInOrder DEF OnPhoneDeleted
<1> QED
  BY <1>2, <1>3, <1>8, <1>9, <1>10, TakenInOrder DEF InOrder

LEMMA OnPhoneUpdatedInOrder ==
    ASSUME IInv, InOrder, NEW w \in Workers, OnPhoneUpdated(w), ~disorder'
    PROVE  InOrder'
<1>1. /\ worker \in [Workers -> Tasks]
      /\ queue \in Seq(Events)
  BY DEF IInv, TypeOK
<1>2. PICK i \in DOMAIN queue :
          /\ queue[i].type = "phone.updated" /\ Take(i)
          /\ IF queue[i].phone \in phones /\ queue[i].key \subseteq keys
             THEN Proceed(w, Task("add", {queue[i].phone}, queue[i].key, {}))
             ELSE UNCHANGED worker
  BY DEF OnPhoneUpdated
<1>3. UNCHANGED <<phones, usedPhones, PhoneList, NumberList>>
  BY DEF OnPhoneUpdated, rows, lists
<1>4. i = 1
  BY <1>1, <1>2, TakenFirst
<1>5. \A p : Gone(queue', p) <=> Gone(queue, p)
  <2>1. \A p : /\ Gone(queue', p) => Gone(queue, p)
               /\ Gone(queue, p) => \/ Gone(queue', p)
                                    \/ queue[1].type = "phone.deleted" /\ queue[1].phone = p
    BY <1>1, <1>2, TakenGone
  <2> QED
    BY <1>2, <1>4, <2>1
<1>6. \A p : Alone(queue', p) <=> Alone(queue, p)
  BY <1>5 DEF Alone
<1>7. ListsInOrder'
  BY <1>3, <1>5, <1>6 DEF InOrder, ListsInOrder
<1>8. MentionedInOrder'
  BY <1>2, <1>3, TakenInOrder DEF InOrder, MentionedInOrder
<1>9. ASSUME queue[1].phone \in phones
      PROVE  Alone(queue, queue[1].phone)
  <2> SUFFICES ASSUME NEW o \in PhoneIDs, NumberOf[o] = NumberOf[queue[1].phone],
                      Gone(queue, o)
               PROVE  o = queue[1].phone
    BY DEF Alone
  <2>1. PICK j \in DOMAIN queue : queue[j].type = "phone.deleted" /\ queue[j].phone = o
    BY DEF Gone
  <2>2. 1 < j
    <3>1. j \in Nat /\ j >= 1
      BY <1>1, LenProperties
    <3>2. j # 1
      BY <1>2, <1>4, <2>1
    <3> QED
      BY <3>1, <3>2
  <2> QED
    BY <1>2, <1>4, <1>9, <2>1, <2>2 DEF InOrder, QueueInOrder
<1>10. TasksInOrder'
  <2> SUFFICES ASSUME NEW v \in Workers, ~worker'[v].late
               PROVE  /\ worker'[v].step = "add" =>
                            \A p \in worker'[v].phone : p \in phones /\ Alone(queue, p)
                      /\ worker'[v].step = "remove" =>
                            \A p \in worker'[v].phone : p \in phones \/ Gone(queue, p)
    BY <1>3, <1>5, <1>6 DEF TasksInOrder
  <2>1. CASE worker'[v] = worker[v]
    BY <2>1 DEF InOrder, TasksInOrder
  <2>2. CASE worker'[v] # worker[v]
    <3>1. /\ queue[1].phone \in phones
          /\ Proceed(w, Task("add", {queue[1].phone}, queue[1].key, {}))
      BY <1>2, <1>4, <2>2
    <3>2. v = w
      BY <1>1, <2>2, <3>1 DEF Proceed
    <3>3. worker'[w].step = "add" /\ worker'[w].phone = {queue[1].phone}
      BY <1>1, <3>1 DEF Proceed, Task
    <3> QED
      BY <1>9, <3>1, <3>2, <3>3
  <2> QED
    BY <2>1, <2>2
<1> QED
  BY <1>2, <1>3, <1>7, <1>8, <1>10, TakenInOrder DEF InOrder

LEMMA LoginInOrder ==
    ASSUME IInv, InOrder, Login, faults' = faults
    PROVE  InOrder'
<1>1. /\ queue \in Seq(Events) /\ faults \in Nat
      /\ phones \subseteq usedPhones /\ usedPhones \subseteq PhoneIDs
      /\ keys \subseteq Keys /\ cache \subseteq Entries
      /\ PhoneList \in [Keys -> SUBSET PhoneIDs]
  BY DEF IInv, TypeOK
<1>2. PICK k \in keys \cup CachedKeys, n \in Numbers :
          \E p \in PhoneIDs : /\ \/ p \in phones
                                 \/ /\ p \in PhoneIDs \ usedPhones
                                    /\ \A o \in phones : NumberOf[o] # NumberOf[p]
                              /\ phones' = phones \cup {p}
                              /\ usedPhones' = usedPhones \cup {p}
                              /\ Dispatch(Updated(p, k))
  BY <1>1 DEF Login
<1>3. PICK p \in PhoneIDs : /\ \/ p \in phones
                               \/ /\ p \in PhoneIDs \ usedPhones
                                  /\ \A o \in phones : NumberOf[o] # NumberOf[p]
                            /\ phones' = phones \cup {p}
                            /\ usedPhones' = usedPhones \cup {p}
                            /\ Dispatch(Updated(p, k))
  BY <1>2
<1> DEFINE e == Updated(p, k)
<1>4. k \in Keys
  BY <1>1 DEF CachedKeys, Entries
<1>5. e \in Events /\ e.type = "phone.updated" /\ e.phone = p
  BY <1>4 DEF Updated, Events, AtMostOne
<1>6. queue' = Append(queue, e)
  BY <1>1, <1>3 DEF Dispatch, Fault
<1>7. UNCHANGED <<PhoneList, NumberList, worker>>
  BY DEF Login, lists
<1> HIDE DEF e
<1>8. /\ DOMAIN queue' = 1..(Len(queue) + 1)
      /\ DOMAIN queue = 1..Len(queue) /\ Len(queue) \in Nat
      /\ \A i \in DOMAIN queue : queue'[i] = queue[i]
      /\ queue'[Len(queue) + 1] = e
  BY <1>1, <1>5, <1>6, AppendedGone
<1>9. \A o : Gone(queue', o) <=> Gone(queue, o)
  <2>1. \A o : Gone(queue', o) <=>
                  Gone(queue, o) \/ (e.type = "phone.deleted" /\ e.phone = o)
    BY <1>1, <1>5, <1>6, AppendedGone
  <2> QED
    BY <1>5, <2>1
<1>10. \A o : Alone(queue', o) <=> Alone(queue, o)
  BY <1>9 DEF Alone
<1>11. NumbersInOrder'
  BY <1>3 DEF InOrder, NumbersInOrder
<1>12. MentionedInOrder'
  <2>1. \A i \in DOMAIN queue' : queue'[i].phone \in usedPhones'
    <3> SUFFICES ASSUME NEW i \in DOMAIN queue' PROVE queue'[i].phone \in usedPhones'
      OBVIOUS
    <3>1. i \in DOMAIN queue \/ i = Len(queue) + 1
      BY <1>8
    <3> QED
      BY <1>3, <1>5, <1>8, <3>1 DEF InOrder, MentionedInOrder
  <2> QED
    BY <1>3, <1>7, <2>1 DEF InOrder, MentionedInOrder
<1>13. \A o \in usedPhones : o \in phones' <=> o \in phones
  BY <1>3
<1>14. ListsInOrder'
  <2> SUFFICES ASSUME NEW j \in Keys, NEW o \in PhoneList[j]
               PROVE  /\ o \in phones' => Alone(queue', o) /\ NumberOf[o] \in NumberList[j]
                      /\ o \notin phones' => Gone(queue', o)
    BY <1>7 DEF ListsInOrder
  <2>1. o \in phones' <=> o \in phones
    BY <1>13 DEF InOrder, MentionedInOrder
  <2> QED
    BY <1>9, <1>10, <2>1 DEF InOrder, ListsInOrder
<1>15. QueueInOrder'
  <2> SUFFICES ASSUME NEW j \in DOMAIN queue', NEW l \in DOMAIN queue', j < l,
                      queue'[j].phone \in phones',
                      queue'[j].type = "phone.updated",
                      queue'[l].type = "phone.deleted",
                      NumberOf[queue'[l].phone] = NumberOf[queue'[j].phone]
               PROVE  queue'[l].phone = queue'[j].phone
    BY DEF QueueInOrder
  <2>1. l \in DOMAIN queue
    BY <1>5, <1>8
  <2>2. j \in DOMAIN queue
    BY <1>8, <2>1
  <2>3. queue[j].phone \in phones
    BY <1>8, <1>13, <2>2 DEF InOrder, MentionedInOrder
  <2> QED
    BY <1>8, <2>1, <2>2, <2>3 DEF InOrder, QueueInOrder
<1>16. TasksInOrder'
  BY <1>3, <1>7, <1>9, <1>10 DEF InOrder, TasksInOrder
<1> QED
  BY <1>11, <1>12, <1>14, <1>15, <1>16 DEF InOrder

LEMMA DeletePhoneInOrder ==
    ASSUME IInv, InOrder, DeletePhone, faults' = faults
    PROVE  InOrder'
<1>1. /\ queue \in Seq(Events) /\ faults \in Nat
      /\ phones \subseteq usedPhones /\ usedPhones \subseteq PhoneIDs
      /\ PhoneList \in [Keys -> SUBSET PhoneIDs]
      /\ worker \in [Workers -> Tasks]
  BY DEF IInv, TypeOK
<1>2. PICK p \in phones :
          /\ phones' = phones \ {p}
          /\ Dispatch(Deleted(p))
          /\ worker' = [v \in Workers |->
                IF Is(v, "add") /\ p \in worker[v].phone
                THEN [worker[v] EXCEPT !.late = TRUE] ELSE worker[v]]
  BY DEF DeletePhone
<1> DEFINE e == Deleted(p)
<1>3. p \in PhoneIDs /\ p \in usedPhones
  BY <1>1
<1>4. e \in Events /\ e.type = "phone.deleted" /\ e.phone = p
  BY <1>3 DEF Deleted, Events, AtMostOne
<1>5. queue' = Append(queue, e)
  BY <1>1, <1>2 DEF Dispatch, Fault
<1>6. UNCHANGED <<PhoneList, NumberList, usedPhones>>
  BY DEF DeletePhone, lists
<1> HIDE DEF e
<1>7. /\ DOMAIN queue' = 1..(Len(queue) + 1)
      /\ DOMAIN queue = 1..Len(queue) /\ Len(queue) \in Nat
      /\ \A i \in DOMAIN queue : queue'[i] = queue[i]
      /\ queue'[Len(queue) + 1] = e
  BY <1>1, <1>4, <1>5, AppendedGone
<1>8. \A o : Gone(queue', o) <=> Gone(queue, o) \/ o = p
  <2>1. \A o : Gone(queue', o) <=>
                  Gone(queue, o) \/ (e.type = "phone.deleted" /\ e.phone = o)
    BY <1>1, <1>4, <1>5, AppendedGone
  <2> QED
    BY <1>4, <2>1
<1>9. ASSUME NEW o \in phones, o # p, Alone(queue, o)
      PROVE  Alone(queue', o)
  <2>1. NumberOf[o] # NumberOf[p]
    BY <1>9 DEF InOrder, NumbersInOrder
  <2> QED
    BY <1>8, <1>9, <2>1 DEF Alone
<1>10. NumbersInOrder'
  BY <1>2 DEF InOrder, NumbersInOrder
<1>11. MentionedInOrder'
  <2>1. \A i \in DOMAIN queue' : queue'[i].phone \in usedPhones
    <3> SUFFICES ASSUME NEW i \in DOMAIN queue' PROVE queue'[i].phone \in usedPhones
      OBVIOUS
    <3>1. i \in DOMAIN queue \/ i = Len(queue) + 1
      BY <1>7
    <3> QED
      BY <1>3, <1>4, <1>7, <3>1 DEF InOrder, MentionedInOrder
  <2> QED
    BY <1>6, <2>1 DEF InOrder, MentionedInOrder
<1>12. ListsInOrder'
  <2> SUFFICES ASSUME NEW j \in Keys, NEW o \in PhoneList[j]
               PROVE  /\ o \in phones' => Alone(queue', o) /\ NumberOf[o] \in NumberList[j]
                      /\ o \notin phones' => Gone(queue', o)
    BY <1>6 DEF ListsInOrder
  <2>1. /\ o \in phones => Alone(queue, o) /\ NumberOf[o] \in NumberList[j]
        /\ o \notin phones => Gone(queue, o)
    BY DEF InOrder, ListsInOrder
  <2>2. CASE o = p
    BY <1>2, <1>8, <2>2
  <2>3. CASE o # p
    BY <1>2, <1>8, <1>9, <2>1, <2>3
  <2> QED
    BY <2>2, <2>3
<1>13. QueueInOrder'
  <2> SUFFICES ASSUME NEW j \in DOMAIN queue', NEW l \in DOMAIN queue', j < l,
                      queue'[j].phone \in phones',
                      queue'[j].type = "phone.updated",
                      queue'[l].type = "phone.deleted",
                      NumberOf[queue'[l].phone] = NumberOf[queue'[j].phone]
               PROVE  queue'[l].phone = queue'[j].phone
    BY DEF QueueInOrder
  <2>1. j \in DOMAIN queue /\ queue[j] = queue'[j] /\ queue[j].phone \in phones
    BY <1>2, <1>7
  <2>2. CASE l \in DOMAIN queue
    BY <1>7, <2>1, <2>2 DEF InOrder, QueueInOrder
  <2>3. CASE l = Len(queue) + 1
    BY <1>4, <1>7, <2>1, <2>3 DEF InOrder, NumbersInOrder
  <2> QED
    BY <1>7, <2>2, <2>3
<1>14. TasksInOrder'
  <2> SUFFICES ASSUME NEW v \in Workers, ~worker'[v].late
               PROVE  /\ worker'[v].step = "add" =>
                            \A o \in worker'[v].phone : o \in phones' /\ Alone(queue', o)
                      /\ worker'[v].step = "remove" =>
                            \A o \in worker'[v].phone : o \in phones' \/ Gone(queue', o)
    BY DEF TasksInOrder
  <2>1. worker[v] \in Tasks
    BY <1>1
  <2>2. worker'[v] = worker[v] /\ ~(worker[v].step = "add" /\ p \in worker[v].phone)
    BY <1>2, <2>1 DEF Is, Tasks
  <2>3. ASSUME worker[v].step = "add", NEW o \in worker[v].phone
        PROVE  o \in phones' /\ Alone(queue', o)
    BY <1>2, <1>9, <2>2, <2>3 DEF InOrder, TasksInOrder
  <2>4. ASSUME worker[v].step = "remove", NEW o \in worker[v].phone
        PROVE  o \in phones' \/ Gone(queue', o)
    BY <1>2, <1>8, <2>2, <2>4 DEF InOrder, TasksInOrder
  <2> QED
    BY <2>2, <2>3, <2>4
<1> QED
  BY <1>10, <1>11, <1>12, <1>13, <1>14 DEF InOrder

\* The steps that write no row.
LEMMA UnwrittenInOrder ==
    ASSUME IInv, InOrder, NEW w \in Workers,
           \/ ClearCache(w) \/ Forget(w) \/ FillCache(w) \/ LoadAuthContext(w)
           \/ Create(w) \/ LoadForRemove(w)
    PROVE  InOrder'
<1>1. worker \in [Workers -> Tasks]
  BY DEF IInv, TypeOK
<1>2. UNCHANGED <<phones, usedPhones, PhoneList, NumberList, queue>>
  BY DEF ClearCache, Forget, FillCache, LoadAuthContext, Create, LoadForRemove,
         rows, lists
<1>3. CASE ClearCache(w) \/ Forget(w) \/ FillCache(w)
  <2>1. worker'[w].step = "idle" /\ \A v \in Workers \ {w} : worker'[v] = worker[v]
    BY <1>1, <1>3, IdleFields, ProceedsAlone DEF ClearCache, Forget, FillCache
  <2> QED
    BY <1>2, <2>1, WorkersInOrder
<1>4. CASE LoadAuthContext(w)
  <2>1. PICK k \in keys : Proceed(w, Task("fill", {}, {k}, NumberList[k]))
    BY <1>4 DEF LoadAuthContext
  <2>2. worker'[w].step = "fill" /\ \A v \in Workers \ {w} : worker'[v] = worker[v]
    BY <1>1, <2>1 DEF Proceed, Task
  <2> QED
    BY <1>2, <2>2, WorkersInOrder
<1>5. CASE Create(w)
  BY <1>2, <1>5, WorkersInOrder DEF Create
<1>6. CASE LoadForRemove(w)
  <2>1. PICK k \in keys, p \in phones : Proceed(w, Task("remove", {p}, {k}, {}))
    BY <1>6 DEF LoadForRemove
  <2>2. /\ worker'[w].step = "remove" /\ worker'[w].phone = {p}
        /\ \A v \in Workers \ {w} : worker'[v] = worker[v]
    BY <1>1, <2>1 DEF Proceed, Task
  <2> QED
    BY <1>2, <2>2, WorkersInOrder
<1> QED
  BY <1>3, <1>4, <1>5, <1>6

LEMMA OrderIsKept ==
    ASSUME IInv, OrderInv, [Next]_vars
    PROVE  OrderInv'
<1> SUFFICES ASSUME ~disorder', faults' = 0 PROVE InOrder'
  BY DEF OrderInv, Orderly
<1>1. disorder \in BOOLEAN /\ faults \in Nat
  BY DEF IInv, TypeOK
<1>2. CASE UNCHANGED vars \/ Expire
  <2>1. /\ UNCHANGED <<phones, usedPhones, PhoneList, NumberList, queue, worker>>
        /\ UNCHANGED <<disorder, faults>>
    BY <1>2 DEF vars, Expire, rows, lists
  <2> QED
    BY <2>1, WorkersInOrder DEF OrderInv, Orderly
<1>3. CASE Login
  <2>1. UNCHANGED <<disorder, faults>>
    BY <1>1, <1>3 DEF Login, Dispatch, Fault
  <2> QED
    BY <1>3, <2>1, LoginInOrder DEF OrderInv, Orderly
<1>4. CASE DeletePhone
  <2>1. UNCHANGED <<disorder, faults>>
    BY <1>1, <1>4 DEF DeletePhone, Dispatch, Fault
  <2> QED
    BY <1>4, <2>1, DeletePhoneInOrder DEF OrderInv, Orderly
<1>5. ~Repeat
  BY <1>1 DEF Repeat, Fault
<1>6. ASSUME NEW w \in Workers, OnPhoneUpdated(w) \/ OnPhoneDeleted(w)
      PROVE  InOrder'
  <2>1. ~disorder /\ faults = 0
    BY <1>6 DEF OnPhoneUpdated, OnPhoneDeleted, Take
  <2> QED
    BY <1>6, <2>1, OnPhoneUpdatedInOrder, OnPhoneDeletedInOrder DEF OrderInv, Orderly
<1>7. ASSUME NEW w \in Workers, AddPhone(w) \/ RemovePhone(w)
      PROVE  InOrder'
  <2>1. ~disorder /\ faults = 0
    BY <1>7 DEF AddPhone, RemovePhone
  <2> QED
    BY <1>7, <2>1, AddPhoneInOrder, RemovePhoneInOrder DEF OrderInv, Orderly
<1>8. ASSUME NEW w \in Workers, Delete(w) \/ DeleteAllForUser(w)
      PROVE  InOrder'
  <2>1. ~disorder /\ faults = 0
    BY <1>8 DEF Delete, DeleteAllForUser
  <2> QED
    BY <1>8, <2>1, RowsDeletedInOrder DEF OrderInv, Orderly
<1>9. ASSUME NEW w \in Workers,
             \/ ClearCache(w) \/ Forget(w) \/ FillCache(w) \/ LoadAuthContext(w)
             \/ Create(w) \/ LoadForRemove(w)
      PROVE  InOrder'
  <2>1. ~disorder /\ faults = 0
    BY <1>9 DEF ClearCache, Forget, FillCache, LoadAuthContext, Create, LoadForRemove
  <2> QED
    BY <1>9, <2>1, UnwrittenInOrder DEF OrderInv, Orderly
<1> QED
  BY <1>2, <1>3, <1>4, <1>5, <1>6, <1>7, <1>8, <1>9 DEF Next, WorkerNext

\* Once all is done the cache allows what the keys allow; and where nothing came
\* out of order or went wrong, a key lists phones that are there and allows each
\* of their numbers: for any keys, phones, numbers, requests and handlers.
THEOREM KeysSettled == Spec => []KeysSettle
<1>1. Init => CacheInv /\ OrderInv
  <2> SUFFICES ASSUME Init PROVE CacheInv /\ OrderInv
    OBVIOUS
  <2>1. /\ cache = {} /\ phones = {} /\ DOMAIN queue = {}
        /\ \A w \in Workers : worker[w].step = "idle"
        /\ \A k \in Keys : PhoneList[k] = {}
    BY IdleFields DEF Init
  <2> QED
    BY <2>1 DEF CacheInv, OrderInv, InOrder, NumbersInOrder, MentionedInOrder,
                ListsInOrder, QueueInOrder, TasksInOrder
<1>2. IInv /\ CacheInv /\ OrderInv /\ [Next]_vars => (IInv /\ CacheInv /\ OrderInv)'
  BY NextKeeps, CacheAgrees, OrderIsKept
<1>3. IInv /\ CacheInv /\ OrderInv => KeysSettle
  <2> SUFFICES ASSUME IInv, CacheInv, OrderInv, AllIdle
               PROVE  /\ \A e \in cache :
                            e.late \/ (e.key \in keys /\ e.numbers = NumberList[e.key])
                      /\ queue = <<>> /\ ~disorder /\ faults = 0 =>
                            \A k \in Keys :
                               /\ PhoneList[k] \subseteq phones
                               /\ NumberList[k] = { NumberOf[p] : p \in PhoneList[k] }
    BY DEF KeysSettle
  <2>1. \A w \in Workers : \A k : ~Clears(w, k)
    BY IdleFields DEF AllIdle, Clears
  <2>2. ASSUME queue = <<>>, ~disorder, faults = 0, NEW k \in Keys
        PROVE  /\ PhoneList[k] \subseteq phones
               /\ NumberList[k] = { NumberOf[p] : p \in PhoneList[k] }
    <3>1. \A p : ~Gone(queue, p)
      BY <2>2 DEF Gone
    <3>2. \A p \in PhoneList[k] : p \in phones /\ NumberOf[p] \in NumberList[k]
      BY <2>2, <3>1 DEF OrderInv, Orderly, InOrder, ListsInOrder
    <3>3. NumberList[k] \subseteq { NumberOf[p] : p \in PhoneList[k] }
      BY DEF IInv, OneKeyPerPhone
    <3> QED
      BY <3>2, <3>3
  <2> QED
    BY <2>1, <2>2 DEF CacheInv
<1> QED
  BY <1>1, <1>2, <1>3, InitHolds, PTL DEF Spec
=============================================================================
