------------------------------ MODULE PhoneKeys ------------------------------
(****************************************************************************)
(* The phone API keys of one user: the keys with which phones log in, the   *)
(* phones and numbers that each key lists, and the cache of what a key      *)
(* allows (api/pkg/services/phone_api_key_service.go and its repository).   *)
(*                                                                          *)
(* A phone that logs in with a key is added to it by a handler of the       *)
(* phone.updated event, and is taken from it by a handler of phone.deleted; *)
(* requests and handlers interleave between what they read and what they    *)
(* write.  A number whose phone was deleted and that logs in again gets a   *)
(* phone with a new ID.  The rows of phones themselves are PhoneCache's.    *)
(****************************************************************************)
EXTENDS Naturals, FiniteSets, SequencesExt

CONSTANTS
    Keys,           \* IDs of keys
    PhoneIDs,       \* IDs of phones
    Numbers,        \* phone numbers
    NumberOf,       \* NumberOf[p]: the number that p is a phone of
    Workers,        \* requests and handlers that run at the same time
    MaxLogins,      \* bound on the logins
    MaxRemovals,    \* bound on the removals by the user
    MaxFaults       \* bound on the things that go wrong

ASSUME KeyAssumption ==
    /\ NumberOf \in [PhoneIDs -> Numbers]
    /\ IsFiniteSet(Keys) /\ IsFiniteSet(Workers)
    /\ {MaxLogins, MaxRemovals, MaxFaults} \subseteq Nat

VARIABLES
    phones,         \* the phones there are
    usedPhones,     \* history: IDs of phones given so far
    keys,           \* the keys there are
    usedKeys,       \* history: IDs of keys given so far
    PhoneList,      \* PhoneList[k]: the phone_ids of k
    NumberList,     \* NumberList[k]: the phone_numbers of k
    cache,          \* the entries of the cache
    queue,          \* events waiting, in the order of their dispatch
    worker,         \* worker[w]: what w is in the middle of
    logins,         \* history: logins so far
    removals,       \* history: removals by the user so far
    disorder,       \* history: an event or a request overtook another
    faults          \* history: things that have gone wrong so far

lists == <<PhoneList, NumberList>>
rows  == <<phones, usedPhones, keys, usedKeys, lists>>
counts == <<logins, removals>>
vars  == <<rows, cache, queue, worker, counts, disorder, faults>>

\* Events and tasks name a phone or none, and a key or none.
AtMostOne(S) == {{}} \cup { {x} : x \in S }

Events == [type : {"phone.updated", "phone.deleted"}, phone : PhoneIDs,
           key : AtMostOne(Keys)]
Updated(p, k) == [type |-> "phone.updated", phone |-> p, key |-> {k}]
Deleted(p)    == [type |-> "phone.deleted", phone |-> p, key |-> {}]

\* An entry holds the numbers that its key allows; it is late when the row was
\* written after it was read.
Entries == [key : Keys, numbers : SUBSET Numbers, late : BOOLEAN]

CachedKeys == { e.key : e \in cache }

Steps == {"idle", "add", "remove", "forget", "clear", "fill"}
Task(step, p, k, numbers) ==
    [step |-> step, phone |-> p, key |-> k, numbers |-> numbers, late |-> FALSE]
Idle == Task("idle", {}, {}, {})
Tasks == [step : Steps, phone : AtMostOne(PhoneIDs), key : AtMostOne(Keys),
          numbers : SUBSET Numbers, late : BOOLEAN]

TypeOK ==
    /\ phones \subseteq usedPhones /\ usedPhones \subseteq PhoneIDs
    /\ keys \subseteq usedKeys /\ usedKeys \subseteq Keys
    /\ PhoneList \in [Keys -> SUBSET PhoneIDs]
    /\ NumberList \in [Keys -> SUBSET Numbers]
    /\ cache \subseteq Entries /\ \A d, e \in cache : d.key = e.key => d = e
    /\ queue \in Seq(Events)
    /\ worker \in [Workers -> Tasks]
    /\ logins \in 0..MaxLogins /\ removals \in 0..MaxRemovals
    /\ disorder \in BOOLEAN
    /\ faults \in 0..MaxFaults

Init ==
    /\ phones = {} /\ usedPhones = {}
    /\ keys = {} /\ usedKeys = {}
    /\ PhoneList = [k \in Keys |-> {}]
    /\ NumberList = [k \in Keys |-> {}]
    /\ cache = {}
    /\ queue = <<>>
    /\ worker = [w \in Workers |-> Idle]
    /\ logins = 0 /\ removals = 0
    /\ disorder = FALSE
    /\ faults = 0

Fault == faults < MaxFaults /\ faults' = faults + 1

----------------------------------------------------------------------------
(* Requests and handlers. *)

IsIdle(w)   == worker[w] = Idle
Is(w, step) == worker[w].step = step
Proceed(w, task) == worker' = [worker EXCEPT ![w] = task]

\* A row is written: whoever holds what it read before is late.
Holds == {"add", "remove", "fill"}
Wrote(w, task) ==
    worker' = [v \in Workers |->
        IF v = w THEN task
        ELSE IF worker[v].step \in Holds THEN [worker[v] EXCEPT !.late = TRUE]
        ELSE worker[v]]

\* Every write of a list names a phone, its number, and the keys it is of.
Without(p, ks) ==
    /\ PhoneList' = [k \in Keys |-> IF k \in ks THEN PhoneList[k] \ {p} ELSE PhoneList[k]]
    /\ NumberList' = [k \in Keys |->
          IF k \in ks THEN NumberList[k] \ {NumberOf[p]} ELSE NumberList[k]]

Dispatch(event) ==
    \/ queue' = Append(queue, event) /\ UNCHANGED faults
    \/ Fault /\ UNCHANGED queue

----------------------------------------------------------------------------
(* The phone: UpsertFCMToken with a key, and the deletion of the phone. *)

\* The number's phone is found, or created with a new ID.  The key is one that
\* LoadAuthContext knows.
Login ==
    \E k \in keys \cup CachedKeys, n \in Numbers :
        LET found == { p \in phones : NumberOf[p] = n }
            new   == { p \in PhoneIDs \ usedPhones : NumberOf[p] = n }
        IN  /\ logins < MaxLogins /\ logins' = logins + 1
            /\ \E p \in IF found # {} THEN found ELSE new :
                  /\ phones' = phones \cup {p}
                  /\ usedPhones' = usedPhones \cup {p}
                  /\ Dispatch(Updated(p, k))
            /\ UNCHANGED <<keys, usedKeys, lists, cache, worker, removals, disorder>>

DeletePhone ==
    \E p \in phones :
        /\ phones' = phones \ {p}
        /\ Dispatch(Deleted(p))
        /\ worker' = [v \in Workers |->
              IF Is(v, "add") /\ p \in worker[v].phone
              THEN [worker[v] EXCEPT !.late = TRUE] ELSE worker[v]]
        /\ UNCHANGED <<usedPhones, keys, usedKeys, lists, cache, counts, disorder>>

----------------------------------------------------------------------------
(* Events. *)

\* An event is taken from the queue, at its turn or not.
Take(i) ==
    /\ queue' = RemoveAt(queue, i)
    /\ disorder' = (disorder \/ i > 1)

\* onPhoneUpdated loads the phone and the key; AddPhone follows.
OnPhoneUpdated(w) ==
    /\ IsIdle(w)
    /\ \E i \in DOMAIN queue :
          LET e == queue[i] IN
          /\ e.type = "phone.updated"
          /\ Take(i)
          /\ IF e.phone \in phones /\ e.key \subseteq keys
             THEN Proceed(w, Task("add", {e.phone}, e.key, {}))
             ELSE UNCHANGED worker
    /\ UNCHANGED <<rows, cache, counts, faults>>

\* Mutant: the phone is not taken from the keys it was of.
AddPhoneToo(w) ==
    /\ Is(w, "add")
    /\ \E p \in worker[w].phone :
          /\ PhoneList' = [k \in Keys |->
                PhoneList[k] \cup (IF k \in worker[w].key \cap keys THEN {p} ELSE {})]
          /\ NumberList' = [k \in Keys |->
                NumberList[k] \cup
                   (IF k \in worker[w].key \cap keys THEN {NumberOf[p]} ELSE {})]
    /\ disorder' = (disorder \/ worker[w].late)
    /\ Wrote(w, Task("clear", {}, {}, {}))
    /\ UNCHANGED <<phones, usedPhones, keys, usedKeys, cache, queue, counts, faults>>

\* One transaction: the phone leaves every key of the user and joins this one,
\* if it is still there.
AddPhone(w) ==
    /\ Is(w, "add")
    /\ \E p \in worker[w].phone :
          LET joined == worker[w].key \cap keys IN
          /\ PhoneList' = [k \in Keys |->
                (PhoneList[k] \ {p}) \cup (IF k \in joined THEN {p} ELSE {})]
          /\ NumberList' = [k \in Keys |->
                (NumberList[k] \ {NumberOf[p]})
                   \cup (IF k \in joined THEN {NumberOf[p]} ELSE {})]
    /\ disorder' = (disorder \/ worker[w].late)
    /\ Wrote(w, Task("clear", {}, {}, {}))
    /\ UNCHANGED <<phones, usedPhones, keys, usedKeys, cache, queue, counts, faults>>

\* Mutant: the number stays.
OnPhoneDeletedByID(w) ==
    /\ IsIdle(w)
    /\ \E i \in DOMAIN queue :
          /\ queue[i].type = "phone.deleted"
          /\ Take(i)
          /\ PhoneList' = [k \in Keys |-> PhoneList[k] \ {queue[i].phone}]
    /\ Wrote(w, Task("clear", {}, {}, {}))
    /\ UNCHANGED <<phones, usedPhones, keys, usedKeys, NumberList, cache, counts,
                   faults>>

\* RemovePhoneByID: one statement, for the keys that list the phone.
OnPhoneDeleted(w) ==
    /\ IsIdle(w)
    /\ \E i \in DOMAIN queue :
          LET p == queue[i].phone IN
          /\ queue[i].type = "phone.deleted"
          /\ Take(i)
          /\ Without(p, { k \in Keys : p \in PhoneList[k] })
    /\ Wrote(w, Task("clear", {}, {}, {}))
    /\ UNCHANGED <<phones, usedPhones, keys, usedKeys, cache, counts, faults>>

\* cache.Clear, after the statement.
ClearCache(w) ==
    /\ Is(w, "clear")
    /\ cache' = {}
    /\ Proceed(w, Idle)
    /\ UNCHANGED <<rows, queue, counts, disorder, faults>>

----------------------------------------------------------------------------
(* Requests of the user. *)

\* store; the limit of the user's plan is left out.
Create(w) ==
    /\ IsIdle(w)
    /\ \E k \in Keys \ usedKeys :
          keys' = keys \cup {k} /\ usedKeys' = usedKeys \cup {k}
    /\ UNCHANGED <<phones, usedPhones, lists, cache, queue, worker, counts, disorder,
                   faults>>

\* RemovePhone loads a phone and a key, whether the one is of the other or not.
LoadForRemove(w) ==
    /\ IsIdle(w)
    /\ removals < MaxRemovals /\ removals' = removals + 1
    /\ \E k \in keys, p \in phones :
          Proceed(w, Task("remove", {p}, {k}, {}))
    /\ UNCHANGED <<rows, cache, queue, logins, disorder, faults>>

\* The cache is left to expire.
RemovePhone(w) ==
    /\ Is(w, "remove")
    /\ \E p \in worker[w].phone : Without(p, worker[w].key \cap keys)
    /\ cache' = { [e EXCEPT !.late = @ \/ e.key \in worker[w].key] : e \in cache }
    /\ disorder' = (disorder \/ worker[w].late)
    /\ Wrote(w, Idle)
    /\ UNCHANGED <<phones, usedPhones, keys, usedKeys, queue, counts, faults>>

\* The lists go with the row.
Delete(w) ==
    /\ IsIdle(w)
    /\ \E k \in keys :
          /\ keys' = keys \ {k}
          /\ PhoneList' = [PhoneList EXCEPT ![k] = {}]
          /\ NumberList' = [NumberList EXCEPT ![k] = {}]
          /\ Wrote(w, Task("forget", {}, {k}, {}))
    /\ UNCHANGED <<phones, usedPhones, usedKeys, cache, queue, counts, disorder,
                   faults>>

\* Mutant: the entry stays.
ForgetNot(w) ==
    /\ Is(w, "forget")
    /\ Proceed(w, Idle)
    /\ UNCHANGED <<rows, cache, queue, counts, disorder, faults>>

\* cache.Del, the end of Delete.
Forget(w) ==
    /\ Is(w, "forget")
    /\ cache' = { e \in cache : e.key \notin worker[w].key }
    /\ Proceed(w, Idle)
    /\ UNCHANGED <<rows, queue, counts, disorder, faults>>

\* The account is deleted, and its keys with it; the cache is left to expire.
DeleteAllForUser(w) ==
    /\ IsIdle(w)
    /\ keys # {} /\ keys' = {}
    /\ PhoneList' = [k \in Keys |-> {}]
    /\ NumberList' = [k \in Keys |-> {}]
    /\ cache' = { [e EXCEPT !.late = TRUE] : e \in cache }
    /\ Wrote(w, Idle)
    /\ UNCHANGED <<phones, usedPhones, usedKeys, queue, counts, disorder, faults>>

----------------------------------------------------------------------------
(* LoadAuthContext and the cache. *)

\* The entry of the cache is the answer; without one the row is read ...
LoadAuthContext(w) ==
    /\ IsIdle(w)
    /\ \E k \in keys \ CachedKeys :
          Proceed(w, Task("fill", {}, {k}, NumberList[k]))
    /\ UNCHANGED <<rows, cache, queue, counts, disorder, faults>>

\* Mutant: next to an entry that was stored meanwhile.
FillCacheBeside(w) ==
    /\ Is(w, "fill")
    /\ \E k \in worker[w].key :
          cache' = cache \cup
             {[key |-> k, numbers |-> worker[w].numbers, late |-> worker[w].late]}
    /\ Proceed(w, Idle)
    /\ UNCHANGED <<rows, queue, counts, disorder, faults>>

\* ... and cached; the cache may decline.
FillCache(w) ==
    /\ Is(w, "fill")
    /\ \/ \E k \in worker[w].key :
             cache' = { e \in cache : e.key # k } \cup
                {[key |-> k, numbers |-> worker[w].numbers, late |-> worker[w].late]}
       \/ UNCHANGED cache
    /\ Proceed(w, Idle)
    /\ UNCHANGED <<rows, queue, counts, disorder, faults>>

\* Fifteen seconds are over, or the cache needs the room.
Expire ==
    /\ \E e \in cache : cache' = cache \ {e}
    /\ UNCHANGED <<rows, queue, worker, counts, disorder, faults>>

\* An event is delivered again.
Repeat ==
    /\ Fault
    /\ \E i \in DOMAIN queue : queue' = Append(queue, queue[i])
    /\ UNCHANGED <<rows, cache, worker, counts, disorder>>

----------------------------------------------------------------------------
WorkerNext(w) ==
    \/ OnPhoneUpdated(w)
    \/ AddPhone(w)
    \/ OnPhoneDeleted(w)
    \/ ClearCache(w)
    \/ Create(w)
    \/ LoadForRemove(w)
    \/ RemovePhone(w)
    \/ Delete(w)
    \/ Forget(w)
    \/ DeleteAllForUser(w)
    \/ LoadAuthContext(w)
    \/ FillCache(w)

Next ==
    \/ \E w \in Workers : WorkerNext(w)
    \/ Login
    \/ DeletePhone
    \/ Expire
    \/ Repeat

Spec == Init /\ [][Next]_vars

----------------------------------------------------------------------------
(* Properties. *)

AllIdle == \A w \in Workers : worker[w] = Idle

\* A phone, and a number, is of one key at most: the last one it logged in with
\* takes it over.  A key allows no number but those of the phones it lists.  Both
\* whatever requests, deletions and repeated events interleave.
OneKeyPerPhone ==
    /\ \A j, k \in Keys : j # k => /\ PhoneList[j] \cap PhoneList[k] = {}
                                   /\ NumberList[j] \cap NumberList[k] = {}
    /\ \A k \in Keys : NumberList[k] \subseteq { NumberOf[p] : p \in PhoneList[k] }

\* Once all is done, the cache allows what the key allows, but for an entry that
\* was late and for those that RemovePhone and a deleted account leave to expire;
\* and when it was done in order, without a fault, the phones that a key lists
\* are there and each of their numbers is allowed.
KeysSettle ==
    AllIdle =>
        /\ \A e \in cache : e.late \/ (e.key \in keys /\ e.numbers = NumberList[e.key])
        /\ queue = <<>> /\ ~disorder /\ faults = 0 =>
              \A k \in Keys :
                  /\ PhoneList[k] \subseteq phones
                  /\ NumberList[k] = { NumberOf[p] : p \in PhoneList[k] }
============================================================================
