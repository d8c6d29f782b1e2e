---------------------------- MODULE ContactCache ----------------------------
(****************************************************************************)
(* The contacts of one user and the cache in front of them: ContactService  *)
(* (api/pkg/services/contact_service.go).  An entry of the cache belongs to *)
(* a generation; a change of the contacts ends the generation, and a lookup *)
(* neither takes nor leaves an entry of a generation that is not its own.   *)
(*                                                                          *)
(* The generation is read and advanced under a mutex, the table and the     *)
(* cache are shared without one.  The cache (ristretto) takes entries       *)
(* through a buffer, in which they may be dropped, and may lose any entry   *)
(* at any time.  A contact is the number of the change that stored it.      *)
(****************************************************************************)
EXTENDS Naturals, FiniteSets

CONSTANTS
    Numbers,        \* phone numbers
    Lookups,        \* requests that look contacts up at the same time
    Changes,        \* requests that change contacts at the same time
    MaxEvents       \* bound on the changes made and the generations expired

ASSUME ContactAssumption == MaxEvents \in Nat

VARIABLES
    book,           \* the table: book[n] is the contact of n, or 0
    made,           \* changes made so far
    generation,     \* the generation of the user, 0 when it has none
    nextGeneration, \* the last generation given to anyone
    cache,          \* the entries of the cache
    buffer,         \* entries on their way into the cache
    change,         \* change[c]: the change that c is in the middle of
    lookup,         \* lookup[l]: the lookup that l is in the middle of
    finished,       \* history: finished[n], the last change made known
    since,          \* history: since[l], finished when lookup l began
    expirations     \* history: expirations so far

generations == <<generation, nextGeneration>>
entries     == <<cache, buffer>>
table       == <<book, made>>
vars == <<table, generations, entries, change, lookup, finished, since,
          expirations>>

Entries == [number : Numbers, contact : Nat, generation : Nat]

Open == [found |-> FALSE, contact |-> 0]
Found(contact) == [found |-> TRUE, contact |-> contact]
Nothing == [n \in Numbers |-> Open]

IdleLookup == [step |-> "idle", generation |-> 0, left |-> {}, missing |-> {},
               answer |-> Nothing]
IdleChange == [step |-> "idle", made |-> [n \in Numbers |-> 0]]

TypeOK ==
    /\ book \in [Numbers -> Nat]
    /\ made \in Nat
    /\ generation \in Nat
    /\ nextGeneration \in Nat
    /\ cache \in SUBSET Entries
    /\ buffer \in SUBSET Entries
    /\ change \in [Changes ->
          [step : {"idle", "stored", "advanced", "waited"}, made : [Numbers -> Nat]]]
    /\ lookup \in [Lookups ->
          [step : {"idle", "cache", "fetched", "store", "done"},
           generation : Nat, left : SUBSET Numbers, missing : SUBSET Numbers,
           answer : [Numbers -> [found : BOOLEAN, contact : Nat]]]]
    /\ finished \in [Numbers -> Nat]
    /\ since \in [Lookups -> [Numbers -> Nat]]
    /\ expirations \in Nat
    /\ generation <= nextGeneration

Init ==
    /\ book = [n \in Numbers |-> 0]
    /\ made = 0
    /\ generation = 0
    /\ nextGeneration = 0
    /\ cache = {}
    /\ buffer = {}
    /\ change = [c \in Changes |-> IdleChange]
    /\ lookup = [l \in Lookups |-> IdleLookup]
    /\ finished = [n \in Numbers |-> 0]
    /\ since = [l \in Lookups |-> [n \in Numbers |-> 0]]
    /\ expirations = 0

----------------------------------------------------------------------------
(* Changes: CreateMany, Update, Delete and DeleteAllForUser. *)

\* The statement on the table, of the numbers it touches.  (Update touches the
\* old and the new numbers of the contact, DeleteAllForUser all.)
Store(c) ==
    /\ change[c].step = "idle"
    /\ made + expirations < MaxEvents
    /\ made' = made + 1
    /\ \E numbers \in SUBSET Numbers \ {{}} :
          LET new == [n \in Numbers |-> IF n \in numbers THEN made' ELSE 0] IN
          /\ book' = [n \in Numbers |-> IF n \in numbers THEN made' ELSE book[n]]
          /\ change' = [change EXCEPT ![c] = [step |-> "stored", made |-> new]]
    /\ UNCHANGED <<generations, entries, lookup, finished, since, expirations>>

Later(a, b) == IF a >= b THEN a ELSE b

\* The change is known from here on: no lookup takes an entry older than it.
MakeKnown(c) ==
    finished' = [n \in Numbers |-> Later(finished[n], change[c].made[n])]

\* Mutant: the counter is left where it is, as after an expiration.
advanceGenerationNot(c) ==
    /\ change[c].step = "stored"
    /\ generation' = nextGeneration
    /\ MakeKnown(c)
    /\ change' = [change EXCEPT ![c] = [step |-> "advanced", made |-> @.made]]
    /\ UNCHANGED <<table, nextGeneration, entries, lookup, since, expirations>>

advanceGeneration(c) ==
    /\ change[c].step = "stored"
    /\ nextGeneration' = nextGeneration + 1
    /\ generation' = nextGeneration'
    /\ MakeKnown(c)
    /\ change' = [change EXCEPT ![c] = [step |-> "advanced", made |-> @.made]]
    /\ UNCHANGED <<table, entries, lookup, since, expirations>>

\* cache.Wait: the entries that were on their way have arrived.
WaitForCache(c) ==
    /\ change[c].step = "advanced"
    /\ buffer = {}
    /\ change' = [change EXCEPT ![c] = [step |-> "waited", made |-> @.made]]
    /\ UNCHANGED <<table, generations, entries, lookup, finished, since,
                   expirations>>

\* The entries of the numbers that were changed go; DeleteAllForUser names none.
DeleteEntries(c) ==
    /\ change[c].step = "waited"
    /\ \/ cache' = { e \in cache : change[c].made[e.number] = 0 }
       \/ UNCHANGED cache
    /\ change' = [change EXCEPT ![c] = IdleChange]
    /\ UNCHANGED <<table, generations, buffer, lookup, finished, since,
                   expirations>>

----------------------------------------------------------------------------
(* GetContactMap. *)

\* generation(): a user without one is given a new one.
GetGeneration ==
    /\ nextGeneration' = IF generation = 0 THEN nextGeneration + 1 ELSE nextGeneration
    /\ generation' = IF generation = 0 THEN nextGeneration' ELSE generation

StartLookup(l) ==
    /\ lookup[l].step = "idle"
    /\ GetGeneration
    /\ \E numbers \in SUBSET Numbers \ {{}} :
          lookup' = [lookup EXCEPT ![l] =
              [step |-> "cache", generation |-> generation', left |-> numbers,
               missing |-> {}, answer |-> Nothing]]
    /\ since' = [since EXCEPT ![l] = finished]
    /\ UNCHANGED <<table, entries, change, finished, expirations>>

Cached(number) == { e \in cache : e.number = number }

Resolved(answer, number, contact) ==
    [n \in Numbers |-> IF n = number THEN Found(contact) ELSE answer[n]]

\* One number against the cache: an entry of the lookup's generation is taken ...
Hit(l) ==
    /\ lookup[l].step = "cache"
    /\ \E n \in lookup[l].left : \E e \in Cached(n) :
          /\ e.generation = lookup[l].generation
          /\ lookup' = [lookup EXCEPT ![l] =
                [step |-> "cache", generation |-> @.generation,
                 left |-> @.left \ {n}, missing |-> @.missing,
                 answer |-> Resolved(@.answer, n, e.contact)]]
    /\ UNCHANGED <<table, generations, entries, change, finished, since,
                   expirations>>

\* ... and one of another generation is deleted.
Miss(l) ==
    /\ lookup[l].step = "cache"
    /\ \E n \in lookup[l].left :
          /\ \A e \in Cached(n) : e.generation # lookup[l].generation
          /\ cache' = cache \ Cached(n)
          /\ lookup' = [lookup EXCEPT ![l] =
                [step |-> "cache", generation |-> @.generation,
                 left |-> @.left \ {n}, missing |-> @.missing \cup {n},
                 answer |-> @.answer]]
    /\ UNCHANGED <<table, generations, buffer, change, finished, since,
                   expirations>>

FetchByPhoneNumbers(l) ==
    /\ lookup[l].step = "cache"
    /\ lookup[l].left = {} /\ lookup[l].missing # {}
    /\ lookup' = [lookup EXCEPT ![l] =
          [step |-> "fetched", generation |-> @.generation, left |-> {},
           missing |-> @.missing,
           answer |-> [n \in Numbers |-> IF n \in @.missing
                                         THEN Found(book[n]) ELSE @.answer[n]]]]
    /\ UNCHANGED <<table, generations, entries, change, finished, since,
                   expirations>>

\* The generation is asked for again; what was fetched in another one is not
\* cached.
CheckGeneration(l) ==
    /\ lookup[l].step = "fetched"
    /\ GetGeneration
    /\ lookup' = [lookup EXCEPT ![l] =
          [step |-> IF generation' = @.generation THEN "store" ELSE "done",
           generation |-> @.generation, left |-> {}, missing |-> @.missing,
           answer |-> @.answer]]
    /\ UNCHANGED <<table, entries, change, finished, since, expirations>>

\* SetWithTTL for each of the missing numbers, with the generation of the lookup.
StoreEntries(l) ==
    /\ lookup[l].step = "store"
    /\ buffer' = buffer \cup
          { [number |-> n, contact |-> lookup[l].answer[n].contact,
             generation |-> lookup[l].generation] : n \in lookup[l].missing }
    /\ lookup' = [lookup EXCEPT ![l] =
          [step |-> "done", generation |-> @.generation, left |-> {},
           missing |-> @.missing, answer |-> @.answer]]
    /\ UNCHANGED <<table, generations, cache, change, finished, since,
                   expirations>>

\* The answer is given, or the query failed and there is none.
EndLookup(l) ==
    /\ \/ lookup[l].step = "done"
       \/ lookup[l].step = "cache" /\ lookup[l].left = {}
    /\ lookup' = [lookup EXCEPT ![l] = IdleLookup]
    /\ since' = [since EXCEPT ![l] = [n \in Numbers |-> 0]]
    /\ UNCHANGED <<table, generations, entries, change, finished, expirations>>

----------------------------------------------------------------------------
(* What happens on its own. *)

\* An entry arrives in the cache, where it replaces the number's, or is dropped.
Admit ==
    \E e \in buffer :
        /\ buffer' = buffer \ {e}
        /\ cache' \in {cache, (cache \ Cached(e.number)) \cup {e}}
        /\ UNCHANGED <<table, generations, change, lookup, finished, since,
                       expirations>>

\* Five minutes are over, or the cache needs the room.
Evict ==
    \E e \in cache :
        /\ cache' = cache \ {e}
        /\ UNCHANGED <<table, generations, buffer, change, lookup, finished,
                       since, expirations>>

\* expireGenerationsLocked, when another user's call runs it: a user who has
\* not looked anything up for a while loses the generation.
ExpireGeneration ==
    /\ generation # 0
    /\ made + expirations < MaxEvents
    /\ expirations' = expirations + 1
    /\ generation' = 0
    /\ UNCHANGED <<table, nextGeneration, entries, change, lookup, finished,
                   since>>

----------------------------------------------------------------------------
LookupNext(l) ==
    \/ StartLookup(l)
    \/ Hit(l)
    \/ Miss(l)
    \/ FetchByPhoneNumbers(l)
    \/ CheckGeneration(l)
    \/ StoreEntries(l)
    \/ EndLookup(l)

ChangeNext(c) ==
    \/ Store(c)
    \/ advanceGeneration(c)
    \/ WaitForCache(c)
    \/ DeleteEntries(c)

Next ==
    \/ \E c \in Changes : ChangeNext(c)
    \/ \E l \in Lookups : LookupNext(l)
    \/ Admit
    \/ Evict
    \/ ExpireGeneration

Spec == Init /\ [][Next]_vars

----------------------------------------------------------------------------
(* Properties. *)

\* Lookups through the cache are as good as the book promises: however changes,
\* lookups, evictions and expirations interleave, no lookup answers with a
\* contact that a change finished before it began had replaced.
Book == INSTANCE ContactBook WITH
           answer <- [l \in Lookups |-> lookup[l].answer]

LooksUpFresh == Book!Spec
============================================================================
