------------------------- MODULE ContactCacheProofs -------------------------
(****************************************************************************)
(* Lookups of contacts through the cache are lookups in the book, for any   *)
(* numbers of phone numbers, lookups and changes at the same time: every    *)
(* behaviour of ContactCache is one of ContactBook.                         *)
(*                                                                          *)
(* What makes an entry safe to take is its generation.  A change that is    *)
(* made known ends the generation in the same step, and a generation that   *)
(* has ended does not come back; so within one generation nothing becomes   *)
(* known, and whoever looks up in it may take what anyone fetched in it.    *)
(****************************************************************************)
EXTENDS ContactCache, TLAPS

\* A contact of n may be given to every lookup of generation g, to those under
\* way and to those that may still begin.
Fresh(n, contact, g) ==
    /\ contact <= book[n]
    /\ g \in 1..nextGeneration
    /\ \A l \in Lookups : lookup[l].generation = g => since[l][n] <= contact
    /\ generation = g => finished[n] <= contact

\* What is known of the book, and what lookups and changes know of it.
BookInv ==
    /\ \A n \in Numbers : book[n] <= made /\ finished[n] <= book[n]
    /\ \A c \in Changes, n \in Numbers : change[c].made[n] <= book[n]
    /\ \A l \in Lookups, n \in Numbers : since[l][n] <= finished[n]

EntriesInv ==
    \A e \in cache \cup buffer : Fresh(e.number, e.contact, e.generation)

\* A number is looked for until it is resolved, and once; what is fetched may be
\* cached.
LookupOK(l) ==
    /\ lookup[l].step = "idle" => lookup[l] = IdleLookup
    /\ lookup[l].step # "idle" => lookup[l].generation \in 1..nextGeneration
    /\ lookup[l].step = "cache" =>
          /\ lookup[l].left \cap lookup[l].missing = {}
          /\ \A n \in lookup[l].left \cup lookup[l].missing :
                ~lookup[l].answer[n].found
    /\ lookup[l].step \in {"fetched", "store"} =>
          \A n \in lookup[l].missing :
              Fresh(n, lookup[l].answer[n].contact, lookup[l].generation)

LookupInv == \A l \in Lookups : LookupOK(l)

IInv == TypeOK /\ BookInv /\ EntriesInv /\ LookupInv

LookupStates ==
    [step : {"idle", "cache", "fetched", "store", "done"},
     generation : Nat, left : SUBSET Numbers, missing : SUBSET Numbers,
     answer : [Numbers -> [found : BOOLEAN, contact : Nat]]]
ChangeStates ==
    [step : {"idle", "stored", "advanced", "waited"}, made : [Numbers -> Nat]]

----------------------------------------------------------------------------
(* What the operators return. *)

LEMMA IdleType == IdleLookup \in LookupStates /\ IdleChange \in ChangeStates
BY DEF IdleLookup, IdleChange, LookupStates, ChangeStates, Nothing, Open

\* A generation is the one there was, or a new one.
LEMMA GenerationType ==
    ASSUME TypeOK, GetGeneration
    PROVE  /\ generation' \in Nat /\ nextGeneration' \in Nat
           /\ generation' <= nextGeneration' /\ nextGeneration <= nextGeneration'
           /\ generation' # 0
           /\ \/ generation' = generation
              \/ generation' = nextGeneration + 1
BY DEF GetGeneration, TypeOK

LEMMA ResolvedType ==
    ASSUME NEW answer \in [Numbers -> [found : BOOLEAN, contact : Nat]],
           NEW n \in Numbers, NEW contact \in Nat
    PROVE  Resolved(answer, n, contact) \in [Numbers -> [found : BOOLEAN, contact : Nat]]
BY DEF Resolved, Found

\* What a lookup has fetched.
LEMMA FetchedType ==
    ASSUME TypeOK, NEW answer \in [Numbers -> [found : BOOLEAN, contact : Nat]],
           NEW missing
    PROVE  [n \in Numbers |-> IF n \in missing THEN Found(book[n]) ELSE answer[n]]
               \in [Numbers -> [found : BOOLEAN, contact : Nat]]
BY DEF Found, TypeOK

----------------------------------------------------------------------------
(* Types. *)

LEMMA ChangeTypes ==
    ASSUME TypeOK, NEW c \in Changes, ChangeNext(c) PROVE TypeOK'
<1>1. change \in [Changes -> ChangeStates]
  BY DEF TypeOK, ChangeStates
<1>2. CASE Store(c)
  <2>1. made' \in Nat
    BY <1>2 DEF Store, TypeOK
  <2>2. PICK numbers \in SUBSET Numbers :
          /\ book' = [n \in Numbers |-> IF n \in numbers THEN made' ELSE book[n]]
          /\ change' = [change EXCEPT ![c] = [step |-> "stored",
                 made |-> [n \in Numbers |-> IF n \in numbers THEN made' ELSE 0]]]
    BY <1>2 DEF Store
  <2>3. book' \in [Numbers -> Nat]
    BY <2>1, <2>2 DEF TypeOK
  <2>4. [n \in Numbers |-> IF n \in numbers THEN made' ELSE 0] \in [Numbers -> Nat]
    BY <2>1
  <2>5. change' \in [Changes -> ChangeStates]
    BY <1>1, <2>2, <2>4 DEF ChangeStates
  <2> QED
    BY <1>2, <2>1, <2>3, <2>5 DEF Store, TypeOK, generations, entries, ChangeStates
<1>3. CASE advanceGeneration(c)
  <2>1. finished' \in [Numbers -> Nat]
    BY <1>1, <1>3 DEF advanceGeneration, MakeKnown, Later, TypeOK, ChangeStates
  <2>2. change' \in [Changes -> ChangeStates]
    BY <1>1, <1>3 DEF advanceGeneration, ChangeStates
  <2>3. generation' \in Nat /\ nextGeneration' \in Nat /\ generation' <= nextGeneration'
    BY <1>3 DEF advanceGeneration, TypeOK
  <2> QED
    BY <1>3, <2>1, <2>2, <2>3 DEF advanceGeneration, TypeOK, table, entries, ChangeStates
<1>4. CASE WaitForCache(c)
  <2>1. change' \in [Changes -> ChangeStates]
    BY <1>1, <1>4 DEF WaitForCache, ChangeStates
  <2> QED
    BY <1>4, <2>1 DEF WaitForCache, TypeOK, table, generations, entries, ChangeStates
<1>5. CASE DeleteEntries(c)
  <2>1. change' \in [Changes -> ChangeStates]
    BY <1>1, <1>5, IdleType DEF DeleteEntries
  <2>2. cache' \in SUBSET Entries
    BY <1>5 DEF DeleteEntries, TypeOK
  <2> QED
    BY <1>5, <2>1, <2>2 DEF DeleteEntries, TypeOK, table, generations, ChangeStates
<1> QED
  BY <1>2, <1>3, <1>4, <1>5 DEF ChangeNext

LEMMA LookupTypes ==
    ASSUME TypeOK, NEW l \in Lookups, LookupNext(l) PROVE TypeOK'
<1>1. lookup \in [Lookups -> LookupStates]
  BY DEF TypeOK, LookupStates
<1>2. CASE StartLookup(l)
  <2>1. PICK numbers \in SUBSET Numbers :
          lookup' = [lookup EXCEPT ![l] =
              [step |-> "cache", generation |-> generation', left |-> numbers,
               missing |-> {}, answer |-> Nothing]]
    BY <1>2 DEF StartLookup
  <2>2. /\ generation' \in Nat /\ nextGeneration' \in Nat
        /\ generation' <= nextGeneration'
    BY <1>2, GenerationType DEF StartLookup
  <2>3. lookup' \in [Lookups -> LookupStates]
    BY <1>1, <2>1, <2>2 DEF LookupStates, Nothing, Open
  <2>4. since' \in [Lookups -> [Numbers -> Nat]]
    BY <1>2 DEF StartLookup, TypeOK
  <2> QED
    BY <1>2, <2>2, <2>3, <2>4 DEF StartLookup, TypeOK, table, entries, LookupStates
<1>3. CASE Hit(l)
  <2>1. PICK n \in lookup[l].left : \E e \in Cached(n) :
          lookup' = [lookup EXCEPT ![l] =
                [step |-> "cache", generation |-> @.generation,
                 left |-> @.left \ {n}, missing |-> @.missing,
                 answer |-> Resolved(@.answer, n, e.contact)]]
    BY <1>3 DEF Hit
  <2>2. PICK e \in Cached(n) :
          lookup' = [lookup EXCEPT ![l] =
                [step |-> "cache", generation |-> @.generation,
                 left |-> @.left \ {n}, missing |-> @.missing,
                 answer |-> Resolved(@.answer, n, e.contact)]]
    BY <2>1
  <2>3. n \in Numbers /\ e.contact \in Nat
    BY <1>1 DEF Cached, TypeOK, Entries, LookupStates
  <2>4. Resolved(lookup[l].answer, n, e.contact)
            \in [Numbers -> [found : BOOLEAN, contact : Nat]]
    BY <1>1, <2>3, ResolvedType DEF LookupStates
  <2>5. lookup' \in [Lookups -> LookupStates]
    BY <1>1, <2>2, <2>4 DEF LookupStates
  <2> QED
    BY <1>3, <2>5 DEF Hit, TypeOK, table, generations, entries, LookupStates
<1>4. CASE Miss(l)
  <2>1. lookup' \in [Lookups -> LookupStates]
    BY <1>1, <1>4 DEF Miss, LookupStates
  <2>2. cache' \in SUBSET Entries
    BY <1>4 DEF Miss, TypeOK
  <2> QED
    BY <1>4, <2>1, <2>2 DEF Miss, TypeOK, table, generations, LookupStates
<1>5. CASE FetchByPhoneNumbers(l)
  <2>1. lookup[l].answer \in [Numbers -> [found : BOOLEAN, contact : Nat]]
    BY <1>1 DEF LookupStates
  <2>2. [n \in Numbers |-> IF n \in lookup[l].missing THEN Found(book[n])
                           ELSE lookup[l].answer[n]]
            \in [Numbers -> [found : BOOLEAN, contact : Nat]]
    BY <2>1, FetchedType
  <2>3. lookup' \in [Lookups -> LookupStates]
    BY <1>1, <1>5, <2>2 DEF FetchByPhoneNumbers, LookupStates
  <2> QED
    BY <1>5, <2>3
       DEF FetchByPhoneNumbers, TypeOK, table, generations, entries, LookupStates
<1>6. CASE CheckGeneration(l)
  <2>1. /\ generation' \in Nat /\ nextGeneration' \in Nat
        /\ generation' <= nextGeneration'
    BY <1>6, GenerationType DEF CheckGeneration
  <2>2. lookup' \in [Lookups -> LookupStates]
    BY <1>1, <1>6 DEF CheckGeneration, LookupStates
  <2> QED
    BY <1>6, <2>1, <2>2 DEF CheckGeneration, TypeOK, table, entries, LookupStates
<1>7. CASE StoreEntries(l)
  <2>1. lookup' \in [Lookups -> LookupStates]
    BY <1>1, <1>7 DEF StoreEntries, LookupStates
  <2>2. \A n \in lookup[l].missing :
            [number |-> n, contact |-> lookup[l].answer[n].contact,
             generation |-> lookup[l].generation] \in Entries
    BY <1>1 DEF Entries, LookupStates
  <2>3. buffer' \in SUBSET Entries
    BY <1>7, <2>2 DEF StoreEntries, TypeOK
  <2> QED
    BY <1>7, <2>1, <2>3 DEF StoreEntries, TypeOK, table, generations, LookupStates
<1>8. CASE EndLookup(l)
  <2>1. lookup' \in [Lookups -> LookupStates]
    BY <1>1, <1>8, IdleType DEF EndLookup
  <2>2. since' \in [Lookups -> [Numbers -> Nat]]
    BY <1>8 DEF EndLookup, TypeOK
  <2> QED
    BY <1>8, <2>1, <2>2 DEF EndLookup, TypeOK, table, generations, entries, LookupStates
<1> QED
  BY <1>2, <1>3, <1>4, <1>5, <1>6, <1>7, <1>8 DEF LookupNext

LEMMA OtherTypes ==
    ASSUME TypeOK, Admit \/ Evict \/ ExpireGeneration \/ UNCHANGED vars PROVE TypeOK'
<1>1. CASE Admit
  <2>1. cache' \in SUBSET Entries /\ buffer' \in SUBSET Entries
    BY <1>1 DEF Admit, TypeOK
  <2> QED
    BY <1>1, <2>1 DEF Admit, TypeOK, table, generations
<1>2. CASE Evict
  BY <1>2 DEF Evict, TypeOK, table, generations
<1>3. CASE ExpireGeneration
  BY <1>3 DEF ExpireGeneration, TypeOK, table, entries
<1>4. CASE UNCHANGED vars
  BY <1>4 DEF vars, TypeOK, table, generations, entries
<1> QED
  BY <1>1, <1>2, <1>3, <1>4

LEMMA StepTypes == ASSUME TypeOK, [Next]_vars PROVE TypeOK'
BY ChangeTypes, LookupTypes, OtherTypes DEF Next

----------------------------------------------------------------------------
(* What was fresh stays fresh. *)

\* What a step does to generations, and to what lookups know: the book and the
\* generations grow, a lookup that begins knows what is known, in the generation
\* that is current, and what becomes known ends the generation.
Grows ==
    /\ \A n \in Numbers : book[n] <= book'[n]
    /\ nextGeneration <= nextGeneration'
    /\ \A l \in Lookups :
          \/ lookup'[l].generation = lookup[l].generation /\ since'[l] = since[l]
          \/ lookup'[l].generation = 0
          \/ lookup'[l].generation = generation' /\ since'[l] = finished
    /\ \/ generation' \in {generation, 0, nextGeneration + 1} /\ finished' = finished
       \/ generation' = nextGeneration + 1 /\ lookup' = lookup

LEMMA ChangeGrows ==
    ASSUME IInv, NEW c \in Changes, ChangeNext(c) PROVE Grows
<1>1. CASE Store(c)
  <2>1. PICK numbers \in SUBSET Numbers :
            book' = [n \in Numbers |-> IF n \in numbers THEN made' ELSE book[n]]
    BY <1>1 DEF Store
  <2>2. made' = made + 1
    BY <1>1 DEF Store
  <2>3. \A n \in Numbers : book[n] <= book'[n]
    BY <2>1, <2>2 DEF IInv, BookInv, TypeOK
  <2> QED
    BY <1>1, <2>3 DEF Store, Grows, generations, IInv, TypeOK
<1>2. CASE advanceGeneration(c)
  BY <1>2 DEF advanceGeneration, Grows, table, IInv, TypeOK
<1>3. CASE WaitForCache(c) \/ DeleteEntries(c)
  BY <1>3 DEF WaitForCache, DeleteEntries, Grows, table, generations, IInv, TypeOK
<1> QED
  BY <1>1, <1>2, <1>3 DEF ChangeNext

LEMMA LookupGrows ==
    ASSUME IInv, NEW l \in Lookups, LookupNext(l) PROVE Grows
<1>1. lookup \in [Lookups -> LookupStates] /\ TypeOK
  BY DEF IInv, TypeOK, LookupStates
<1>2. CASE StartLookup(l)
  <2>1. /\ nextGeneration <= nextGeneration'
        /\ generation' \in {generation, 0, nextGeneration + 1}
    BY <1>1, <1>2, GenerationType DEF StartLookup
  <2>2. lookup'[l].generation = generation' /\ since'[l] = finished
    BY <1>1, <1>2 DEF StartLookup, TypeOK
  <2>3. \A k \in Lookups \ {l} : lookup'[k] = lookup[k] /\ since'[k] = since[k]
    BY <1>1, <1>2 DEF StartLookup, TypeOK
  <2>4. book' = book /\ finished' = finished
    BY <1>2 DEF StartLookup, table
  <2>5. \A n \in Numbers : book[n] <= book'[n]
    BY <1>1, <2>4 DEF TypeOK
  <2> QED
    BY <2>1, <2>2, <2>3, <2>4, <2>5 DEF Grows
<1>3. CASE CheckGeneration(l)
  <2>1. /\ nextGeneration <= nextGeneration'
        /\ generation' \in {generation, 0, nextGeneration + 1}
    BY <1>1, <1>3, GenerationType DEF CheckGeneration
  <2>2. \A k \in Lookups : lookup'[k].generation = lookup[k].generation
    BY <1>1, <1>3 DEF CheckGeneration
  <2>3. book' = book /\ finished' = finished /\ since' = since
    BY <1>3 DEF CheckGeneration, table
  <2>4. \A n \in Numbers : book[n] <= book'[n]
    BY <1>1, <2>3 DEF TypeOK
  <2> QED
    BY <2>1, <2>2, <2>3, <2>4 DEF Grows
<1>4. CASE EndLookup(l)
  <2>1. lookup'[l].generation = 0
    BY <1>1, <1>4 DEF EndLookup, IdleLookup
  <2>2. \A k \in Lookups \ {l} : lookup'[k] = lookup[k] /\ since'[k] = since[k]
    BY <1>1, <1>4 DEF EndLookup, TypeOK
  <2>3. book' = book /\ finished' = finished /\ generation' = generation
        /\ nextGeneration' = nextGeneration
    BY <1>4 DEF EndLookup, table, generations
  <2>4. nextGeneration <= nextGeneration' /\ \A n \in Numbers : book[n] <= book'[n]
    BY <1>1, <2>3 DEF TypeOK
  <2> QED
    BY <2>1, <2>2, <2>3, <2>4 DEF Grows
<1>5. CASE Hit(l) \/ Miss(l) \/ FetchByPhoneNumbers(l) \/ StoreEntries(l)
  <2>1. \A k \in Lookups : lookup'[k].generation = lookup[k].generation
    BY <1>1, <1>5 DEF Hit, Miss, FetchByPhoneNumbers, StoreEntries
  <2>2. book' = book /\ finished' = finished /\ generation' = generation
        /\ nextGeneration' = nextGeneration /\ since' = since
    BY <1>5 DEF Hit, Miss, FetchByPhoneNumbers, StoreEntries, table, generations
  <2>3. nextGeneration <= nextGeneration' /\ \A n \in Numbers : book[n] <= book'[n]
    BY <1>1, <2>2 DEF TypeOK
  <2> QED
    BY <2>1, <2>2, <2>3 DEF Grows
<1> QED
  BY <1>2, <1>3, <1>4, <1>5 DEF LookupNext

LEMMA StepGrows == ASSUME IInv, [Next]_vars PROVE Grows
<1>1. CASE Admit \/ Evict \/ ExpireGeneration \/ UNCHANGED vars
  BY <1>1 DEF Admit, Evict, ExpireGeneration, vars, Grows, table, generations, IInv,
     TypeOK
<1> QED
  BY <1>1, ChangeGrows, LookupGrows DEF Next

LEMMA FreshStays ==
    ASSUME TypeOK, TypeOK', Grows, NEW n \in Numbers, NEW v \in Nat, NEW g,
           Fresh(n, v, g)
    PROVE  Fresh(n, v, g)'
<1>1. g \in Nat /\ g # 0 /\ g <= nextGeneration
  BY DEF Fresh, TypeOK
<1>2. v <= book'[n]
  BY DEF Fresh, Grows, TypeOK
<1>3. g \in 1..nextGeneration'
  BY <1>1 DEF Grows, TypeOK
<1>4. generation' = g => generation = g /\ finished' = finished
  BY <1>1 DEF Grows, TypeOK
<1>5. generation' = g => finished'[n] <= v
  BY <1>4 DEF Fresh
<1>6. ASSUME NEW l \in Lookups, lookup'[l].generation = g
      PROVE  since'[l][n] <= v
  <2>1. CASE lookup'[l].generation = lookup[l].generation /\ since'[l] = since[l]
    BY <1>6, <2>1 DEF Fresh
  <2>2. CASE lookup'[l].generation = generation' /\ since'[l] = finished
    BY <1>4, <1>6, <2>2 DEF Fresh
  <2> QED
    BY <1>1, <1>6, <2>1, <2>2 DEF Grows
<1> QED
  BY <1>2, <1>3, <1>5, <1>6 DEF Fresh

----------------------------------------------------------------------------
(* The book. *)

LEMMA BookKept ==
    ASSUME IInv, [Next]_vars, TypeOK' PROVE BookInv'
<1>1. TypeOK /\ BookInv
  BY DEF IInv
<1>2. CASE \E c \in Changes : Store(c)
  <2>1. PICK c \in Changes : Store(c)
    BY <1>2
  <2>2. PICK numbers \in SUBSET Numbers :
          /\ book' = [n \in Numbers |-> IF n \in numbers THEN made' ELSE book[n]]
          /\ change' = [change EXCEPT ![c] = [step |-> "stored",
                 made |-> [n \in Numbers |-> IF n \in numbers THEN made' ELSE 0]]]
    BY <2>1 DEF Store
  <2>3. made' = made + 1 /\ finished' = finished /\ since' = since
    BY <2>1 DEF Store
  <2>4. \A n \in Numbers : book[n] <= book'[n] /\ book'[n] <= made'
    BY <1>1, <2>2, <2>3 DEF BookInv, TypeOK
  <2>5. \A n \in Numbers : change'[c].made[n] <= book'[n]
    <3> SUFFICES ASSUME NEW n \in Numbers PROVE change'[c].made[n] <= book'[n]
      OBVIOUS
    <3>1. change'[c].made[n] = IF n \in numbers THEN made' ELSE 0
      BY <1>1, <2>2 DEF TypeOK
    <3>2. book'[n] = IF n \in numbers THEN made' ELSE book[n]
      BY <2>2
    <3>3. made' \in Nat /\ book[n] \in Nat
      BY <1>1, <2>3 DEF TypeOK
    <3> QED
      BY <3>1, <3>2, <3>3
  <2>6. \A b \in Changes \ {c} : change'[b] = change[b]
    BY <1>1, <2>2 DEF TypeOK
  <2>7. \A b \in Changes, n \in Numbers : change'[b].made[n] <= book'[n]
    <3> SUFFICES ASSUME NEW b \in Changes, NEW n \in Numbers, b # c
                 PROVE  change'[b].made[n] <= book'[n]
      BY <2>5
    <3>1. change'[b].made[n] = change[b].made[n] /\ change[b].made[n] <= book[n]
      BY <1>1, <2>6 DEF BookInv
    <3>2. change[b].made[n] \in Nat /\ book[n] \in Nat /\ book'[n] \in Nat
      BY <1>1 DEF TypeOK
    <3> QED
      BY <2>4, <3>1, <3>2
  <2>8. \A n \in Numbers : finished'[n] <= book'[n]
    BY <1>1, <2>3, <2>4 DEF BookInv, TypeOK
  <2> QED
    BY <1>1, <2>3, <2>4, <2>7, <2>8 DEF BookInv
<1>3. CASE \E c \in Changes : advanceGeneration(c)
  <2>1. PICK c \in Changes : advanceGeneration(c)
    BY <1>3
  <2>2. finished' = [n \in Numbers |-> Later(finished[n], change[c].made[n])]
    BY <2>1 DEF advanceGeneration, MakeKnown
  <2>3. \A n \in Numbers : finished[n] <= finished'[n] /\ finished'[n] <= book[n]
    BY <1>1, <2>2 DEF Later, BookInv, TypeOK
  <2>4. book' = book /\ made' = made /\ since' = since
    BY <2>1 DEF advanceGeneration, table
  <2>5. \A b \in Changes : change'[b].made = change[b].made
    BY <1>1, <2>1 DEF advanceGeneration, TypeOK
  <2>6. \A l \in Lookups, n \in Numbers : since'[l][n] <= finished'[n]
    BY <1>1, <2>3, <2>4 DEF BookInv, TypeOK
  <2> QED
    BY <1>1, <2>3, <2>4, <2>5, <2>6 DEF BookInv
<1>4. CASE \E c \in Changes : WaitForCache(c) \/ DeleteEntries(c)
  <2>1. PICK c \in Changes : WaitForCache(c) \/ DeleteEntries(c)
    BY <1>4
  <2>2. /\ book' = book /\ made' = made /\ finished' = finished /\ since' = since
    BY <2>1 DEF WaitForCache, DeleteEntries, table
  <2>3. \A b \in Changes : change'[b].made = change[b].made \/ change'[b] = IdleChange
    <3>1. CASE WaitForCache(c)
      BY <1>1, <3>1 DEF WaitForCache, TypeOK
    <3>2. CASE DeleteEntries(c)
      BY <1>1, <3>2 DEF DeleteEntries, TypeOK
    <3> QED
      BY <2>1, <3>1, <3>2
  <2>4. \A b \in Changes, n \in Numbers : change'[b].made[n] <= book[n]
    <3> SUFFICES ASSUME NEW b \in Changes, NEW n \in Numbers
                 PROVE  change'[b].made[n] <= book[n]
      OBVIOUS
    <3>1. change'[b].made[n] = change[b].made[n] \/ change'[b].made[n] = 0
      BY <2>3 DEF IdleChange
    <3>2. change[b].made[n] <= book[n] /\ book[n] \in Nat
      BY <1>1 DEF BookInv, TypeOK
    <3> QED
      BY <3>1, <3>2
  <2> QED
    BY <1>1, <2>2, <2>4 DEF BookInv
<1>5. CASE \E l \in Lookups : LookupNext(l)
  <2>1. PICK l \in Lookups : LookupNext(l)
    BY <1>5
  <2>2. book' = book /\ made' = made /\ finished' = finished /\ change' = change
    BY <2>1 DEF LookupNext, StartLookup, Hit, Miss, FetchByPhoneNumbers,
       CheckGeneration, StoreEntries, EndLookup, table
  <2>3. \A k \in Lookups :
            since'[k] \in {since[k], finished, [n \in Numbers |-> 0]}
    BY <1>1, <2>1 DEF LookupNext, StartLookup, Hit, Miss, FetchByPhoneNumbers,
       CheckGeneration, StoreEntries, EndLookup, TypeOK
  <2>4. \A k \in Lookups, n \in Numbers : since'[k][n] <= finished[n]
    <3> SUFFICES ASSUME NEW k \in Lookups, NEW n \in Numbers
                 PROVE  since'[k][n] <= finished[n]
      OBVIOUS
    <3>1. since'[k][n] \in {since[k][n], finished[n], 0}
      BY <2>3
    <3>2. since[k][n] <= finished[n] /\ finished[n] \in Nat
      BY <1>1 DEF BookInv, TypeOK
    <3> QED
      BY <3>1, <3>2
  <2> QED
    BY <1>1, <2>2, <2>4 DEF BookInv
<1>6. CASE Admit \/ Evict \/ ExpireGeneration \/ UNCHANGED vars
  BY <1>1, <1>6 DEF Admit, Evict, ExpireGeneration, vars, table, BookInv
<1> QED
  BY <1>2, <1>3, <1>4, <1>5, <1>6 DEF Next, ChangeNext

----------------------------------------------------------------------------
(* The entries of the cache, and those on their way into it. *)

\* An entry was there before, or is what a lookup has fetched.
LEMMA EntriesKept ==
    ASSUME IInv, [Next]_vars, TypeOK' PROVE EntriesInv'
<1>1. TypeOK /\ EntriesInv /\ LookupInv
  BY DEF IInv
<1>2. \A e \in cache' \cup buffer' : Fresh(e.number, e.contact, e.generation)
  <2>1. CASE \E l \in Lookups : StoreEntries(l)
    <3>1. PICK l \in Lookups : StoreEntries(l)
      BY <2>1
    <3>2. \A n \in lookup[l].missing :
              Fresh(n, lookup[l].answer[n].contact, lookup[l].generation)
      BY <1>1, <3>1 DEF StoreEntries, LookupInv, LookupOK
    <3>3. cache' = cache
          /\ buffer' = buffer \cup
                { [number |-> n, contact |-> lookup[l].answer[n].contact,
                   generation |-> lookup[l].generation] : n \in lookup[l].missing }
      BY <3>1 DEF StoreEntries
    <3> SUFFICES ASSUME NEW e \in buffer' \ buffer
                 PROVE  Fresh(e.number, e.contact, e.generation)
      BY <1>1, <3>3 DEF EntriesInv
    <3>4. PICK n \in lookup[l].missing :
              e = [number |-> n, contact |-> lookup[l].answer[n].contact,
                   generation |-> lookup[l].generation]
      BY <3>3
    <3>5. e.number = n /\ e.contact = lookup[l].answer[n].contact
          /\ e.generation = lookup[l].generation
      BY <3>4
    <3> QED
      BY <3>2, <3>5
  <2>2. CASE ~ \E l \in Lookups : StoreEntries(l)
    <3>1. cache' \cup buffer' \subseteq cache \cup buffer
      BY <2>2 DEF Next, ChangeNext, LookupNext, Store, advanceGeneration,
         WaitForCache, DeleteEntries, StartLookup, Hit, Miss, FetchByPhoneNumbers,
         CheckGeneration, EndLookup, Admit, Evict, ExpireGeneration, vars, entries
    <3> QED
      BY <1>1, <3>1 DEF EntriesInv
  <2> QED
    BY <2>1, <2>2
<1>3. ASSUME NEW e \in cache' \cup buffer'
      PROVE  Fresh(e.number, e.contact, e.generation)'
  <2>1. e \in Entries
    BY <1>3 DEF TypeOK
  <2>2. e.number \in Numbers /\ e.contact \in Nat /\ e.generation \in Nat
    BY <2>1 DEF Entries
  <2>3. PICK n \in Numbers, v \in Nat, g \in Nat : n = e.number /\ v = e.contact /\ g = e.generation
    BY <2>2
  <2>4. Fresh(n, v, g)
    BY <1>2, <1>3, <2>3
  <2>5. Fresh(n, v, g)'
    BY <1>1, <2>4, StepGrows, FreshStays
  <2> QED
    BY <2>3, <2>5
<1> QED
  BY <1>3 DEF EntriesInv

----------------------------------------------------------------------------
(* Lookups. *)

\* What a lookup has fetched stays fresh, for as long as the lookup keeps it.
LEMMA FetchedStays ==
    ASSUME IInv, [Next]_vars, TypeOK', NEW l \in Lookups, NEW n \in Numbers,
           Fresh(n, lookup[l].answer[n].contact, lookup[l].generation),
           lookup'[l].answer[n] = lookup[l].answer[n],
           lookup'[l].generation = lookup[l].generation
    PROVE  Fresh(n, lookup[l].answer[n].contact, lookup[l].generation)'
<1>1. TypeOK /\ Grows
  BY StepGrows DEF IInv
<1>2. lookup[l].answer[n].contact \in Nat /\ lookup[l].generation \in Nat
  BY <1>1 DEF TypeOK
<1>3. PICK v \in Nat, g \in Nat : v = lookup[l].answer[n].contact /\ g = lookup[l].generation
  BY <1>2
<1>4. Fresh(n, v, g)
  BY <1>3
<1>5. Fresh(n, v, g)'
  BY <1>1, <1>4, FreshStays
<1> QED
  BY <1>3, <1>5 DEF Fresh

\* A lookup that is not part of a step.
LEMMA OthersKept ==
    ASSUME IInv, [Next]_vars, TypeOK', NEW l \in Lookups, lookup'[l] = lookup[l]
    PROVE  LookupOK(l)'
<1>1. TypeOK /\ LookupOK(l) /\ Grows
  BY StepGrows DEF IInv, LookupInv
<1>2. lookup[l].step # "idle" => lookup[l].generation \in 1..nextGeneration'
  BY <1>1 DEF LookupOK, Grows, TypeOK
<1>3. ASSUME lookup[l].step \in {"fetched", "store"}, NEW n \in lookup[l].missing
      PROVE  Fresh(n, lookup[l].answer[n].contact, lookup[l].generation)'
  BY <1>1, <1>3, FetchedStays DEF LookupOK, TypeOK
<1> QED
  BY <1>1, <1>2, <1>3 DEF LookupOK

LEMMA StartKept ==
    ASSUME IInv, NEW l \in Lookups, StartLookup(l) PROVE LookupOK(l)'
<1>1. TypeOK
  BY DEF IInv
<1>2. generation' \in 1..nextGeneration'
  BY <1>1, GenerationType DEF StartLookup
<1>3. PICK numbers \in SUBSET Numbers :
        lookup'[l] = [step |-> "cache", generation |-> generation', left |-> numbers,
                      missing |-> {}, answer |-> Nothing]
  BY <1>1 DEF StartLookup, TypeOK
<1> QED
  BY <1>2, <1>3 DEF LookupOK, Nothing, Open

\* A hit resolves one of the numbers that are left, and leaves the others.
LEMMA HitStep ==
    ASSUME IInv, NEW l \in Lookups, Hit(l)
    PROVE  \E n \in lookup[l].left, e \in cache :
              /\ n \in Numbers /\ e.number = n
              /\ e.generation = lookup[l].generation
              /\ Fresh(n, e.contact, lookup[l].generation)
              /\ e.contact \in Nat
              /\ lookup'[l] = [step |-> "cache", generation |-> lookup[l].generation,
                     left |-> lookup[l].left \ {n}, missing |-> lookup[l].missing,
                     answer |-> Resolved(lookup[l].answer, n, e.contact)]
<1>1. TypeOK /\ EntriesInv
  BY DEF IInv
<1>2. PICK n \in lookup[l].left : \E e \in Cached(n) :
          /\ e.generation = lookup[l].generation
          /\ lookup' = [lookup EXCEPT ![l] =
                [step |-> "cache", generation |-> @.generation,
                 left |-> @.left \ {n}, missing |-> @.missing,
                 answer |-> Resolved(@.answer, n, e.contact)]]
  BY DEF Hit
<1>3. PICK e \in Cached(n) :
          /\ e.generation = lookup[l].generation
          /\ lookup' = [lookup EXCEPT ![l] =
                [step |-> "cache", generation |-> @.generation,
                 left |-> @.left \ {n}, missing |-> @.missing,
                 answer |-> Resolved(@.answer, n, e.contact)]]
  BY <1>2
<1>4. e \in cache /\ e.number = n
  BY DEF Cached
<1>5. n \in Numbers /\ e.contact \in Nat
  BY <1>1, <1>4 DEF TypeOK, Entries
<1>6. Fresh(n, e.contact, lookup[l].generation)
  BY <1>1, <1>3, <1>4 DEF EntriesInv
<1>7. lookup'[l] = [step |-> "cache", generation |-> lookup[l].generation,
                     left |-> lookup[l].left \ {n}, missing |-> lookup[l].missing,
                     answer |-> Resolved(lookup[l].answer, n, e.contact)]
  BY <1>1, <1>3 DEF TypeOK
<1> QED
  BY <1>3, <1>4, <1>5, <1>6, <1>7

LEMMA HitKept ==
    ASSUME IInv, NEW l \in Lookups, Hit(l) PROVE LookupOK(l)'
<1>1. TypeOK /\ LookupOK(l) /\ lookup[l].step = "cache"
  BY DEF IInv, LookupInv, Hit
<1>2. PICK n \in lookup[l].left, e \in cache :
        lookup'[l] = [step |-> "cache", generation |-> lookup[l].generation,
                      left |-> lookup[l].left \ {n}, missing |-> lookup[l].missing,
                      answer |-> Resolved(lookup[l].answer, n, e.contact)]
  BY HitStep
<1>3. \A k \in Numbers \ {n} :
          Resolved(lookup[l].answer, n, e.contact)[k] = lookup[l].answer[k]
  BY DEF Resolved
<1>4. lookup[l].left \subseteq Numbers /\ lookup[l].missing \subseteq Numbers
  BY <1>1 DEF TypeOK
<1>5. \A k \in (lookup[l].left \ {n}) \cup lookup[l].missing :
          ~Resolved(lookup[l].answer, n, e.contact)[k].found
  BY <1>1, <1>3, <1>4 DEF LookupOK
<1>6. nextGeneration' = nextGeneration
  BY DEF Hit, generations
<1> QED
  BY <1>1, <1>2, <1>5, <1>6 DEF LookupOK

LEMMA MissKept ==
    ASSUME IInv, NEW l \in Lookups, Miss(l) PROVE LookupOK(l)'
<1>1. TypeOK /\ LookupOK(l) /\ lookup[l].step = "cache"
  BY DEF IInv, LookupInv, Miss
<1>2. PICK n \in lookup[l].left :
        lookup'[l] = [step |-> "cache", generation |-> lookup[l].generation,
                      left |-> lookup[l].left \ {n},
                      missing |-> lookup[l].missing \cup {n},
                      answer |-> lookup[l].answer]
  BY <1>1 DEF Miss, TypeOK
<1>3. nextGeneration' = nextGeneration
  BY DEF Miss, generations
<1> QED
  BY <1>1, <1>2, <1>3 DEF LookupOK

\* The book is never older than what was known when a lookup began.
LEMMA BookIsFresh ==
    ASSUME IInv, NEW n \in Numbers, NEW g \in 1..nextGeneration
    PROVE  Fresh(n, book[n], g)
<1>1. book[n] \in Nat /\ finished[n] \in Nat /\ finished[n] <= book[n]
  BY DEF IInv, TypeOK, BookInv
<1>2. \A l \in Lookups : since[l][n] \in Nat /\ since[l][n] <= finished[n]
  BY DEF IInv, TypeOK, BookInv
<1>3. \A l \in Lookups : since[l][n] <= book[n]
  BY <1>1, <1>2
<1> QED
  BY <1>1, <1>3 DEF Fresh

\* A fetch resolves the numbers that are missing, and leaves the others.
LEMMA FetchStep ==
    ASSUME IInv, NEW l \in Lookups, FetchByPhoneNumbers(l)
    PROVE  /\ lookup'[l].step = "fetched" /\ lookup'[l].missing = lookup[l].missing
           /\ lookup'[l].generation = lookup[l].generation
           /\ \A n \in Numbers : lookup'[l].answer[n] =
                 IF n \in lookup[l].missing THEN Found(book[n]) ELSE lookup[l].answer[n]
BY DEF FetchByPhoneNumbers, IInv, TypeOK

LEMMA FetchKept ==
    ASSUME IInv, NEW l \in Lookups, FetchByPhoneNumbers(l) PROVE LookupOK(l)'
<1>1. TypeOK /\ LookupOK(l) /\ lookup[l].step = "cache"
  BY DEF IInv, LookupInv, FetchByPhoneNumbers
<1>2. lookup[l].generation \in 1..nextGeneration
  BY <1>1 DEF LookupOK
<1>3. /\ book' = book /\ generation' = generation /\ nextGeneration' = nextGeneration
      /\ since' = since /\ finished' = finished
  BY DEF FetchByPhoneNumbers, table, generations
<1>4. \A k \in Lookups : lookup'[k].generation = lookup[k].generation
  BY <1>1 DEF FetchByPhoneNumbers, TypeOK
<1>5. ASSUME NEW n \in lookup[l].missing
      PROVE  Fresh(n, lookup[l].answer[n].contact, lookup[l].generation)'
  <2>1. n \in Numbers
    BY <1>1 DEF TypeOK
  <2>2. /\ lookup'[l].answer[n].contact = book[n]
        /\ lookup'[l].generation = lookup[l].generation
    <3>1. \A m \in Numbers : lookup'[l].answer[m] =
              IF m \in lookup[l].missing THEN Found(book[m]) ELSE lookup[l].answer[m]
      BY FetchStep
    <3>2. lookup'[l].answer[n] = Found(book[n])
      BY <2>1, <3>1
    <3>3. lookup'[l].generation = lookup[l].generation
      BY FetchStep
    <3> QED
      BY <3>2, <3>3 DEF Found
  <2>3. Fresh(n, book[n], lookup[l].generation)
    BY <1>2, <2>1, BookIsFresh
  <2>4. PICK v, g : v = book[n] /\ g = lookup[l].generation
    OBVIOUS
  <2>5. Fresh(n, v, g)'
    BY <1>3, <1>4, <2>3, <2>4 DEF Fresh
  <2>6. v = lookup'[l].answer[n].contact /\ g = lookup'[l].generation
    BY <2>2, <2>4
  <2> QED
    BY <2>5, <2>6 DEF Fresh
<1>6. lookup'[l].step = "fetched" /\ lookup'[l].missing = lookup[l].missing
      /\ lookup'[l].generation = lookup[l].generation
  BY FetchStep
<1>7. lookup[l].generation \in 1..nextGeneration'
  BY <1>2, <1>3
<1> QED
  BY <1>5, <1>6, <1>7 DEF LookupOK

LEMMA CheckKept ==
    ASSUME IInv, [Next]_vars, TypeOK', NEW l \in Lookups, CheckGeneration(l)
    PROVE  LookupOK(l)'
<1>1. TypeOK /\ LookupOK(l) /\ lookup[l].step = "fetched" /\ Grows
  BY StepGrows DEF IInv, LookupInv, CheckGeneration
<1>2. lookup[l].generation \in 1..nextGeneration'
  BY <1>1 DEF LookupOK, Grows, TypeOK
<1>3. /\ lookup'[l].step \in {"store", "done"}
      /\ lookup'[l].generation = lookup[l].generation
      /\ lookup'[l].missing = lookup[l].missing
      /\ lookup'[l].answer = lookup[l].answer
  BY <1>1 DEF CheckGeneration, TypeOK
<1>4. ASSUME NEW n \in lookup[l].missing
      PROVE  Fresh(n, lookup[l].answer[n].contact, lookup[l].generation)'
  BY <1>1, <1>3, FetchedStays DEF LookupOK, TypeOK
<1> QED
  BY <1>2, <1>3, <1>4 DEF LookupOK

LEMMA StoreEntriesKept ==
    ASSUME IInv, NEW l \in Lookups, StoreEntries(l) PROVE LookupOK(l)'
<1>1. TypeOK /\ LookupOK(l) /\ lookup[l].step = "store"
  BY DEF IInv, LookupInv, StoreEntries
<1>2. lookup'[l].step = "done" /\ lookup'[l].generation = lookup[l].generation
  BY <1>1 DEF StoreEntries, TypeOK
<1>3. nextGeneration' = nextGeneration
  BY DEF StoreEntries, generations
<1> QED
  BY <1>1, <1>2, <1>3 DEF LookupOK

LEMMA EndKept ==
    ASSUME IInv, NEW l \in Lookups, EndLookup(l) PROVE LookupOK(l)'
<1>1. lookup'[l] = IdleLookup
  BY DEF EndLookup, IInv, TypeOK
<1> QED
  BY <1>1 DEF LookupOK, IdleLookup

LEMMA LookupsKept ==
    ASSUME IInv, [Next]_vars, TypeOK' PROVE LookupInv'
<1>1. TypeOK
  BY DEF IInv
<1> SUFFICES ASSUME NEW l \in Lookups PROVE LookupOK(l)'
  BY DEF LookupInv
<1>2. CASE LookupNext(l)
  BY <1>2, StartKept, HitKept, MissKept, FetchKept, CheckKept, StoreEntriesKept,
     EndKept DEF LookupNext
<1>3. CASE ~LookupNext(l)
  <2>1. lookup'[l] = lookup[l]
    <3>1. CASE \E k \in Lookups : LookupNext(k)
      <4>1. PICK k \in Lookups : LookupNext(k)
        BY <3>1
      <4>2. k # l
        BY <1>3, <4>1
      <4> QED
        BY <1>1, <4>1, <4>2 DEF LookupNext, StartLookup, Hit, Miss,
           FetchByPhoneNumbers, CheckGeneration, StoreEntries, EndLookup, TypeOK
    <3>2. CASE ~ \E k \in Lookups : LookupNext(k)
      BY <3>2 DEF Next, ChangeNext, Store, advanceGeneration, WaitForCache,
         DeleteEntries, Admit, Evict, ExpireGeneration, vars
    <3> QED
      BY <3>1, <3>2
  <2> QED
    BY <2>1, OthersKept
<1> QED
  BY <1>2, <1>3

----------------------------------------------------------------------------
(* The invariant, and the book that a behaviour shows. *)

LEMMA InitHolds == Init => IInv
<1> SUFFICES ASSUME Init PROVE IInv
  OBVIOUS
<1>1. lookup \in [Lookups -> LookupStates] /\ change \in [Changes -> ChangeStates]
  BY IdleType DEF Init
<1>2. TypeOK
  BY <1>1 DEF Init, TypeOK, LookupStates, ChangeStates
<1>3. BookInv /\ EntriesInv
  BY DEF Init, BookInv, EntriesInv, IdleChange
<1>4. LookupInv
  BY DEF Init, LookupInv, LookupOK, IdleLookup
<1> QED
  BY <1>2, <1>3, <1>4 DEF IInv

LEMMA NextKeeps == IInv /\ [Next]_vars => IInv'
<1> SUFFICES ASSUME IInv, [Next]_vars PROVE IInv'
  OBVIOUS
<1>1. TypeOK'
  BY StepTypes DEF IInv
<1> QED
  BY <1>1, BookKept, EntriesKept, LookupsKept DEF IInv

\* The answers that the book knows of.
Answers == [l \in Lookups |-> lookup[l].answer]

LEMMA InitMaps == Init => Book!Init
BY DEF Init, Book!Init, IdleLookup, Nothing, Open, Book!Open

LEMMA ChangeMaps ==
    ASSUME IInv, TypeOK', NEW c \in Changes, ChangeNext(c)
    PROVE  [Book!Next]_(Book!vars)
<1>1. TypeOK /\ BookInv
  BY DEF IInv
<1>2. CASE Store(c)
  <2>1. \A n \in Numbers : book'[n] >= book[n]
    BY <1>1, ChangeGrows DEF Grows, TypeOK
  <2>2. book' \in [Numbers -> Nat]
    BY DEF TypeOK
  <2>3. finished' = finished /\ since' = since /\ lookup' = lookup
    BY <1>2 DEF Store
  <2>4. Book!Change
    BY <2>1, <2>2, <2>3 DEF Book!Change, Book!Contacts
  <2> QED
    BY <2>4 DEF Book!Next
<1>3. CASE advanceGeneration(c)
  <2>1. finished' = [n \in Numbers |-> Later(finished[n], change[c].made[n])]
    BY <1>3 DEF advanceGeneration, MakeKnown
  <2>2. \A n \in Numbers : finished[n] <= finished'[n] /\ finished'[n] <= book[n]
    BY <1>1, <2>1 DEF Later, BookInv, TypeOK
  <2>3. finished' \in [Numbers -> Nat]
    BY DEF TypeOK
  <2>4. book' = book /\ since' = since /\ lookup' = lookup
    BY <1>3 DEF advanceGeneration, table
  <2>5. Book!Finish
    BY <2>2, <2>3, <2>4 DEF Book!Finish, Book!Contacts
  <2> QED
    BY <2>5 DEF Book!Next
<1>4. CASE WaitForCache(c) \/ DeleteEntries(c)
  BY <1>4 DEF WaitForCache, DeleteEntries, table, Book!vars
<1> QED
  BY <1>2, <1>3, <1>4 DEF ChangeNext

\* The step of a lookup that resolves numbers with fresh contacts.
LEMMA ResolveMaps ==
    ASSUME TypeOK, TypeOK', NEW l \in Lookups,
           \A k \in Lookups \ {l} : lookup'[k] = lookup[k],
           book' = book /\ finished' = finished /\ since' = since,
           \A n \in Numbers :
               \/ lookup'[l].answer[n] = lookup[l].answer[n]
               \/ /\ ~lookup[l].answer[n].found
                  /\ lookup'[l].answer[n].found
                  /\ Fresh(n, lookup'[l].answer[n].contact, lookup[l].generation)
    PROVE  Book!Resolve(l)
<1>1. Answers' \in [Lookups -> [Numbers -> [found : BOOLEAN, contact : Nat]]]
  BY DEF Answers, TypeOK
<1>2. \A k \in Lookups : Answers[k] = lookup[k].answer /\ Answers'[k] = lookup'[k].answer
  BY DEF Answers
<1>3. \A k \in Lookups \ {l} : Answers'[k] = Answers[k]
  BY <1>2
<1>4. ASSUME NEW n \in Numbers, Answers'[l][n] # Answers[l][n]
      PROVE  /\ ~Answers[l][n].found /\ Answers'[l][n].found
             /\ since[l][n] <= Answers'[l][n].contact
             /\ Answers'[l][n].contact <= book[n]
  BY <1>2, <1>4 DEF Fresh
<1> QED
  BY <1>1, <1>3, <1>4 DEF Book!Resolve, Answers

LEMMA LookupMaps ==
    ASSUME IInv, TypeOK', NEW l \in Lookups, LookupNext(l)
    PROVE  [Book!Next]_(Book!vars)
<1>1. TypeOK /\ LookupOK(l)
  BY DEF IInv, LookupInv
<1>2. CASE StartLookup(l)
  <2>1. lookup[l].answer = Nothing /\ lookup'[l].answer = Nothing
    BY <1>1, <1>2 DEF StartLookup, LookupOK, IdleLookup, TypeOK
  <2>2. \A k \in Lookups \ {l} : lookup'[k] = lookup[k]
    BY <1>1, <1>2 DEF StartLookup, TypeOK
  <2>3. Answers' = Answers
    BY <2>1, <2>2 DEF Answers
  <2>4. book' = book /\ finished' = finished
        /\ since' = [since EXCEPT ![l] = finished]
    BY <1>2 DEF StartLookup, table
  <2>5. Book!Begin(l)
    BY <2>3, <2>4 DEF Book!Begin, Answers
  <2> QED
    BY <2>5 DEF Book!Next
<1>3. CASE Hit(l)
  <2>1. /\ \A k \in Lookups \ {l} : lookup'[k] = lookup[k]
        /\ book' = book /\ finished' = finished /\ since' = since
        /\ lookup[l].step = "cache"
    BY <1>1, <1>3 DEF Hit, table, TypeOK
  <2>2. PICK n \in lookup[l].left, e \in cache :
          /\ n \in Numbers
          /\ Fresh(n, e.contact, lookup[l].generation)
          /\ lookup'[l].answer = Resolved(lookup[l].answer, n, e.contact)
    <3>1. PICK n \in lookup[l].left, e \in cache :
            /\ n \in Numbers
            /\ Fresh(n, e.contact, lookup[l].generation)
            /\ lookup'[l] = [step |-> "cache", generation |-> lookup[l].generation,
                   left |-> lookup[l].left \ {n}, missing |-> lookup[l].missing,
                   answer |-> Resolved(lookup[l].answer, n, e.contact)]
      BY <1>3, HitStep, Zenon
    <3>2. lookup'[l].answer = Resolved(lookup[l].answer, n, e.contact)
      BY <3>1
    <3> QED
      BY <3>1, <3>2
  <2>3. ~lookup[l].answer[n].found
    BY <1>1, <2>1 DEF LookupOK
  <2>4. lookup'[l].answer[n] = Found(e.contact)
    BY <2>2 DEF Resolved
  <2>5. \A m \in Numbers \ {n} : lookup'[l].answer[m] = lookup[l].answer[m]
    BY <2>2 DEF Resolved
  <2>6. \A m \in Numbers :
            \/ lookup'[l].answer[m] = lookup[l].answer[m]
            \/ /\ ~lookup[l].answer[m].found
               /\ lookup'[l].answer[m].found
               /\ Fresh(m, lookup'[l].answer[m].contact, lookup[l].generation)
    BY <2>2, <2>3, <2>4, <2>5 DEF Found
  <2>7. Book!Resolve(l)
    BY <1>1, <2>1, <2>6, ResolveMaps
  <2> QED
    BY <2>7 DEF Book!Next
<1>4. CASE FetchByPhoneNumbers(l)
  <2>1. /\ \A k \in Lookups \ {l} : lookup'[k] = lookup[k]
        /\ book' = book /\ finished' = finished /\ since' = since
        /\ lookup[l].step = "cache"
    BY <1>1, <1>4 DEF FetchByPhoneNumbers, table, TypeOK
  <2>2. lookup[l].generation \in 1..nextGeneration
    BY <1>1, <2>1 DEF LookupOK
  <2>3. \A m \in Numbers :
            \/ lookup'[l].answer[m] = lookup[l].answer[m]
            \/ /\ ~lookup[l].answer[m].found
               /\ lookup'[l].answer[m].found
               /\ Fresh(m, lookup'[l].answer[m].contact, lookup[l].generation)
    <3> SUFFICES ASSUME NEW m \in Numbers, m \in lookup[l].missing
                 PROVE  /\ ~lookup[l].answer[m].found
                        /\ lookup'[l].answer[m].found
                        /\ Fresh(m, lookup'[l].answer[m].contact, lookup[l].generation)
      BY <1>4, FetchStep
    <3>1. lookup'[l].answer[m] = Found(book[m])
      BY <1>4, FetchStep
    <3>2. Fresh(m, book[m], lookup[l].generation)
      BY <2>2, BookIsFresh
    <3>3. ~lookup[l].answer[m].found
      BY <1>1, <2>1 DEF LookupOK
    <3> QED
      BY <3>1, <3>2, <3>3 DEF Found
  <2>4. Book!Resolve(l)
    BY <1>1, <2>1, <2>3, ResolveMaps
  <2> QED
    BY <2>4 DEF Book!Next
<1>5. CASE EndLookup(l)
  <2>1. lookup' = [lookup EXCEPT ![l] = IdleLookup]
        /\ book' = book /\ finished' = finished
        /\ since' = [since EXCEPT ![l] = [n \in Numbers |-> 0]]
    BY <1>5 DEF EndLookup, table
  <2>2. lookup'[l].answer = Nothing /\ \A k \in Lookups \ {l} : lookup'[k] = lookup[k]
    BY <1>1, <2>1 DEF IdleLookup, TypeOK
  <2>3. Answers' = [Answers EXCEPT ![l] = Nothing]
    BY <2>2 DEF Answers
  <2>4. Nothing = [n \in Numbers |-> Book!Open]
    BY DEF Nothing, Open, Book!Open
  <2>5. Book!End(l)
    BY <2>1, <2>3, <2>4 DEF Book!End, Answers
  <2> QED
    BY <2>5 DEF Book!Next
<1>6. CASE Miss(l) \/ CheckGeneration(l) \/ StoreEntries(l)
  <2>1. \A k \in Lookups : lookup'[k].answer = lookup[k].answer
    <3>1. CASE Miss(l)
      BY <1>1, <3>1 DEF Miss, TypeOK
    <3>2. CASE CheckGeneration(l)
      BY <1>1, <3>2 DEF CheckGeneration, TypeOK
    <3>3. CASE StoreEntries(l)
      BY <1>1, <3>3 DEF StoreEntries, TypeOK
    <3> QED
      BY <1>6, <3>1, <3>2, <3>3
  <2>2. book' = book /\ finished' = finished /\ since' = since
    BY <1>6 DEF Miss, CheckGeneration, StoreEntries, table
  <2>3. Answers' = Answers
    BY <2>1 DEF Answers
  <2> QED
    BY <2>2, <2>3 DEF Book!vars, Answers
<1> QED
  BY <1>2, <1>3, <1>4, <1>5, <1>6 DEF LookupNext

LEMMA StepMaps ==
    ASSUME IInv, TypeOK', [Next]_vars PROVE [Book!Next]_(Book!vars)
<1>1. CASE Admit \/ Evict \/ ExpireGeneration \/ UNCHANGED vars
  BY <1>1 DEF Admit, Evict, ExpireGeneration, vars, table, Book!vars
<1> QED
  BY <1>1, ChangeMaps, LookupMaps DEF Next

----------------------------------------------------------------------------
(* The theorems. *)

\* Type correctness of the contacts, the cache and the lookups, and a generation
\* that is never beyond the counter it was taken from.
THEOREM ContactTypeCorrect == Spec => []TypeOK
<1>1. IInv => TypeOK
  BY DEF IInv
<1> QED
  BY <1>1, InitHolds, NextKeeps, PTL DEF Spec

\* However changes, lookups, evictions and expirations interleave, no lookup of
\* GetContactMap answers with a contact that a change finished before it began
\* had replaced, nor with one the book never had: the cache refines the book.
THEOREM LookupsAreFresh == Spec => LooksUpFresh
<1>1. IInv /\ IInv' /\ [Next]_vars => [Book!Next]_(Book!vars)
  BY StepMaps DEF IInv
<1>2. Spec => []IInv
  BY InitHolds, NextKeeps, PTL DEF Spec
<1> QED
  BY <1>1, <1>2, InitMaps, PTL DEF Spec, LooksUpFresh, Book!Spec
=============================================================================
