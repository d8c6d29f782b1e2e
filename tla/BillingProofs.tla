---------------------------- MODULE BillingProofs ----------------------------
(****************************************************************************)
(* Proofs about the billing of a user.                                      *)
(*                                                                          *)
(* BillingCycle: when the billing cycle computed for a day contains that    *)
(* day, for every year and anchor day.                                      *)
(*                                                                          *)
(* Billing: every registered message is counted, the limit is missed by no  *)
(* more than is in flight, no usage outlives the account, and a free user   *)
(* is warned before being refused, for every number of handlers, limit and  *)
(* length of a cycle.                                                       *)
(****************************************************************************)
EXTENDS Billing, BillingCycle, FiniteSetTheorems, WellFoundedInduction, TLAPS

----------------------------------------------------------------------------
(* The cycle of a day of the calendar. *)

IsDate(today) ==
    /\ today \in [y : Nat, m : 1..12, d : 1..31]
    /\ today.d <= daysInMonth(today.y, today.m)

\* The days of March that February does not have, before the anchor day.
InLateMarch(today, anchorDay) ==
    today.m = 3 /\ today.d > daysInMonth(today.y, 2) /\ today.d < anchorDay

LEMMA MonthLength ==
    ASSUME NEW y \in Int, NEW m \in 1..12
    PROVE  /\ daysInMonth(y, m) \in 28..31
           /\ m \in {1, 3, 5, 7, 8, 10, 12} => daysInMonth(y, m) = 31
           /\ m \in {4, 6, 9, 11} => daysInMonth(y, m) = 30
           /\ m = 2 => daysInMonth(y, m) \in {28, 29}
<1>1. CASE m = 2
  BY <1>1 DEF daysInMonth
<1>2. CASE m \in {4, 6, 9, 11}
  BY <1>2 DEF daysInMonth
<1>3. CASE m \in {1, 3, 5, 7, 8, 10, 12}
  BY <1>3 DEF daysInMonth
<1> QED BY <1>1, <1>2, <1>3

LEMMA ClampedDay ==
    ASSUME NEW y \in Int, NEW m \in 1..12, NEW anchorDay \in 1..31
    PROVE  /\ Clamped(anchorDay, y, m) \in 1..31
           /\ Clamped(anchorDay, y, m) <= anchorDay
           /\ Clamped(anchorDay, y, m) <= daysInMonth(y, m)
           /\ daysInMonth(y, m) = 31 => Clamped(anchorDay, y, m) = anchorDay
BY MonthLength DEF Clamped

\* The month before a day is the one before the day's month, unless the day is
\* one that month does not have.
LEMMA MonthBeforeDay ==
    ASSUME NEW today, IsDate(today), NEW prev, prev = PrevMonth(today.y, today.m)
    PROVE  /\ prev.y \in Int /\ prev.m \in 1..12
           /\ prev.y * 12 + prev.m = today.y * 12 + today.m - 1
           /\ today.d <= daysInMonth(prev.y, prev.m) =>
                  MonthBefore(today) = Date(prev.y, prev.m, today.d)
           /\ today.d > daysInMonth(prev.y, prev.m) =>
                  MonthBefore(today)
                      = Date(today.y, today.m, today.d - daysInMonth(prev.y, prev.m))
<1>1. today.y \in Int /\ today.m \in 1..12 /\ today.d \in 1..31
  BY DEF IsDate
<1>2. prev.y \in Int /\ prev.m \in 1..12 /\ prev.y * 12 + prev.m = today.y * 12 + today.m - 1
  BY <1>1 DEF PrevMonth, Date
<1>3. daysInMonth(prev.y, prev.m) \in 28..31
  BY <1>2, MonthLength
<1> QED BY <1>1, <1>2, <1>3 DEF MonthBefore

LEMMA OrdinalOfDay ==
    ASSUME NEW today, IsDate(today)
    PROVE  Ordinal(today) = 372 * today.y + 31 * today.m + today.d - 31
BY DEF Ordinal, IsDate

\* The cycle that starts in the month of now contains now if and only if it
\* starts by then.
LEMMA StartsThisMonth ==
    ASSUME NEW today, IsDate(today), NEW anchorDay \in 1..31,
           CycleStart(today, anchorDay)
               = Date(today.y, today.m, Clamped(anchorDay, today.y, today.m))
    PROVE  Contains(computeBillingCycle(today, anchorDay), today)
               <=> Clamped(anchorDay, today.y, today.m) <= today.d
<1>1. today.y \in Int /\ today.m \in 1..12 /\ today.d \in 1..31
  BY DEF IsDate
<1>2. PICK day \in 1..31 : day = Clamped(anchorDay, today.y, today.m)
  BY <1>1, ClampedDay
<1>3. PICK y \in Int, m \in 1..12 : /\ NextMonth(today.y, today.m) = Date(y, m, 1)
                                    /\ y * 12 + m = today.y * 12 + today.m + 1
  BY <1>1 DEF NextMonth
<1>4. PICK nday \in 1..31 : nday = Clamped(anchorDay, y, m)
  BY <1>3, ClampedDay
<1>5. NextCycleStart(today, anchorDay) = Date(y, m, nday)
  BY <1>3, <1>4 DEF NextCycleStart, Date
<1>6. PICK start \in Int : /\ start = Ordinal(CycleStart(today, anchorDay))
                             /\ start = 372 * today.y + 31 * today.m + day - 31
  BY <1>1, <1>2 DEF Ordinal, Date
<1>7. PICK next \in Int : /\ next = Ordinal(NextCycleStart(today, anchorDay))
                            /\ next = 372 * y + 31 * m + nday - 31
  BY <1>3, <1>4, <1>5 DEF Ordinal, Date
<1>8. PICK this \in Int : /\ this = Ordinal(today)
                            /\ this = 372 * today.y + 31 * today.m + today.d - 31
  BY <1>1, OrdinalOfDay
<1>9. start <= this <=> day <= today.d
  <2>1. this - start = today.d - day
    BY <1>1, <1>6, <1>8
  <2> QED BY <1>1, <2>1
<1>10. this < next
  BY <1>1, <1>3, <1>4, <1>7, <1>8
<1> QED BY <1>2, <1>6, <1>7, <1>8, <1>9, <1>10 DEF Contains, computeBillingCycle

\* The cycle that starts in the month before now contains now, if this month's
\* anchor day is still to come.
LEMMA StartsLastMonth ==
    ASSUME NEW today, IsDate(today), NEW anchorDay \in 1..31,
           NEW y \in Int, NEW m \in 1..12,
           NextMonth(y, m) = Date(today.y, today.m, 1),
           y * 12 + m = today.y * 12 + today.m - 1,
           today.d < Clamped(anchorDay, today.y, today.m),
           CycleStart(today, anchorDay)
               = Date(y, m, Clamped(anchorDay, y, m))
    PROVE  Contains(computeBillingCycle(today, anchorDay), today)
<1>1. today.y \in Int /\ today.m \in 1..12 /\ today.d \in 1..31
  BY DEF IsDate
<1>3. PICK day \in 1..31 : day = Clamped(anchorDay, y, m)
  BY ClampedDay
<1>4. PICK nday \in 1..31 : nday = Clamped(anchorDay, today.y, today.m)
  BY <1>1, ClampedDay
<1>6. NextCycleStart(today, anchorDay) = Date(today.y, today.m, nday)
  BY <1>4 DEF NextCycleStart, Date
<1>7. PICK start \in Int : /\ start = Ordinal(CycleStart(today, anchorDay))
                             /\ start = 372 * y + 31 * m + day - 31
  BY <1>3 DEF Ordinal, Date
<1>8. PICK next \in Int : /\ next = Ordinal(NextCycleStart(today, anchorDay))
                            /\ next = 372 * today.y + 31 * today.m + nday - 31
  BY <1>1, <1>4, <1>6 DEF Ordinal, Date
<1>9. PICK this \in Int : /\ this = Ordinal(today)
                            /\ this = 372 * today.y + 31 * today.m + today.d - 31
  BY <1>1, OrdinalOfDay
<1>10. start <= this
  BY <1>1, <1>7, <1>9
<1>11. this < next
  <2>1. PICK base \in Int : base = 372 * today.y + 31 * today.m
    BY <1>1
  <2>2. next = base + nday - 31 /\ this = base + today.d - 31
    BY <1>8, <1>9, <2>1
  <2>3. next - this = nday - today.d
    BY <1>1, <2>2
  <2>4. today.d < nday
    BY <1>4
  <2> QED BY <1>1, <2>3, <2>4
<1> QED BY <1>7, <1>8, <1>9, <1>10, <1>11 DEF Contains, computeBillingCycle

\* computeBillingCycle promises the cycle that contains now.  It keeps the
\* promise for every year, month, day and anchor day but for the days of March
\* that February does not have, before the anchor day: there the month before
\* is taken to be March again, and the cycle is the next one.
THEOREM CycleContainsAllButLateMarch ==
    ASSUME NEW today, IsDate(today), NEW anchorDay \in 1..31
    PROVE  Contains(computeBillingCycle(today, anchorDay), today)
               <=> ~InLateMarch(today, anchorDay)
<1> DEFINE prev == PrevMonth(today.y, today.m)
           here == Clamped(anchorDay, today.y, today.m)
<1>1. today.y \in Int /\ today.m \in 1..12 /\ today.d \in 1..31
  BY DEF IsDate
<1>2. /\ prev.y \in Int /\ prev.m \in 1..12
      /\ prev.y * 12 + prev.m = today.y * 12 + today.m - 1
  BY MonthBeforeDay
<1>3. here \in 1..31 /\ here <= anchorDay /\ here <= daysInMonth(today.y, today.m)
  BY <1>1, ClampedDay
<1>4. daysInMonth(today.y, today.m) \in 28..31 /\ daysInMonth(prev.y, prev.m) \in 28..31
  BY <1>1, <1>2, MonthLength
<1>5. CASE today.d >= here
  <2>1. CycleStart(today, anchorDay) = Date(today.y, today.m, here)
    BY <1>5 DEF CycleStart
  <2>2. Contains(computeBillingCycle(today, anchorDay), today)
    BY <1>1, <1>3, <1>5, <2>1, StartsThisMonth
  <2>3. today.m = 3 => here = anchorDay
    BY <1>1, ClampedDay, MonthLength
  <2> QED BY <1>1, <1>3, <1>5, <2>2, <2>3 DEF InLateMarch
<1>6. CASE today.d < here /\ today.d <= daysInMonth(prev.y, prev.m)
  <2>1. MonthBefore(today) = Date(prev.y, prev.m, today.d)
    BY <1>6, MonthBeforeDay
  <2>2. CycleStart(today, anchorDay)
            = Date(prev.y, prev.m, Clamped(anchorDay, prev.y, prev.m))
    BY <1>1, <1>3, <1>6, <2>1 DEF CycleStart, Date
  <2>3. NextMonth(prev.y, prev.m) = Date(today.y, today.m, 1)
    BY <1>1 DEF NextMonth, PrevMonth, Date
  <2>4. Contains(computeBillingCycle(today, anchorDay), today)
    BY <1>2, <1>6, <2>2, <2>3, StartsLastMonth
  <2>5. today.m = 3 => prev = Date(today.y, 2, 1)
    BY <1>1 DEF PrevMonth, Date
  <2>6. ~InLateMarch(today, anchorDay)
    BY <1>1, <1>4, <1>6, <2>5 DEF InLateMarch, Date
  <2> QED BY <2>4, <2>6
<1>7. CASE today.d < here /\ today.d > daysInMonth(prev.y, prev.m)
  <2>1. MonthBefore(today) = Date(today.y, today.m, today.d - daysInMonth(prev.y, prev.m))
    BY <1>7, MonthBeforeDay
  <2>2. CycleStart(today, anchorDay) = Date(today.y, today.m, here)
    BY <1>1, <1>3, <1>7, <2>1 DEF CycleStart, Date
  <2>3. ~Contains(computeBillingCycle(today, anchorDay), today)
    BY <1>1, <1>3, <1>7, <2>2, StartsThisMonth
  <2>4. today.m = 3
    <3>1. today.d <= 30 /\ today.d >= 29
      BY <1>1, <1>3, <1>4, <1>7
    <3>2. daysInMonth(prev.y, prev.m) < 30
      BY <1>1, <1>4, <1>7, <3>1
    <3>3. prev.m = 2
      BY <1>2, <3>2, MonthLength
    <3> QED BY <1>1, <1>2, <3>3
  <2>5. prev = Date(today.y, 2, 1)
    BY <1>1, <2>4 DEF PrevMonth, Date
  <2>6. InLateMarch(today, anchorDay)
    BY <1>1, <1>3, <1>7, <2>4, <2>5 DEF InLateMarch, Date
  <2> QED BY <2>3, <2>6
<1> QED BY <1>1, <1>3, <1>4, <1>5, <1>6, <1>7

----------------------------------------------------------------------------
(* Arithmetic of cycles. *)

LEMMA Division ==
    ASSUME NEW x \in Int, NEW m \in Nat, m > 0
    PROVE  \E q \in Int : x = m * q + (x % m)
<1>1. x \div m \in Int /\ x = m * (x \div m) + (x % m)
  OBVIOUS
<1> QED
  BY <1>1

LEMMA MultipleOf ==
    ASSUME NEW x \in Int, NEW q \in Int, NEW m \in Nat, m > 0, x = m * q
    PROVE  x % m = 0
<1>1. PICK p \in Int : x = m * p + (x % m)
  BY Division
<1>2. x % m \in 0..(m - 1)
  OBVIOUS
<1>3. m * (q - p) = x % m
  BY <1>1
<1>4. q - p < 1
  BY <1>2, <1>3
<1>5. q - p > -1
  BY <1>2, <1>3
<1> QED
  BY <1>3, <1>4, <1>5

\* Two multiples of Month that are less than a Month apart are one.
LEMMA CyclesAreApart ==
    ASSUME NEW a \in Int, NEW b \in Int, NEW t \in Int,
           (a - Created) % Month = 0, (b - Created) % Month = 0,
           a <= t, t < a + Month, b <= t, t < b + Month
    PROVE  a = b
<1>1. Month \in Nat /\ Month > 1 /\ Created \in Nat
  BY BillingAssumption
<1>2. PICK p \in Int : a - Created = Month * p
  BY <1>1
<1>3. PICK q \in Int : b - Created = Month * q
  BY <1>1
<1>4. Month * (p - q) < Month /\ Month * (q - p) < Month
  BY <1>1, <1>2, <1>3
<1>5. p - q < 1 /\ q - p < 1
  BY <1>1, <1>4
<1> QED
  BY <1>1, <1>2, <1>3, <1>5

LEMMA CycleHolds ==
    ASSUME NEW t \in Int
    PROVE  /\ StartOfCycle(t, Created) \in Int
           /\ (StartOfCycle(t, Created) - Created) % Month = 0
           /\ StartOfCycle(t, Created) <= t
           /\ t < StartOfCycle(t, Created) + Month
           /\ (t - Created) % Month # Month - 1 =>
                  t <= CycleEnd(StartOfCycle(t, Created))
<1>1. Month \in Nat /\ Month > 1 /\ Created \in Nat
  BY BillingAssumption
<1> DEFINE r == (t - Created) % Month
           s == StartOfCycle(t, Created)
<1>2. r \in 0..(Month - 1)
  BY <1>1
<1>3. s = t - r
  BY DEF StartOfCycle
<1>4. (s - Created) % Month = 0
  <2>1. PICK q \in Int : t - Created = Month * q + r
    <3> DEFINE x == t - Created
    <3>1. x \in Int /\ Month > 0
      BY <1>1
    <3>2. \E q \in Int : x = Month * q + (x % Month)
      <4> HIDE DEF x
      <4> QED
        BY <1>1, <3>1, Division
    <3> QED
      BY <3>2
  <2>2. s - Created = Month * q
    BY <1>1, <1>2, <1>3, <2>1
  <2> QED
    BY <1>1, <2>2, MultipleOf
<1> QED
  BY <1>1, <1>2, <1>3, <1>4 DEF CycleEnd

----------------------------------------------------------------------------
(* Sums.  FoldFunctionOnSet and MapThenSumSet are recursive functions on the *)
(* subsets of a set.  That such a function exists, and what it adds up to,   *)
(* is shown by induction over the size of a set, which needs no more than    *)
(* a set of numbers without a least element outside of it (NatSets).         *)

LEMMA NatSets ==
    ASSUME NEW N \in SUBSET Nat, 0 \in N, \A n \in N : n + 1 \in N
    PROVE  N = Nat
<1> SUFFICES ASSUME Nat \ N # {} PROVE FALSE
  OBVIOUS
<1>1. PICK n \in Nat \ N : \A k \in Nat \ N : ~(<<k, n>> \in OpToRel(<, Nat))
  BY NatLessThanWellFounded, WFMin
<1>2. \A k \in Nat \ N : ~(k < n)
  BY <1>1 DEF OpToRel
<1>3. n # 0 /\ n - 1 \in Nat /\ n - 1 < n
  OBVIOUS
<1>4. n - 1 \in N
  BY <1>2, <1>3
<1>5. (n - 1) + 1 \in N
  BY <1>4
<1> QED
  BY <1>5

SumOn(f, S) == FoldFunctionOnSet(+, 0, f, S)

\* The element that a fold takes from a set first.
First(s) == CHOOSE x \in s : TRUE

\* What a function on sets has to satisfy on those in D to be the one of sums.
SumOf(g, f, s) == IF s = {} THEN 0 ELSE f[First(s)] + g[s \ {First(s)}]
Adds(g, f, D) == g = [s \in D |-> SumOf(g, f, s)]

LEMMA SumUnfolds ==
    ASSUME NEW f, NEW S
    PROVE  SumOn(f, S) = (CHOOSE g : Adds(g, f, SUBSET S))[S]
  BY DEF SumOn, FoldFunctionOnSet, MapThenFoldSet, Adds, SumOf, First

\* The subsets of S with n elements at most.
UpTo(S, n) == { s \in SUBSET S : Cardinality(s) <= n }

LEMMA SmallerSets ==
    ASSUME NEW S, IsFiniteSet(S), NEW s \in SUBSET S, s # {}
    PROVE  /\ First(s) \in s /\ s \ {First(s)} \in SUBSET S
           /\ IsFiniteSet(s) /\ Cardinality(s) \in Nat
           /\ Cardinality(s \ {First(s)}) = Cardinality(s) - 1
<1>1. First(s) \in s
  BY DEF First
<1>2. IsFiniteSet(s)
  BY FS_Subset
<1> QED
  BY <1>1, <1>2, FS_RemoveElement, FS_CardinalityType

LEMMA SumsExist ==
    ASSUME NEW f, NEW S, IsFiniteSet(S)
    PROVE  \E g : Adds(g, f, SUBSET S)
<1> DEFINE N == { n \in Nat : \E g : Adds(g, f, UpTo(S, n)) }
<1>1. 0 \in N
  <2>1. \A s \in UpTo(S, 0) : s = {}
    BY SmallerSets, FS_EmptySet, FS_Subset, FS_CardinalityType DEF UpTo
  <2>2. Adds([s \in UpTo(S, 0) |-> 0], f, UpTo(S, 0))
    BY <2>1 DEF Adds, SumOf
  <2> QED
    BY <2>2
<1>2. ASSUME NEW n \in N PROVE n + 1 \in N
  <2>1. PICK g : Adds(g, f, UpTo(S, n))
    BY <1>2
  <2> DEFINE h == [s \in UpTo(S, n + 1) |-> SumOf(g, f, s)]
  <2>2. \A s \in UpTo(S, n) : s \in UpTo(S, n + 1) /\ h[s] = g[s]
    <3>1. \A s \in UpTo(S, n) : s \in UpTo(S, n + 1)
      BY FS_Subset, FS_CardinalityType DEF UpTo
    <3>2. \A s \in UpTo(S, n) : g[s] = SumOf(g, f, s)
      BY <2>1 DEF Adds
    <3> QED
      BY <3>1, <3>2
  <2>3. ASSUME NEW s \in UpTo(S, n + 1) PROVE h[s] = SumOf(h, f, s)
    <3>1. CASE s = {}
      BY <3>1 DEF SumOf
    <3>2. CASE s # {}
      <4>1. s \ {First(s)} \in UpTo(S, n)
        BY <3>2, SmallerSets DEF UpTo
      <4>2. h[s \ {First(s)}] = g[s \ {First(s)}]
        BY <2>2, <4>1
      <4> HIDE DEF h
      <4>3. h[s] = SumOf(g, f, s)
        BY DEF h
      <4> QED
        BY <4>2, <4>3 DEF SumOf
    <3> QED
      BY <3>1, <3>2
  <2>4. Adds(h, f, UpTo(S, n + 1))
    <3>1. h = [s \in UpTo(S, n + 1) |-> h[s]]
      OBVIOUS
    <3>2. [s \in UpTo(S, n + 1) |-> h[s]] = [s \in UpTo(S, n + 1) |-> SumOf(h, f, s)]
      <4> HIDE DEF h
      <4> QED
        BY <2>3
    <3> QED
      BY <3>1, <3>2 DEF Adds
  <2> QED
    BY <2>4
<1>3. N = Nat
  <2> HIDE DEF N
  <2>1. N \in SUBSET Nat
    BY DEF N
  <2> QED
    BY <1>1, <1>2, <2>1, NatSets
<1>4. Cardinality(S) \in N
  BY <1>3, FS_CardinalityType
<1>5. UpTo(S, Cardinality(S)) = SUBSET S
  BY FS_Subset DEF UpTo
<1> QED
  BY <1>4, <1>5

LEMMA SumsAgree ==
    ASSUME NEW f, NEW S, IsFiniteSet(S), NEW T \in SUBSET S, NEW g, NEW h,
           Adds(g, f, SUBSET S), Adds(h, f, SUBSET T), NEW t \in SUBSET T
    PROVE  g[t] = h[t]
<1> DEFINE N == { n \in Nat : \A s \in SUBSET T : Cardinality(s) = n => g[s] = h[s] }
<1>0. IsFiniteSet(T)
  BY FS_Subset
<1>1. \A s \in SUBSET T : g[s] = SumOf(g, f, s) /\ h[s] = SumOf(h, f, s)
  BY DEF Adds
<1>2. 0 \in N
  <2>1. ASSUME NEW s \in SUBSET T, Cardinality(s) = 0 PROVE g[s] = h[s]
    <3>1. s = {}
      BY <1>0, <2>1, FS_EmptySet, FS_Subset
    <3> QED
      BY <1>1, <3>1 DEF SumOf
  <2> QED
    BY <2>1
<1>3. ASSUME NEW n \in N PROVE n + 1 \in N
  <2>1. ASSUME NEW s \in SUBSET T, Cardinality(s) = n + 1 PROVE g[s] = h[s]
    <3>1. s # {}
      <4>1. n \in Nat /\ Cardinality(s) # 0
        BY <1>3, <2>1
      <4> QED
        BY <4>1, FS_EmptySet
    <3>2. s \ {First(s)} \in SUBSET T /\ Cardinality(s \ {First(s)}) = n
      BY <1>0, <2>1, <3>1, SmallerSets
    <3>3. g[s \ {First(s)}] = h[s \ {First(s)}]
      BY <1>3, <3>2
    <3> QED
      BY <1>1, <3>1, <3>3 DEF SumOf
  <2> QED
    BY <2>1
<1>4. N = Nat
  <2> HIDE DEF N
  <2>1. N \in SUBSET Nat
    BY DEF N
  <2> QED
    BY <1>2, <1>3, <2>1, NatSets
<1>5. Cardinality(t) \in N
  BY <1>0, <1>4, FS_Subset, FS_CardinalityType
<1> QED
  BY <1>5

\* The sum over a set is what any function that adds up its subsets says.
LEMMA SumIs ==
    ASSUME NEW f, NEW S, IsFiniteSet(S), NEW g, Adds(g, f, SUBSET S),
           NEW T \in SUBSET S
    PROVE  SumOn(f, T) = g[T]
<1> DEFINE h == CHOOSE k : Adds(k, f, SUBSET T)
<1>1. IsFiniteSet(T)
  BY FS_Subset
<1>2. Adds(h, f, SUBSET T)
  BY <1>1, SumsExist
<1>3. g[T] = h[T]
  <2> HIDE DEF h
  <2> QED
    BY <1>2, SumsAgree
<1> QED
  BY <1>3, SumUnfolds

LEMMA SumSteps ==
    ASSUME NEW f, NEW S, IsFiniteSet(S)
    PROVE  /\ S = {} => SumOn(f, S) = 0
           /\ S # {} => SumOn(f, S) = f[First(S)] + SumOn(f, S \ {First(S)})
<1>1. PICK g : Adds(g, f, SUBSET S)
  BY SumsExist
<1>2. SumOn(f, S) = g[S] /\ SumOn(f, S \ {First(S)}) = g[S \ {First(S)}]
  BY <1>1, SumIs
<1>3. g[S] = SumOf(g, f, S)
  BY <1>1 DEF Adds
<1> QED
  BY <1>2, <1>3 DEF SumOf

\* A sum of numbers is a number.
LEMMA SumIsNat ==
    ASSUME NEW f, NEW S, IsFiniteSet(S), \A i \in S : f[i] \in Nat
    PROVE  SumOn(f, S) \in Nat
<1> DEFINE N == { n \in Nat : \A s \in SUBSET S : Cardinality(s) = n => SumOn(f, s) \in Nat }
<1>1. 0 \in N
  <2>1. ASSUME NEW s \in SUBSET S, Cardinality(s) = 0 PROVE SumOn(f, s) \in Nat
    <3>1. s = {} /\ IsFiniteSet(s)
      BY <2>1, FS_EmptySet, FS_Subset
    <3>2. SumOn(f, s) = 0
      BY <3>1, SumSteps
    <3> QED
      BY <3>2
  <2> QED
    BY <2>1
<1>2. ASSUME NEW n \in N PROVE n + 1 \in N
  <2>1. ASSUME NEW s \in SUBSET S, Cardinality(s) = n + 1 PROVE SumOn(f, s) \in Nat
    <3>1. s # {} /\ IsFiniteSet(s)
      BY <2>1, FS_EmptySet, FS_Subset
    <3>2. First(s) \in s /\ s \ {First(s)} \in SUBSET S /\ Cardinality(s \ {First(s)}) = n
      BY <2>1, <3>1, SmallerSets
    <3>3. SumOn(f, s \ {First(s)}) \in Nat
      BY <1>2, <3>2
    <3>4. SumOn(f, s) = f[First(s)] + SumOn(f, s \ {First(s)})
      BY <3>1, SumSteps
    <3>5. f[First(s)] \in Nat
      BY <3>2
    <3> QED
      BY <3>3, <3>4, <3>5
  <2> QED
    BY <2>1
<1>3. N = Nat
  <2> HIDE DEF N
  <2>1. N \in SUBSET Nat
    BY DEF N
  <2> QED
    BY <1>1, <1>2, <2>1, NatSets
<1>4. Cardinality(S) \in N
  BY <1>3, FS_CardinalityType
<1> QED
  BY <1>4

\* Any element may be taken from a sum of numbers.
LEMMA SumTakes ==
    ASSUME NEW f, NEW S, IsFiniteSet(S), \A i \in S : f[i] \in Nat
    PROVE  \A x \in S : SumOn(f, S) = f[x] + SumOn(f, S \ {x})
<1> DEFINE Claim(s) == \A x \in s : SumOn(f, s) = f[x] + SumOn(f, s \ {x})
           N == { n \in Nat : \A s \in SUBSET S : Cardinality(s) = n => Claim(s) }
<1>1. 0 \in N
  <2>1. ASSUME NEW s \in SUBSET S, Cardinality(s) = 0 PROVE Claim(s)
    <3>1. s = {}
      BY <2>1, FS_EmptySet, FS_Subset
    <3> QED
      BY <3>1
  <2> HIDE DEF Claim
  <2> QED
    BY <2>1
<1>2. ASSUME NEW n \in N PROVE n + 1 \in N
  <2>0. \A s \in SUBSET S : Cardinality(s) = n => Claim(s)
    BY <1>2
  <2>1. ASSUME NEW s \in SUBSET S, Cardinality(s) = n + 1 PROVE Claim(s)
    <3> DEFINE p == First(s)
    <3>1. s # {} /\ IsFiniteSet(s)
      BY <2>1, FS_EmptySet, FS_Subset
    <3>2. p \in s
      BY <3>1 DEF First
    <3>3. ASSUME NEW x \in s
          PROVE  s \ {x} \in SUBSET S /\ IsFiniteSet(s \ {x}) /\ Cardinality(s \ {x}) = n
      <4>1. IsFiniteSet(s \ {x}) /\ Cardinality(s \ {x}) = Cardinality(s) - 1
        BY <3>1, FS_RemoveElement
      <4>2. n \in Nat
        BY <1>2
      <4> QED
        BY <2>1, <4>1, <4>2
    <3>4. \A x \in s : Claim(s \ {x})
      BY <2>0, <3>3
    <3>5. SumOn(f, s) = f[p] + SumOn(f, s \ {p})
      BY <3>1, SumSteps
    <3>7. ASSUME NEW x \in s, x # p PROVE SumOn(f, s) = f[x] + SumOn(f, s \ {x})
      <4>1. (s \ {p}) \ {x} = (s \ {x}) \ {p}
        OBVIOUS
      <4>2. x \in s \ {p} /\ p \in s \ {x}
        BY <3>2, <3>7
      <4>3. SumOn(f, s \ {p}) = f[x] + SumOn(f, (s \ {p}) \ {x})
        BY <3>2, <3>4, <4>2
      <4>4. SumOn(f, s \ {x}) = f[p] + SumOn(f, (s \ {x}) \ {p})
        BY <3>4, <4>2
      <4>5. PICK rest : rest = SumOn(f, (s \ {x}) \ {p})
        OBVIOUS
      <4>6. rest \in Nat
        <5>1. (s \ {x}) \ {p} \in SUBSET S /\ IsFiniteSet((s \ {x}) \ {p})
          BY <3>3, FS_Subset
        <5> QED
          BY <4>5, <5>1, SumIsNat
      <4>7. f[x] \in Nat /\ f[p] \in Nat
        BY <3>2
      <4> QED
        BY <3>5, <4>1, <4>3, <4>4, <4>5, <4>6, <4>7
    <3> QED
      BY <3>5, <3>7
  <2> HIDE DEF Claim
  <2> QED
    BY <2>1
<1>3. N = Nat
  <2> HIDE DEF N
  <2>1. N \in SUBSET Nat
    BY DEF N
  <2> QED
    BY <1>1, <1>2, <2>1, NatSets
<1>4. Cardinality(S) \in N
  BY <1>3, FS_CardinalityType
<1> QED
  BY <1>4

LEMMA FiniteInduction ==
    ASSUME NEW S, IsFiniteSet(S), NEW P, {} \in P,
           \A T \in SUBSET S : T \in P => \A x \in S \ T : T \cup {x} \in P
    PROVE  S \in P
<1> DEFINE N == { n \in Nat : \A T \in SUBSET S : Cardinality(T) = n => T \in P }
<1>1. 0 \in N
  <2>1. ASSUME NEW T \in SUBSET S, Cardinality(T) = 0 PROVE T \in P
    <3>1. T = {}
      BY <2>1, FS_EmptySet, FS_Subset
    <3> QED
      BY <3>1
  <2> QED
    BY <2>1
<1>2. ASSUME NEW n \in N PROVE n + 1 \in N
  <2>1. ASSUME NEW T \in SUBSET S, Cardinality(T) = n + 1 PROVE T \in P
    <3>1. n \in Nat /\ T # {} /\ IsFiniteSet(T)
      BY <1>2, <2>1, FS_EmptySet, FS_Subset
    <3>2. First(T) \in T /\ T \ {First(T)} \in SUBSET S /\ Cardinality(T \ {First(T)}) = n
      BY <2>1, <3>1, SmallerSets
    <3>3. T \ {First(T)} \in P
      BY <1>2, <3>2
    <3>4. T = (T \ {First(T)}) \cup {First(T)} /\ First(T) \in S \ (T \ {First(T)})
      BY <3>2
    <3> QED
      BY <3>2, <3>3, <3>4
  <2> QED
    BY <1>2, <2>1
<1>3. N = Nat
  <2> HIDE DEF N
  <2>1. N \in SUBSET Nat
    BY DEF N
  <2> QED
    BY <1>1, <1>2, <2>1, NatSets
<1>4. Cardinality(S) \in N
  BY <1>3, FS_CardinalityType
<1> QED
  BY <1>4

LEMMA SumOfNone == ASSUME NEW f PROVE SumOn(f, {}) = 0
  BY FS_EmptySet, SumSteps

LEMMA SumAdds ==
    ASSUME NEW f, NEW S, IsFiniteSet(S), \A i \in S : f[i] \in Nat,
           NEW x, x \notin S, f[x] \in Nat
    PROVE  SumOn(f, S \cup {x}) = SumOn(f, S) + f[x]
<1>1. IsFiniteSet(S \cup {x}) /\ (S \cup {x}) \ {x} = S /\ x \in S \cup {x}
  BY FS_AddElement
<1>2. \A i \in S \cup {x} : f[i] \in Nat
  OBVIOUS
<1>3. SumOn(f, S \cup {x}) = f[x] + SumOn(f, (S \cup {x}) \ {x})
  BY <1>1, <1>2, SumTakes
<1>4. SumOn(f, S) \in Nat
  BY SumIsNat
<1>5. SumOn(f, S \cup {x}) = f[x] + SumOn(f, S)
  BY <1>1, <1>3
<1> QED
  BY <1>4, <1>5

LEMMA SumSame ==
    ASSUME NEW f, NEW h, NEW S, IsFiniteSet(S),
           \A i \in S : f[i] \in Nat /\ h[i] = f[i]
    PROVE  SumOn(h, S) = SumOn(f, S)
<1> DEFINE P == { T \in SUBSET S : SumOn(h, T) = SumOn(f, T) }
<1>1. {} \in P
  BY SumOfNone
<1>2. ASSUME NEW T \in SUBSET S, T \in P, NEW x \in S \ T
      PROVE  T \cup {x} \in P
  <2>1. IsFiniteSet(T) /\ x \notin T
    BY FS_Subset
  <2>2. \A i \in T : f[i] \in Nat /\ h[i] \in Nat
    OBVIOUS
  <2>3. f[x] \in Nat /\ h[x] \in Nat /\ h[x] = f[x]
    OBVIOUS
  <2>4. SumOn(f, T \cup {x}) = SumOn(f, T) + f[x]
    BY <2>1, <2>2, <2>3, SumAdds
  <2>5. SumOn(h, T \cup {x}) = SumOn(h, T) + h[x]
    BY <2>1, <2>2, <2>3, SumAdds
  <2> QED
    BY <1>2, <2>3, <2>4, <2>5
<1>3. S \in P
  <2> HIDE DEF P
  <2> QED
    BY <1>1, <1>2, FiniteInduction
<1> QED
  BY <1>3

\* A sum of numbers of which one is changed, or none.
LEMMA SumChanges ==
    ASSUME NEW f, NEW h, NEW S, IsFiniteSet(S), NEW x,
           \A i \in S : f[i] \in Nat /\ h[i] \in Nat /\ (i # x => h[i] = f[i])
    PROVE  /\ x \in S => SumOn(h, S) = SumOn(f, S) - f[x] + h[x]
           /\ x \notin S => SumOn(h, S) = SumOn(f, S)
<1>1. CASE x \notin S
  BY <1>1, SumSame
<1>2. CASE x \in S
  <2>1. IsFiniteSet(S \ {x})
    BY FS_Subset
  <2>2. \A i \in S \ {x} : f[i] \in Nat /\ h[i] = f[i]
    OBVIOUS
  <2>3. SumOn(h, S \ {x}) = SumOn(f, S \ {x})
    BY <2>1, <2>2, SumSame
  <2>4. SumOn(f, S) = f[x] + SumOn(f, S \ {x})
    BY <1>2, SumTakes
  <2>5. SumOn(h, S) = h[x] + SumOn(h, S \ {x})
    BY <1>2, SumTakes
  <2>6. SumOn(f, S \ {x}) \in Nat /\ f[x] \in Nat /\ h[x] \in Nat
    BY <1>2, <2>1, SumIsNat
  <2> QED
    BY <1>2, <2>3, <2>4, <2>5, <2>6
<1> QED
  BY <1>1, <1>2

LEMMA SumOfLess ==
    ASSUME NEW f, NEW S, IsFiniteSet(S), \A i \in S : f[i] \in Nat, NEW T \in SUBSET S
    PROVE  SumOn(f, T) <= SumOn(f, S)
<1> DEFINE P == { U \in SUBSET S : SumOn(f, T \cap U) <= SumOn(f, U) }
<1>1. {} \in P
  <2>1. SumOn(f, {}) = 0 /\ T \cap {} = {}
    BY SumOfNone
  <2> QED
    BY <2>1
<1>2. ASSUME NEW U \in SUBSET S, U \in P, NEW x \in S \ U
      PROVE  U \cup {x} \in P
  <2>1. IsFiniteSet(U) /\ IsFiniteSet(T \cap U) /\ x \notin U /\ x \notin T \cap U
    BY FS_Subset
  <2>2. f[x] \in Nat /\ \A i \in U : f[i] \in Nat
    OBVIOUS
  <2>3. SumOn(f, U \cup {x}) = SumOn(f, U) + f[x]
    BY <2>1, <2>2, SumAdds
  <2>4. SumOn(f, (T \cap U) \cup {x}) = SumOn(f, T \cap U) + f[x]
    BY <2>1, <2>2, SumAdds
  <2>5. SumOn(f, U) \in Nat /\ SumOn(f, T \cap U) \in Nat
    BY <2>1, <2>2, SumIsNat
  <2>6. T \cap (U \cup {x}) = T \cap U \/ T \cap (U \cup {x}) = (T \cap U) \cup {x}
    OBVIOUS
  <2>7. SumOn(f, T \cap U) <= SumOn(f, U)
    BY <1>2
  <2>8. PICK less \in Nat, more \in Nat, k \in Nat :
            /\ less = SumOn(f, T \cap U) /\ more = SumOn(f, U) /\ k = f[x]
            /\ less <= more
    BY <2>2, <2>5, <2>7
  <2>9. SumOn(f, T \cap (U \cup {x})) \in {less, less + k}
    BY <2>4, <2>6, <2>8
  <2>10. SumOn(f, U \cup {x}) = more + k
    BY <2>3, <2>8
  <2>11. less <= more + k /\ less + k <= more + k
    BY <2>8
  <2>12. SumOn(f, T \cap (U \cup {x})) <= SumOn(f, U \cup {x})
    BY <2>9, <2>10, <2>11
  <2> QED
    BY <2>12
<1>3. S \in P
  <2> HIDE DEF P
  <2> QED
    BY <1>1, <1>2, FiniteInduction
<1>4. T \cap S = T
  OBVIOUS
<1> QED
  BY <1>3, <1>4

LEMMA SumOfZeros ==
    ASSUME NEW f, NEW S, IsFiniteSet(S), \A i \in S : f[i] = 0
    PROVE  SumOn(f, S) = 0
<1> DEFINE P == { U \in SUBSET S : SumOn(f, U) = 0 }
<1>1. {} \in P
  BY SumOfNone
<1>2. ASSUME NEW U \in SUBSET S, U \in P, NEW x \in S \ U
      PROVE  U \cup {x} \in P
  <2>1. IsFiniteSet(U) /\ x \notin U /\ f[x] = 0 /\ \A i \in U : f[i] \in Nat
    BY FS_Subset
  <2>2. SumOn(f, U \cup {x}) = SumOn(f, U) + f[x]
    BY <2>1, SumAdds
  <2> QED
    BY <1>2, <2>1, <2>2
<1>3. S \in P
  <2> HIDE DEF P
  <2> QED
    BY <1>1, <1>2, FiniteInduction
<1> QED
  BY <1>3

----------------------------------------------------------------------------
(* Types, as far as they do not rest on sums. *)

Kinds == Subscriptions \cup {"settings"}

AccountTyped ==
    /\ now \in Times
    /\ user \subseteq Users
    /\ events \subseteq Subscriptions \cup {"deleted"}
    /\ tasks \in [Workers -> Tasks]
    /\ \A w \in Workers : tasks[w].step = "save" =>
           tasks[w].user # {} /\ tasks[w].event \in Kinds

LEMMA NewUserType == NewUser \in Users
  BY DEF NewUser, Users

LEMMA TaskFields ==
    ASSUME NEW step \in Steps, NEW row \in SUBSET Users,
           NEW event \in Subscriptions \cup {"settings", "none"},
           NEW renews \in SUBSET Renewals
    PROVE  /\ Task(step, row, event, renews) \in Tasks
           /\ Task(step, row, event, renews).step = step
           /\ Task(step, row, event, renews).user = row
           /\ Task(step, row, event, renews).event = event
           /\ Task(step, row, event, renews).renews = renews
  BY DEF Task, Tasks

LEMMA IdleTask ==
    Idle \in Tasks /\ Idle.step = "idle" /\ Idle.user = {} /\ Idle.renews = {}
  BY TaskFields DEF Idle, Steps

\* One handler goes on to a task, which is typed.
LEMMA BecomeType ==
    ASSUME AccountTyped, NEW w \in Workers, NEW task \in Tasks, Become(w, task),
           task.step = "save" => task.user # {} /\ task.event \in Kinds
    PROVE  /\ tasks' \in [Workers -> Tasks]
           /\ tasks'[w] = task
           /\ \A v \in Workers \ {w} : tasks'[v] = tasks[v]
           /\ \A v \in Workers : tasks'[v].step = "save" =>
                  tasks'[v].user # {} /\ tasks'[v].event \in Kinds
  BY DEF AccountTyped, Become

\* What a handler does, of everything that a task is about.
LEMMA BecomesTask ==
    ASSUME AccountTyped, NEW w \in Workers, NEW step \in Steps \ {"save"},
           NEW row \in SUBSET Users, Become(w, Task(step, row, "none", {}))
    PROVE  /\ tasks' \in [Workers -> Tasks]
           /\ tasks'[w].step = step /\ tasks'[w].user = row /\ tasks'[w].renews = {}
           /\ \A v \in Workers \ {w} : tasks'[v] = tasks[v]
           /\ \A v \in Workers : tasks'[v].step = "save" =>
                  tasks'[v].user # {} /\ tasks'[v].event \in Kinds
<1>1. {} \in SUBSET Renewals /\ "none" \in Subscriptions \cup {"settings", "none"}
  OBVIOUS
<1>2. /\ Task(step, row, "none", {}) \in Tasks
      /\ Task(step, row, "none", {}).step = step
      /\ Task(step, row, "none", {}).user = row
      /\ Task(step, row, "none", {}).renews = {}
  BY <1>1, TaskFields
<1> QED
  BY <1>2, BecomeType

LEMMA BecomesIdle ==
    ASSUME AccountTyped, NEW w \in Workers, Become(w, Idle)
    PROVE  /\ tasks' \in [Workers -> Tasks]
           /\ tasks'[w].step = "idle" /\ tasks'[w].user = {} /\ tasks'[w].renews = {}
           /\ \A v \in Workers \ {w} : tasks'[v] = tasks[v]
           /\ \A v \in Workers : tasks'[v].step = "save" =>
                  tasks'[v].user # {} /\ tasks'[v].event \in Kinds
  BY IdleTask, BecomeType

LEMMA TypedInit == Init => AccountTyped
<1> SUFFICES ASSUME Init PROVE AccountTyped
  OBVIOUS
<1>1. MaxTime \in Nat
  BY BillingAssumption
<1>2. now \in Times
  BY <1>1 DEF Init, Times
<1>3. user \subseteq Users /\ events = {}
  BY NewUserType DEF Init
<1>4. tasks \in [Workers -> Tasks] /\ \A w \in Workers : tasks[w].step # "save"
  BY IdleTask DEF Init
<1> QED
  BY <1>2, <1>3, <1>4 DEF AccountTyped

\* What the handlers of events and requests do to the account.
LEMMA SubscribedType ==
    ASSUME NEW u \in Users, NEW kind \in Kinds, NEW renews \in SUBSET Renewals
    PROVE  Subscribed(u, kind, renews) \in Users
<1>1. CASE kind \in {"created", "updated"}
  BY <1>1 DEF Subscribed, Users
<1>2. CASE kind = "cancelled"
  BY <1>2 DEF Subscribed, Users
<1>3. CASE kind = "expired"
  BY <1>3, NewUserType DEF Subscribed
<1>4. CASE kind = "settings"
  BY <1>4 DEF Subscribed
<1> QED
  BY <1>1, <1>2, <1>3, <1>4 DEF Kinds, Subscriptions

\* A handler that loads the user to save it.
LEMMA BecomesSave ==
    ASSUME AccountTyped, NEW w \in Workers, user # {}, NEW kind \in Kinds,
           NEW renews \in SUBSET Renewals, Become(w, Task("save", user, kind, renews))
    PROVE  /\ tasks' \in [Workers -> Tasks]
           /\ tasks'[w].step = "save" /\ tasks'[w].user = user /\ tasks'[w].renews = renews
           /\ \A v \in Workers \ {w} : tasks'[v] = tasks[v]
           /\ \A v \in Workers : tasks'[v].step = "save" =>
                  tasks'[v].user # {} /\ tasks'[v].event \in Kinds
<1>1. user \in SUBSET Users /\ "save" \in Steps
      /\ kind \in Subscriptions \cup {"settings", "none"}
  BY DEF AccountTyped, Steps, Kinds
<1>2. /\ Task("save", user, kind, renews) \in Tasks
      /\ Task("save", user, kind, renews).step = "save"
      /\ Task("save", user, kind, renews).user = user
      /\ Task("save", user, kind, renews).event = kind
      /\ Task("save", user, kind, renews).renews = renews
  BY <1>1, TaskFields
<1> QED
  BY <1>2, BecomeType

\* What a step of a handler leaves behind: the task it goes on to, and no other
\* handler moves.
Moves(w) ==
    /\ tasks' \in [Workers -> Tasks]
    /\ \A v \in Workers \ {w} : tasks'[v] = tasks[v]
    /\ \A v \in Workers : tasks'[v].step = "save" =>
           tasks'[v].user # {} /\ tasks'[v].event \in Kinds
    /\ tasks'[w].user \in {{}, user, tasks[w].user}
    /\ UNCHANGED tasks \/ \E renewal : tasks'[w].renews \subseteq {renewal}

Handler(w) ==
    \/ MissUsage(w) \/ ReadUser(w) \/ RegisterRow(w)
    \/ IsEntitled(w) \/ CheckUsage(w) \/ CheckUsageFails(w) \/ Accept(w)
    \/ RegisterMessage(w) \/ RegisterFails(w) \/ AlertUser(w) \/ AlertUsage(w)
    \/ HandleSubscription(w) \/ Settings(w) \/ SaveUser(w)
    \/ Delete(w) \/ DeleteUser(w) \/ AnnounceDeleted(w)
    \/ DeleteAllForUser(w) \/ DeleteAllFails(w)

LEMMA Moved ==
    ASSUME AccountTyped, NEW w \in Workers, Handler(w)
    PROVE  /\ Moves(w)
           /\ tasks[w].step = "announce" => AnnounceDeleted(w) \/ UNCHANGED tasks
           /\ tasks'[w].step = "announce" => DeleteUser(w) \/ UNCHANGED tasks
<1> USE DEF Moves
<1>1. CASE UNCHANGED tasks
  BY <1>1 DEF AccountTyped
<1>2. CASE Become(w, Idle) /\ (tasks[w].step = "announce" => AnnounceDeleted(w))
  BY <1>2, BecomesIdle
<1>3. CASE tasks[w].step # "announce" /\
           \E step \in Steps \ {"save"}, row \in {{}, user} :
               /\ Become(w, Task(step, row, "none", {}))
               /\ step = "announce" => DeleteUser(w)
  <2>1. PICK step \in Steps \ {"save"}, row \in {{}, user} :
            /\ Become(w, Task(step, row, "none", {}))
            /\ step = "announce" => DeleteUser(w)
    BY <1>3
  <2>2. row \in SUBSET Users /\ row \subseteq user
    BY <2>1 DEF AccountTyped
  <2> QED
    BY <1>3, <2>1, <2>2, BecomesTask
<1>4. CASE tasks[w].step # "announce" /\ user # {} /\
           \E kind \in Kinds, renews \in SUBSET Renewals :
               /\ Become(w, Task("save", user, kind, renews))
               /\ \E renewal : renews \subseteq {renewal}
  BY <1>4, BecomesSave
<1>5. CASE IsEntitled(w)
  BY <1>2, <1>3, <1>5, IdleTask DEF IsEntitled, Steps
<1>6. CASE CheckUsage(w)
  BY <1>2, <1>3, <1>6 DEF CheckUsage, Steps
<1>7. CASE CheckUsageFails(w)
  BY <1>3, <1>7 DEF CheckUsageFails, Steps
<1>8. CASE Accept(w) \/ AlertUsage(w) \/ SaveUser(w) \/ AnnounceDeleted(w)
  BY <1>2, <1>8 DEF Accept, AlertUsage, SaveUser, AnnounceDeleted
<1>9. CASE RegisterMessage(w) \/ RegisterRow(w)
  <2>1. \E step \in {"alert", "register"} : Become(w, Task(step, {}, "none", {}))
    BY <1>9 DEF RegisterMessage, Register, RegisterRow
  <2>2. tasks[w].step # "announce"
    BY <1>9, IdleTask DEF RegisterMessage, RegisterRow
  <2>3. {"alert", "register"} \subseteq Steps \ {"save", "announce"}
    BY DEF Steps
  <2> QED
    BY <1>3, <2>1, <2>2, <2>3
<1>10. CASE MissUsage(w) \/ ReadUser(w) \/ DeleteAllForUser(w) \/ DeleteAllFails(w)
  BY <1>1, <1>10 DEF MissUsage, ReadUser, DeleteAllForUser, DeleteAllFails
<1>15. CASE RegisterFails(w)
  BY <1>2, <1>15, IdleTask DEF RegisterFails
<1>11. CASE AlertUser(w)
  BY <1>2, <1>3, <1>11 DEF AlertUser, Steps
<1>12. CASE HandleSubscription(w)
  <2>1. CASE UNCHANGED tasks
    BY <1>1, <1>12, <2>1 DEF HandleSubscription
  <2>2. CASE user # {} /\ \E kind \in Subscriptions, renewal \in Renewals :
                 Become(w, Task("save", user, kind, {renewal}))
    <3>1. PICK kind \in Subscriptions, renewal \in Renewals :
              Become(w, Task("save", user, kind, {renewal}))
      BY <2>2
    <3>2. kind \in Kinds /\ {renewal} \in SUBSET Renewals
          /\ \E r : {renewal} \subseteq {r}
      BY DEF Kinds
    <3> QED
      BY <1>4, <1>12, <2>2, <3>1, <3>2, IdleTask DEF HandleSubscription
  <2> QED
    BY <1>12, <2>1, <2>2 DEF HandleSubscription
<1>13. CASE Settings(w)
  BY <1>4, <1>13, IdleTask DEF Settings, Kinds
<1>14. CASE Delete(w) \/ DeleteUser(w)
  BY <1>3, <1>14, IdleTask DEF Delete, DeleteUser, Steps
<1> QED
  BY <1>5, <1>6, <1>7, <1>8, <1>9, <1>10, <1>11, <1>12, <1>13, <1>14, <1>15 DEF Handler

\* Who changes the account, and when usage is added or dropped.
LEMMA AccountSteps ==
    ASSUME AccountTyped, NEW w \in Workers, Handler(w)
    PROVE  /\ UNCHANGED now
           /\ UNCHANGED user \/ SaveUser(w) \/ DeleteUser(w)
           /\ events' \subseteq events \/ AnnounceDeleted(w)
           /\ "deleted" \in events =>
                  "deleted" \in events' \/ DeleteAllForUser(w) \/ DeleteAllFails(w)
           /\ \/ UNCHANGED <<usage, created>>
              \/ CheckUsage(w) \/ RegisterMessage(w) \/ RegisterRow(w)
              \/ AlertUsage(w) \/ DeleteAllForUser(w)
<1> USE DEF accountVars, usageVars
<1>1. CASE IsEntitled(w)
  BY <1>1 DEF IsEntitled
<1>2. CASE CheckUsage(w)
  BY <1>2 DEF CheckUsage
<1>3. CASE CheckUsageFails(w) \/ Accept(w)
  BY <1>3 DEF CheckUsageFails, Accept
<1>4. CASE RegisterMessage(w) \/ RegisterRow(w) \/ RegisterFails(w)
  BY <1>4 DEF RegisterMessage, RegisterRow, RegisterFails
<1>5. CASE AlertUser(w) \/ AlertUsage(w)
  BY <1>5 DEF AlertUser, AlertUsage
<1>9. CASE MissUsage(w) \/ ReadUser(w)
  BY <1>9 DEF MissUsage, ReadUser
<1>6. CASE HandleSubscription(w)
  BY <1>6 DEF HandleSubscription, Subscriptions
<1>7. CASE Settings(w) \/ SaveUser(w) \/ Delete(w) \/ DeleteUser(w)
  BY <1>7 DEF Settings, SaveUser, Delete, DeleteUser
<1>8. CASE AnnounceDeleted(w) \/ DeleteAllForUser(w) \/ DeleteAllFails(w)
  BY <1>8 DEF AnnounceDeleted, DeleteAllForUser, DeleteAllFails
<1> QED
  BY <1>1, <1>2, <1>3, <1>4, <1>5, <1>6, <1>7, <1>8, <1>9 DEF Handler

LEMMA OddAction ==
    ASSUME NEW odd, Note(odd) \/ Fault(odd)
    PROVE  oddities \cup odd = oddities'
  BY DEF Note, Fault, Remember

\* Oddities are never forgotten.
LEMMA OdditiesStay ==
    ASSUME [Next]_vars
    PROVE  oddities \subseteq oddities'
<1>1. CASE UNCHANGED vars
  BY <1>1 DEF vars
<1>2. CASE Tick \/ Visit \/ \E kind \in Subscriptions : Webhook(kind)
  BY <1>2, OddAction DEF Tick, Visit, Webhook
<1>3. ASSUME NEW w \in Workers, Handler(w)
      PROVE  oddities \subseteq oddities'
  <2>1. CASE IsEntitled(w) \/ CheckUsage(w) \/ CheckUsageFails(w) \/ Accept(w)
    BY <2>1, OddAction DEF IsEntitled, CheckUsage, CheckUsageFails, Accept
  <2>2. CASE RegisterMessage(w) \/ RegisterRow(w) \/ RegisterFails(w)
    BY <2>2, OddAction DEF RegisterMessage, RegisterRow, RegisterFails
  <2>3. CASE AlertUser(w) \/ AlertUsage(w) \/ MissUsage(w) \/ ReadUser(w)
    BY <2>3, OddAction DEF AlertUser, AlertUsage, MissUsage, ReadUser
  <2>4. CASE HandleSubscription(w) \/ Settings(w) \/ SaveUser(w) \/ Delete(w) \/ DeleteUser(w)
    BY <2>4, OddAction DEF HandleSubscription, Settings, SaveUser, Delete, DeleteUser
  <2>5. CASE AnnounceDeleted(w) \/ DeleteAllForUser(w) \/ DeleteAllFails(w)
    BY <2>5, OddAction DEF AnnounceDeleted, DeleteAllForUser, DeleteAllFails
  <2> QED
    BY <1>3, <2>1, <2>2, <2>3, <2>4, <2>5 DEF Handler
<1> QED
  BY <1>1, <1>2, <1>3 DEF Next, Handler

LEMMA TypedNext == AccountTyped /\ [Next]_vars => AccountTyped'
<1> SUFFICES ASSUME AccountTyped, [Next]_vars PROVE AccountTyped'
  OBVIOUS
<1>1. CASE UNCHANGED vars
  BY <1>1 DEF vars, accountVars, AccountTyped
<1>2. CASE Tick
  <2>1. now' \in Times
    BY <1>2, BillingAssumption DEF AccountTyped, Times, Tick
  <2> QED
    BY <1>2, <2>1 DEF AccountTyped, Tick, accountVars
<1>3. CASE Visit
  BY <1>3, NewUserType DEF Visit, AccountTyped
<1>4. ASSUME NEW kind \in Subscriptions, Webhook(kind)
      PROVE  AccountTyped'
  BY <1>4 DEF Webhook, AccountTyped
<1>5. ASSUME NEW w \in Workers, Handler(w)
      PROVE  AccountTyped'
  <2>1. Moves(w)
    BY <1>5, Moved
  <2>2. now' \in Times
    BY <1>5, AccountSteps DEF AccountTyped
  <2>3. user' \subseteq Users
    <3>1. CASE SaveUser(w)
      <4>1. tasks[w] \in Tasks /\ tasks[w].step = "save" /\ tasks[w].event \in Kinds
        BY <3>1 DEF SaveUser, AccountTyped
      <4>2. tasks[w].user \subseteq Users /\ tasks[w].renews \in SUBSET Renewals
        BY <4>1 DEF Tasks
      <4>3. user' = { Subscribed(u, tasks[w].event, tasks[w].renews) : u \in tasks[w].user }
        BY <3>1 DEF SaveUser
      <4> QED
        BY <4>1, <4>2, <4>3, SubscribedType
    <3>2. CASE DeleteUser(w)
      BY <3>2 DEF DeleteUser
    <3> QED
      BY <1>5, <3>1, <3>2, AccountSteps DEF AccountTyped
  <2>4. events' \subseteq Subscriptions \cup {"deleted"}
    <3>1. CASE AnnounceDeleted(w)
      BY <3>1 DEF AnnounceDeleted, AccountTyped
    <3> QED
      BY <1>5, <3>1, AccountSteps DEF AccountTyped
  <2> QED
    BY <2>1, <2>2, <2>3, <2>4 DEF AccountTyped, Moves
<1> QED
  BY <1>1, <1>2, <1>3, <1>4, <1>5 DEF Next, Handler

----------------------------------------------------------------------------
(* How a step changes the usage. *)

Reads ==
    /\ \E w \in Workers : (\E current : GetCurrent(w, current)) /\ Raced(w) \subseteq oddities'
    /\ UNCHANGED registered

Updates(t) == Covering(t) # {} /\ usage' = Counted(t)

Inserts(w, used) == \E row \in NewRows(w, used) : Insert(w, row)

Counts ==
    /\ \/ (\E t \in Times : Updates(t)) /\ UNCHANGED created
       \/ \E w \in Workers : Inserts(w, 1) /\ Raced(w) \subseteq oddities'
    /\ registered' = registered + 1

Drops == usage' = {} /\ registered' = 0 /\ UNCHANGED created

LEMMA UsageSteps ==
    ASSUME AccountTyped, [Next]_vars
    PROVE  UNCHANGED <<usage, registered, created>> \/ Reads \/ Counts \/ Drops
<1> USE DEF usageVars
<1>1. CASE UNCHANGED vars
  BY <1>1 DEF vars
<1>2. CASE Tick \/ Visit \/ \E kind \in Subscriptions : Webhook(kind)
  BY <1>2 DEF Tick, Visit, Webhook
<1>3. ASSUME NEW w \in Workers, Handler(w)
      PROVE  UNCHANGED <<usage, registered, created>> \/ Reads \/ Counts \/ Drops
  <2>1. CASE CheckUsage(w)
    <3>1. PICK u \in tasks[w].user, current \in Currents(w) : GetCurrent(w, current)
      BY <2>1 DEF CheckUsage
    <3>2. Raced(w) \subseteq oddities' /\ UNCHANGED registered
      BY <2>1, OddAction DEF CheckUsage
    <3> QED
      BY <3>1, <3>2 DEF Reads
  <2>2. CASE RegisterMessage(w)
    <3>1. PICK t \in Times : Register(w, t)
      BY <2>2 DEF RegisterMessage
    <3>2. UNCHANGED created
      BY <2>2 DEF RegisterMessage
    <3> QED
      BY <3>1, <3>2 DEF Register, Updates, Counts
  <2>3. CASE AlertUsage(w)
    <3>1. CASE \E current : GetCurrent(w, current) /\ Note(Raced(w))
      <4>1. Raced(w) \subseteq oddities' /\ UNCHANGED registered
        BY <2>3, <3>1, OddAction DEF AlertUsage
      <4> QED
        BY <3>1, <4>1 DEF Reads
    <3> QED
      BY <2>3, <3>1 DEF AlertUsage
  <2>4. CASE DeleteAllForUser(w)
    BY <2>4 DEF DeleteAllForUser, Drops
  <2>6. CASE RegisterRow(w)
    <3>1. Raced(w) \subseteq oddities'
      BY <2>6, OddAction DEF RegisterRow
    <3> QED
      BY <2>6, <3>1 DEF RegisterRow, Inserts, Counts
  <2>5. CASE UNCHANGED <<usage, created>> /\ ~RegisterMessage(w) /\ ~RegisterRow(w)
             /\ ~DeleteAllForUser(w)
    <3>1. CASE IsEntitled(w) \/ CheckUsage(w) \/ CheckUsageFails(w) \/ Accept(w)
      BY <2>5, <3>1 DEF IsEntitled, CheckUsage, CheckUsageFails, Accept
    <3>2. CASE RegisterFails(w) \/ AlertUser(w) \/ AlertUsage(w) \/ HandleSubscription(w)
      BY <2>5, <3>2 DEF RegisterFails, AlertUser, AlertUsage, HandleSubscription
    <3>3. CASE Settings(w) \/ SaveUser(w) \/ Delete(w) \/ DeleteUser(w)
      BY <2>5, <3>3 DEF Settings, SaveUser, Delete, DeleteUser
    <3>4. CASE AnnounceDeleted(w) \/ DeleteAllFails(w) \/ MissUsage(w) \/ ReadUser(w)
      BY <2>5, <3>4 DEF AnnounceDeleted, DeleteAllFails, MissUsage, ReadUser
    <3> QED
      BY <1>3, <2>5, <3>1, <3>2, <3>3, <3>4 DEF Handler
  <2> QED
    BY <1>3, <2>1, <2>2, <2>3, <2>4, <2>5, <2>6, AccountSteps
<1> QED
  BY <1>1, <1>2, <1>3 DEF Next, Handler

----------------------------------------------------------------------------
(* The types that rest on there being one account, with one time of renewal: *)
(* the anchor day is a number, and so are the starts of the rows.            *)

Single(S) == \A x, y \in S : x = y

OneAccount ==
    /\ Single(user)
    /\ \A u \in user : Single(u.renews)
    /\ \A w \in Workers : Single(tasks[w].user) /\ Single(tasks[w].renews)
    /\ \A w \in Workers : \A u \in tasks[w].user : Single(u.renews)

RowsTyped ==
    /\ usage \subseteq Rows
    /\ IsFiniteSet(usage)
    /\ \A row, other \in usage : row.id = other.id => row = other

LEMMA OneAccountNext ==
    ASSUME AccountTyped, OneAccount, [Next]_vars
    PROVE  OneAccount'
<1>1. CASE UNCHANGED <<user, tasks>>
  BY <1>1 DEF OneAccount
<1>2. CASE UNCHANGED vars \/ Tick \/ \E kind \in Subscriptions : Webhook(kind)
  BY <1>1, <1>2 DEF vars, accountVars, Tick, Webhook
<1>3. CASE Visit
  <2>1. user' = {NewUser} /\ UNCHANGED tasks /\ NewUser.renews = {}
    BY <1>3 DEF Visit, NewUser
  <2> QED
    BY <2>1 DEF OneAccount, Single
<1>4. ASSUME NEW w \in Workers, Handler(w)
      PROVE  OneAccount'
  <2>1. /\ tasks' \in [Workers -> Tasks]
        /\ \A v \in Workers \ {w} : tasks'[v] = tasks[v]
        /\ tasks'[w].user \in {{}, user, tasks[w].user}
        /\ UNCHANGED tasks \/ \E renewal : tasks'[w].renews \subseteq {renewal}
    BY <1>4, Moved DEF Moves
  <2>2. \A v \in Workers : /\ Single(tasks'[v].user) /\ Single(tasks'[v].renews)
                           /\ \A u \in tasks'[v].user : Single(u.renews)
    <3>1. /\ Single(tasks'[w].user) /\ Single(tasks'[w].renews)
          /\ \A u \in tasks'[w].user : Single(u.renews)
      BY <2>1 DEF OneAccount, Single
    <3> QED
      BY <2>1, <3>1 DEF OneAccount
  <2>3. Single(user') /\ \A u \in user' : Single(u.renews)
    <3>1. CASE SaveUser(w)
      <4>1. /\ user' = { Subscribed(u, tasks[w].event, tasks[w].renews) : u \in tasks[w].user }
            /\ tasks[w].event \in Kinds
        BY <3>1 DEF SaveUser, AccountTyped
      <4>2. ASSUME NEW u \in tasks[w].user
            PROVE  Single(Subscribed(u, tasks[w].event, tasks[w].renews).renews)
        <5>1. Single(u.renews) /\ Single(tasks[w].renews) /\ Single({})
          BY DEF OneAccount, Single
        <5> QED
          BY <4>1, <5>1 DEF Subscribed, NewUser, Kinds, Subscriptions
      <4> QED
        BY <4>1, <4>2 DEF OneAccount, Single
    <3>2. CASE user' = user \/ user' = {}
      BY <3>2 DEF OneAccount, Single
    <3> QED
      BY <1>4, <3>1, <3>2, AccountSteps DEF DeleteUser
  <2> QED
    BY <2>2, <2>3 DEF OneAccount
<1> QED
  BY <1>2, <1>3, <1>4 DEF Next, Handler

LEMMA AnchorIsDay ==
    ASSUME NEW u \in Users, Single(u.renews)
    PROVE  GetBillingAnchorDay(u) \in Int
<1>1. Month \in Nat /\ Month > 1 /\ Created \in Nat
  BY BillingAssumption
<1>2. CASE u.renews # {}
  <2>1. PICK day : u.renews = {day}
    BY <1>2 DEF Single
  <2>2. day \in Nat
    BY <2>1, BillingAssumption DEF Users
  <2>3. Max(u.renews) = day
    BY <2>1, <2>2 DEF Max
  <2> QED
    BY <1>1, <2>2, <2>3 DEF GetBillingAnchorDay
<1> QED
  BY <1>1, <1>2 DEF GetBillingAnchorDay

\* How a step changes the row that a handler makes.
LEMMA MakingSteps ==
    ASSUME AccountTyped, making \in [Workers -> Makings], NEW w \in Workers, Handler(w)
    PROVE  /\ \A v \in Workers \ {w} : making'[v] = making[v]
           /\ making' = [v \in Workers |-> making'[v]]
           /\ \/ making'[w] \in {making[w], MakesNone}
              \/ \E t \in Times : /\ Covering(t) = {}
                                  /\ making'[w] = [step |-> "read", at |-> t, start |-> 0]
                                  /\ Gap(t) \subseteq oddities'
                                  /\ t = now \/ Late(t) \subseteq oddities'
              \/ /\ making[w].step = "read"
                 /\ \E u \in user :
                        making'[w] = [step |-> "insert", at |-> making[w].at,
                                      start |-> StartOfCycle(making[w].at, GetBillingAnchorDay(u))]
<1> USE DEF usageVars
<1>1. CASE UNCHANGED making
  BY <1>1
<1>2. CASE Unmake(w)
  BY <1>2 DEF Unmake
<1>3. ASSUME NEW t \in Times, Miss(w, t), Gap(t) \subseteq oddities',
             t = now \/ Late(t) \subseteq oddities'
      PROVE  /\ \A v \in Workers \ {w} : making'[v] = making[v]
             /\ making' = [v \in Workers |-> making'[v]]
             /\ Covering(t) = {}
             /\ making'[w] = [step |-> "read", at |-> t, start |-> 0]
  BY <1>3 DEF Miss
<1>4. CASE ReadUser(w)
  BY <1>4 DEF ReadUser, ReadFor
<1>5. CASE MissUsage(w)
  BY <1>3, <1>5, OddAction DEF MissUsage, AccountTyped
<1>6. CASE RegisterMessage(w)
  <2>1. PICK t \in Times :
            /\ Note(Strange(t)) \/ Fault(Strange(t) \cup {"again"})
            /\ Register(w, t)
    BY <1>6 DEF RegisterMessage
  <2>2. Gap(t) \subseteq oddities' /\ Late(t) \subseteq oddities'
    BY <2>1, OddAction DEF Strange
  <2> QED
    BY <1>1, <1>3, <2>1, <2>2 DEF Register
<1>7. CASE CheckUsage(w) \/ AlertUsage(w)
  <2>1. UNCHANGED making \/ Unmake(w)
    BY <1>7 DEF CheckUsage, AlertUsage, GetCurrent, Insert
  <2> QED
    BY <1>1, <1>2, <2>1
<1>8. CASE RegisterRow(w) \/ RegisterFails(w) \/ CheckUsageFails(w)
  BY <1>2, <1>8 DEF RegisterRow, Insert, RegisterFails, CheckUsageFails
<1>9. CASE IsEntitled(w) \/ Accept(w) \/ AlertUser(w) \/ HandleSubscription(w)
  BY <1>1, <1>9 DEF IsEntitled, Accept, AlertUser, HandleSubscription
<1>10. CASE Settings(w) \/ SaveUser(w) \/ Delete(w) \/ DeleteUser(w)
  BY <1>1, <1>10 DEF Settings, SaveUser, Delete, DeleteUser
<1>11. CASE AnnounceDeleted(w) \/ DeleteAllForUser(w) \/ DeleteAllFails(w)
  BY <1>1, <1>11 DEF AnnounceDeleted, DeleteAllForUser, DeleteAllFails
<1> QED
  BY <1>4, <1>5, <1>6, <1>7, <1>8, <1>9, <1>10, <1>11 DEF Handler

\* The steps of no handler leave it as it is.
LEMMA MakingWithout ==
    ASSUME UNCHANGED vars \/ Tick \/ Visit \/ \E kind \in Subscriptions : Webhook(kind)
    PROVE  UNCHANGED making
  BY DEF vars, usageVars, Tick, Visit, Webhook

LEMMA MakingTyped ==
    ASSUME AccountTyped, OneAccount, making \in [Workers -> Makings], [Next]_vars
    PROVE  making' \in [Workers -> Makings]
<1>1. ASSUME NEW w \in Workers, Handler(w)
      PROVE  making' \in [Workers -> Makings]
  <2>1. \A v \in Workers \ {w} : making'[v] \in Makings
    BY <1>1, MakingSteps
  <2>2. MakesNone \in Makings /\ \A t \in Times : [step |-> "read", at |-> t, start |-> 0] \in Makings
    BY BillingAssumption DEF MakesNone, Makings, Times
  <2>3. ASSUME NEW u \in user
        PROVE  [step |-> "insert", at |-> making[w].at,
                start |-> StartOfCycle(making[w].at, GetBillingAnchorDay(u))] \in Makings
    <3>1. GetBillingAnchorDay(u) \in Int
      BY AnchorIsDay DEF AccountTyped, OneAccount
    <3>2. making[w].at \in Times /\ making[w].at \in Int
      BY DEF Makings, Times
    <3>3. StartOfCycle(making[w].at, GetBillingAnchorDay(u)) \in Int
      BY <3>1, <3>2, BillingAssumption DEF StartOfCycle
    <3> QED
      BY <3>2, <3>3 DEF Makings
  <2>4. making'[w] \in Makings
    BY <1>1, <2>2, <2>3, MakingSteps
  <2>5. making' = [v \in Workers |-> making'[v]]
    BY <1>1, MakingSteps
  <2> QED
    BY <2>1, <2>4, <2>5
<1> QED
  BY <1>1, MakingWithout DEF Next, Handler

\* The user of a row that is about to be inserted is there, unless the account
\* was deleted after the user was read.
OwnersThere ==
    \A w \in Workers : making[w].step = "insert" => user # {} \/ "crossed" \in oddities

LEMMA OwnersThereNext ==
    ASSUME AccountTyped, making \in [Workers -> Makings], OwnersThere, [Next]_vars
    PROVE  OwnersThere'
<1>1. oddities \subseteq oddities'
  BY OdditiesStay
<1>2. CASE UNCHANGED vars \/ Tick \/ Visit \/ \E kind \in Subscriptions : Webhook(kind)
  <2>1. user' = user \/ user' # {}
    BY <1>2 DEF vars, accountVars, Tick, Visit, Webhook
  <2> QED
    BY <1>1, <1>2, <2>1, MakingWithout DEF OwnersThere
<1>3. ASSUME NEW w \in Workers, Handler(w)
      PROVE  OwnersThere'
  <2>1. CASE DeleteUser(w)
    <3>1. UNCHANGED making
      BY <2>1 DEF DeleteUser, usageVars
    <3>2. (\E v \in Workers : making[v].step = "insert") => "crossed" \in oddities'
      BY <2>1, OddAction DEF DeleteUser
    <3> QED
      BY <3>1, <3>2 DEF OwnersThere
  <2>2. CASE ~DeleteUser(w)
    <3>1. user # {} => user' # {}
      <4>1. CASE SaveUser(w)
        BY <4>1 DEF SaveUser, AccountTyped
      <4> QED
        BY <1>3, <2>2, <4>1, AccountSteps
    <3>2. making'[w].step = "insert" => making[w].step = "insert" \/ user # {}
      <4>1. CASE making'[w] \in {making[w], MakesNone}
        BY <4>1 DEF MakesNone
      <4>2. CASE \E t \in Times : making'[w] = [step |-> "read", at |-> t, start |-> 0]
        BY <4>2
      <4>3. CASE \E u \in user : TRUE
        BY <4>3
      <4> QED
        BY <1>3, <4>1, <4>2, <4>3, MakingSteps
    <3>3. \A v \in Workers \ {w} : making'[v] = making[v]
      BY <1>3, MakingSteps
    <3> QED
      BY <1>1, <3>1, <3>2, <3>3 DEF OwnersThere
  <2> QED
    BY <2>1, <2>2
<1> QED
  BY <1>2, <1>3 DEF Next, Handler

LEMMA NewRowTyped ==
    ASSUME making \in [Workers -> Makings], NEW w \in Workers, NEW used \in Nat,
           NEW row \in NewRows(w, used)
    PROVE  /\ row \in Rows /\ row.used = used
           /\ \A other \in usage : other.id # row.id
<1>1. PICK id \in (1..MaxRows) \ { other.id : other \in usage } :
          row = [id |-> id, start |-> making[w].start, used |-> used]
  BY DEF NewRows
<1>2. making[w].start \in Int
  BY DEF Makings
<1> QED
  BY <1>1, <1>2 DEF Rows

LEMMA InsertTyped ==
    ASSUME RowsTyped, NEW row \in Rows, \A other \in usage : other.id # row.id,
           usage' = usage \cup {row}
    PROVE  RowsTyped'
<1>1. IsFiniteSet(usage')
  BY FS_AddElement DEF RowsTyped
<1> QED
  BY <1>1 DEF RowsTyped

LEMMA CurrentTyped ==
    ASSUME making \in [Workers -> Makings], RowsTyped, NEW w \in Workers,
           NEW current, GetCurrent(w, current)
    PROVE  current \in Rows /\ RowsTyped'
<1>1. CASE current \in Covering(now) /\ UNCHANGED usage
  BY <1>1 DEF Covering, RowsTyped
<1>2. CASE current \in NewRows(w, 0) /\ Insert(w, current)
  <2>1. current \in Rows /\ \A other \in usage : other.id # current.id
    BY <1>2, NewRowTyped
  <2> QED
    BY <1>2, <2>1, InsertTyped DEF Insert
<1> QED
  BY <1>1, <1>2 DEF GetCurrent

LEMMA CountedRow ==
    ASSUME NEW row \in Rows
    PROVE  LET more == [row EXCEPT !.used = @ + 1]
           IN  /\ more \in Rows /\ more.id = row.id
               /\ more.start = row.start /\ more.used = row.used + 1
  BY DEF Rows

\* The rows of a set, after the update of those that cover t.
CountedOf(T, t) ==
    { IF Covers(row, t) THEN [row EXCEPT !.used = @ + 1] ELSE row : row \in T }

\* What the rows of a set have counted.
Used == [row \in Rows |-> row.used]

\* Each row that covers the time of a message counts one more.
LEMMA CountedSum ==
    ASSUME NEW S \in SUBSET Rows, IsFiniteSet(S), NEW t,
           \A row, other \in S : row.id = other.id => row = other
    PROVE  /\ CountedOf(S, t) \subseteq Rows
           /\ IsFiniteSet(CountedOf(S, t))
           /\ \A row, other \in CountedOf(S, t) : row.id = other.id => row = other
           /\ SumOn(Used, CountedOf(S, t))
                  = SumOn(Used, S) + Cardinality({ row \in S : Covers(row, t) })
<1> DEFINE Row(row) == IF Covers(row, t) THEN [row EXCEPT !.used = @ + 1] ELSE row
           Cover(T) == { row \in T : Covers(row, t) }
           P == { T \in SUBSET S :
                      /\ CountedOf(T, t) \subseteq Rows
                      /\ IsFiniteSet(CountedOf(T, t))
                      /\ \A row \in CountedOf(T, t) : \E old \in T : row.id = old.id
                      /\ SumOn(Used, CountedOf(T, t)) = SumOn(Used, T) + Cardinality(Cover(T)) }
<1>0. \A row \in S : /\ Row(row) \in Rows /\ Row(row).id = row.id
                     /\ Row(row).used = row.used + (IF Covers(row, t) THEN 1 ELSE 0)
                     /\ row.used \in Nat
  <2>1. ASSUME NEW row \in S
        PROVE  /\ Row(row) \in Rows /\ Row(row).id = row.id
               /\ Row(row).used = row.used + (IF Covers(row, t) THEN 1 ELSE 0)
               /\ row.used \in Nat
    <3>1. row.used \in Nat
      BY DEF Rows
    <3>2. CASE Covers(row, t)
      BY <3>1, <3>2, CountedRow
    <3>3. CASE ~Covers(row, t)
      BY <3>1, <3>3
    <3> QED
      BY <3>2, <3>3
  <2> QED
    BY <2>1
<1>1. {} \in P
  <2>1. CountedOf({}, t) = {} /\ Cover({}) = {}
    BY DEF CountedOf
  <2>2. SumOn(Used, {}) = 0 /\ Cardinality({}) = 0 /\ IsFiniteSet({})
    BY SumOfNone, FS_EmptySet
  <2> QED
    BY <2>1, <2>2
<1>2. ASSUME NEW T \in SUBSET S, T \in P, NEW x \in S \ T
      PROVE  T \cup {x} \in P
  <2>1. CountedOf(T \cup {x}, t) = CountedOf(T, t) \cup {Row(x)}
    BY DEF CountedOf
  <2>2. Row(x) \notin CountedOf(T, t)
    BY <1>0, <1>2
  <2>3. Row(x) \in Rows /\ Row(x).id = x.id
    BY <1>0
  <2>4. \A row \in Rows : Used[row] = row.used /\ Used[row] \in Nat
    BY DEF Used, Rows
  <2>5. IsFiniteSet(T) /\ T \subseteq Rows
    BY FS_Subset
  <2>6. SumOn(Used, T \cup {x}) = SumOn(Used, T) + Used[x]
    BY <2>4, <2>5, SumAdds
  <2>7. SumOn(Used, CountedOf(T, t) \cup {Row(x)}) = SumOn(Used, CountedOf(T, t)) + Used[Row(x)]
    <3>1. IsFiniteSet(CountedOf(T, t)) /\ CountedOf(T, t) \subseteq Rows
      BY <1>2
    <3> HIDE DEF Row, P
    <3> QED
      BY <2>2, <2>3, <2>4, <3>1, SumAdds
  <2>8. Cardinality(Cover(T \cup {x}))
            = Cardinality(Cover(T)) + (IF Covers(x, t) THEN 1 ELSE 0)
    <3>1. IsFiniteSet(Cover(T)) /\ x \notin Cover(T)
      BY <2>5, FS_Subset
    <3>2. Cardinality(Cover(T)) \in Nat
      BY <3>1, FS_CardinalityType
    <3>3. Cover(T \cup {x}) = IF Covers(x, t) THEN Cover(T) \cup {x} ELSE Cover(T)
      OBVIOUS
    <3>4. Cardinality(Cover(T) \cup {x}) = Cardinality(Cover(T)) + 1
      <4> HIDE DEF Cover
      <4> QED
        BY <3>1, FS_AddElement
    <3>5. CASE Covers(x, t)
      BY <3>3, <3>4, <3>5
    <3>6. CASE ~Covers(x, t)
      <4>1. Cover(T \cup {x}) = Cover(T)
        BY <3>3, <3>6
      <4> HIDE DEF Cover
      <4> QED
        BY <3>2, <3>6, <4>1
    <3> QED
      BY <3>5, <3>6
  <2>9. IsFiniteSet(CountedOf(T, t) \cup {Row(x)})
    BY <1>2, FS_AddElement
  <2>10. SumOn(Used, CountedOf(T \cup {x}, t))
             = SumOn(Used, T \cup {x}) + Cardinality(Cover(T \cup {x}))
    <3>1. PICK a \in Nat, c \in Nat : a = SumOn(Used, T) /\ c = Cardinality(Cover(T))
      <4>1. SumOn(Used, T) \in Nat
        BY <2>4, <2>5, SumIsNat
      <4>2. IsFiniteSet(Cover(T))
        BY <2>5, FS_Subset
      <4> QED
        BY <4>1, <4>2, FS_CardinalityType
    <3>2. SumOn(Used, CountedOf(T, t)) = a + c
      BY <1>2, <3>1
    <3>3. PICK k \in {0, 1} : k = IF Covers(x, t) THEN 1 ELSE 0
      OBVIOUS
    <3>4. Used[Row(x)] = Used[x] + k /\ Used[x] \in Nat
      BY <1>0, <2>3, <2>4, <3>3
    <3>5. SumOn(Used, CountedOf(T \cup {x}, t)) = (a + c) + (Used[x] + k)
      BY <2>1, <2>7, <3>2, <3>4
    <3>6. SumOn(Used, T \cup {x}) = a + Used[x] /\ Cardinality(Cover(T \cup {x})) = c + k
      BY <2>6, <2>8, <3>1, <3>3
    <3> HIDE DEF Row, Cover, P
    <3> QED
      BY <3>1, <3>3, <3>4, <3>5, <3>6
  <2>11. /\ CountedOf(T \cup {x}, t) \subseteq Rows
         /\ \A row \in CountedOf(T \cup {x}, t) : \E old \in T \cup {x} : row.id = old.id
    BY <1>2, <2>1, <2>3
  <2> QED
    BY <2>1, <2>9, <2>10, <2>11
<1>3. S \in P
  <2> HIDE DEF P
  <2> QED
    BY <1>1, <1>2, FiniteInduction
<1>4. \A row, other \in CountedOf(S, t) : row.id = other.id => row = other
  <2>1. ASSUME NEW row \in CountedOf(S, t), NEW other \in CountedOf(S, t), row.id = other.id
        PROVE  row = other
    <3>1. PICK a \in S : row = Row(a)
      BY DEF CountedOf
    <3>2. PICK b \in S : other = Row(b)
      BY DEF CountedOf
    <3>3. a.id = b.id
      BY <1>0, <2>1, <3>1, <3>2
    <3>4. a = b
      BY <3>3
    <3> QED
      BY <3>1, <3>2, <3>4
  <2> QED
    BY <2>1
<1> QED
  BY <1>3, <1>4

----------------------------------------------------------------------------
(* A steady account: its anchor day has not moved, no message came in the    *)
(* last second of a cycle, and no two rows were made for one time.  It is on *)
(* the free plan, or it is gone.                                             *)

Steady == oddities \cap {"shifted", "raced"} = {}

SteadyAccount ==
    /\ user \subseteq {NewUser}
    /\ \A w \in Workers : tasks[w].user \subseteq {NewUser}
    /\ "deleted" \in events => user = {}
    /\ \A w \in Workers : tasks[w].step = "announce" => user = {}

\* The rows are those of different cycles of one anchor day.
SteadyRows ==
    /\ usage \subseteq Rows
    /\ \A row \in usage : (row.start - Created) % Month = 0
    /\ \A row, other \in usage : row.start = other.start => row = other

\* The rows that are about to be made are those of such cycles, too.
SteadyMaking ==
    \A w \in Workers :
        LET at == making[w].at
        IN  /\ making[w].step = "read" /\ user # {} => (at - Created) % Month # Month - 1
            /\ making[w].step = "insert" => /\ (at - Created) % Month # Month - 1
                                            /\ making[w].start = StartOfCycle(at, Created)

SteadyInv == Steady => SteadyAccount /\ SteadyRows /\ SteadyMaking

\* What has been counted in a cycle: 0, or what its row says.
UsedIn(start) == {0} \cup { row.used : row \in { r \in usage : r.start = start } }

LEMMA SteadyBefore == [Next]_vars /\ Steady' => Steady
  BY OdditiesStay DEF Steady

LEMMA NewUserAnchor == GetBillingAnchorDay(NewUser) = Created
  BY DEF GetBillingAnchorDay, NewUser

LEMMA SteadyInit == Init => SteadyInv
  BY IdleTask DEF Init, SteadyInv, SteadyAccount, SteadyRows, SteadyMaking, MakesNone

\* A steady account can only be deleted.
LEMMA SteadyAccountNext ==
    ASSUME AccountTyped, SteadyAccount, [Next]_vars, Steady'
    PROVE  SteadyAccount' /\ (user' = user \/ user' = {})
<1>1. CASE UNCHANGED vars
  BY <1>1 DEF vars, accountVars, SteadyAccount
<1>2. CASE Tick
  BY <1>2 DEF Tick, accountVars, SteadyAccount
<1>3. CASE Visit
  BY <1>3, OddAction DEF Visit, Steady
<1>4. ASSUME NEW kind \in Subscriptions, Webhook(kind)
      PROVE  SteadyAccount' /\ (user' = user \/ user' = {})
  BY <1>4 DEF Webhook, SteadyAccount, Subscriptions
<1>5. ASSUME NEW w \in Workers, Handler(w)
      PROVE  SteadyAccount' /\ (user' = user \/ user' = {})
  <2>1. Moves(w)
    BY <1>5, Moved
  <2>2. user' = user \/ (user' = {} /\ DeleteUser(w))
    <3>1. CASE SaveUser(w)
      BY <3>1, OddAction DEF SaveUser, Steady
    <3>2. CASE DeleteUser(w)
      BY <3>2 DEF DeleteUser
    <3> QED
      BY <1>5, <3>1, <3>2, AccountSteps
  <2>3. \A v \in Workers : tasks'[v].user \subseteq {NewUser}
    BY <2>1 DEF Moves, SteadyAccount
  <2>4. "deleted" \in events' => user' = {}
    <3>1. AnnounceDeleted(w) => tasks[w].step = "announce"
      BY DEF AnnounceDeleted
    <3> QED
      BY <1>5, <2>2, <3>1, AccountSteps DEF SteadyAccount
  <2>5. \A v \in Workers : tasks'[v].step = "announce" => user' = {}
    <3>1. DeleteUser(w) => user' = {}
      BY DEF DeleteUser
    <3>2. tasks'[w].step = "announce" => user' = {}
      BY <1>5, <2>2, <3>1, Moved DEF SteadyAccount
    <3> QED
      BY <2>1, <2>2, <3>2 DEF Moves, SteadyAccount
  <2> QED
    BY <2>2, <2>3, <2>4, <2>5 DEF SteadyAccount
<1> QED
  BY <1>1, <1>2, <1>3, <1>4, <1>5 DEF Next, Handler

\* The row that covers a time is the one of its cycle.
LEMMA CoveringRow ==
    ASSUME SteadyRows, NEW t \in Int, NEW row \in Covering(t)
    PROVE  row \in usage /\ row.start = StartOfCycle(t, Created)
<1>1. /\ row \in usage /\ row \in Rows
      /\ row.start <= t /\ t <= CycleEnd(row.start)
      /\ (row.start - Created) % Month = 0
  BY DEF Covering, Covers, SteadyRows
<1>2. row.start \in Int /\ Month \in Nat
  BY <1>1, BillingAssumption DEF Rows
<1>3. t < row.start + Month
  BY <1>1, <1>2 DEF CycleEnd
<1> QED
  BY <1>1, <1>2, <1>3, CyclesAreApart, CycleHolds

LEMMA SteadyMakingNext ==
    ASSUME AccountTyped, making \in [Workers -> Makings], SteadyAccount, SteadyMaking,
           [Next]_vars, Steady'
    PROVE  SteadyMaking'
<1>1. user' # {} => user # {}
  BY SteadyAccountNext
<1>2. CASE UNCHANGED making
  BY <1>1, <1>2 DEF SteadyMaking
<1>3. ASSUME NEW w \in Workers, Handler(w)
      PROVE  SteadyMaking'
  <2> DEFINE Fits(m) ==
          /\ m.step = "read" /\ user' # {} => (m.at - Created) % Month # Month - 1
          /\ m.step = "insert" => /\ (m.at - Created) % Month # Month - 1
                                  /\ m.start = StartOfCycle(m.at, Created)
  <2>1. \A v \in Workers \ {w} : making'[v] = making[v]
    BY <1>3, MakingSteps
  <2>2. \A v \in Workers : Fits(making[v])
    BY <1>1 DEF SteadyMaking
  <2>3. Fits(MakesNone)
    BY DEF MakesNone
  <2>4. ASSUME NEW t \in Times, Gap(t) \subseteq oddities'
        PROVE  Fits([step |-> "read", at |-> t, start |-> 0])
    <3>1. ~InGap(t)
      BY <2>4 DEF Gap, Steady
    <3>2. user # {} => (t - Created) % Month # Month - 1
      BY <3>1, NewUserAnchor DEF InGap, SteadyAccount
    <3> QED
      BY <1>1, <3>2
  <2>5. ASSUME making[w].step = "read", NEW u \in user
        PROVE  Fits([step |-> "insert", at |-> making[w].at,
                     start |-> StartOfCycle(making[w].at, GetBillingAnchorDay(u))])
    BY <2>5, NewUserAnchor DEF SteadyMaking, SteadyAccount
  <2>6. Fits(making'[w])
    <3> HIDE DEF Fits
    <3> QED
      BY <1>3, <2>2, <2>3, <2>4, <2>5, MakingSteps
  <2>7. \A v \in Workers : Fits(making'[v])
    <3> HIDE DEF Fits
    <3> QED
      BY <2>1, <2>2, <2>6
  <2> QED
    BY <2>7 DEF SteadyMaking
<1> QED
  BY <1>2, <1>3, MakingWithout DEF Next, Handler

\* A new row is the one row of its cycle, unless it has raced.
LEMMA NewRow ==
    ASSUME making \in [Workers -> Makings], SteadyRows, SteadyMaking, NEW w \in Workers,
           making[w].step = "insert", Raced(w) = {}, NEW used \in Nat,
           NEW row \in NewRows(w, used)
    PROVE  /\ row \in Rows /\ row.used = used
           /\ row.start = StartOfCycle(making[w].at, Created)
           /\ (row.start - Created) % Month = 0
           /\ \A other \in usage : other.start # row.start
<1> DEFINE t == making[w].at
<1>1. t \in Int
  BY DEF Makings, Times
<1>2. (t - Created) % Month # Month - 1 /\ making[w].start = StartOfCycle(t, Created)
  BY DEF SteadyMaking
<1>3. row.start = StartOfCycle(t, Created)
  BY <1>2 DEF NewRows
<1>4. Covering(t) = {}
  BY DEF Raced
<1>5. /\ StartOfCycle(t, Created) \in Int
      /\ (StartOfCycle(t, Created) - Created) % Month = 0
      /\ StartOfCycle(t, Created) <= t
      /\ t <= CycleEnd(StartOfCycle(t, Created))
  <2> HIDE DEF t
  <2> QED
    BY <1>1, <1>2, CycleHolds
<1>6. \A other \in usage : other.start # StartOfCycle(t, Created)
  BY <1>4, <1>5 DEF Covering, Covers
<1> QED
  BY <1>3, <1>5, <1>6, NewRowTyped

\* A reading of the usage: it finds the row of the cycle or makes it.
LEMMA Reading ==
    ASSUME making \in [Workers -> Makings], SteadyRows, SteadyMaking, now \in Int,
           NEW w \in Workers, Raced(w) = {}, NEW current, GetCurrent(w, current)
    PROVE  /\ SteadyRows'
           /\ current \in usage' /\ usage \subseteq usage'
           /\ \/ current.start = StartOfCycle(now, Created)
              \/ /\ making[w].step = "insert"
                 /\ current.start = StartOfCycle(making[w].at, Created)
           /\ \A row \in usage' : row \in usage \/ (row = current /\ row.used = 0)
           /\ usage # {} \/ making[w].step = "insert"
<1>1. CASE current \in Covering(now) /\ UNCHANGED usage
  BY <1>1, CoveringRow DEF SteadyRows
<1>2. CASE current \in NewRows(w, 0) /\ Insert(w, current)
  <2>1. /\ current \in Rows /\ current.used = 0
        /\ current.start = StartOfCycle(making[w].at, Created)
        /\ (current.start - Created) % Month = 0
        /\ \A other \in usage : other.start # current.start
    BY <1>2, NewRow DEF Insert
  <2>2. usage' = usage \cup {current} /\ making[w].step = "insert"
    BY <1>2 DEF Insert
  <2>3. SteadyRows'
    BY <2>1, <2>2 DEF SteadyRows
  <2> QED
    BY <2>1, <2>2, <2>3
<1> QED
  BY <1>1, <1>2 DEF GetCurrent

\* A message counts one more in the row of its cycle, and in no other.
CountsIn(start) ==
    \A row \in usage' :
        \/ row \in usage /\ row.start # start
        \/ row.start = start /\ \E n \in UsedIn(start) : n \in Nat /\ row.used = n + 1

\* The rows of a steady account stay apart when they count.
LEMMA CountedSteadily ==
    ASSUME SteadyRows, NEW t, usage' = Counted(t)
    PROVE  SteadyRows'
<1>1. ASSUME NEW row \in usage'
      PROVE  /\ row \in Rows
             /\ \E old \in usage : /\ row.start = old.start
                                   /\ row = IF Covers(old, t)
                                            THEN [old EXCEPT !.used = @ + 1] ELSE old
  <2>1. PICK old \in usage : row = IF Covers(old, t)
                                   THEN [old EXCEPT !.used = @ + 1] ELSE old
    BY <1>1 DEF Counted
  <2>2. old \in Rows
    BY DEF SteadyRows
  <2> QED
    BY <2>1, <2>2, CountedRow
<1> QED
  BY <1>1 DEF SteadyRows

LEMMA Registering ==
    ASSUME SteadyAccount, SteadyRows, NEW t \in Int, ~InGap(t), user # {}, usage' = Counted(t)
    PROVE  CountsIn(StartOfCycle(t, Created))
<1> SUFFICES ASSUME NEW row \in usage'
             PROVE  \/ row \in usage /\ row.start # StartOfCycle(t, Created)
                    \/ /\ row.start = StartOfCycle(t, Created)
                       /\ \E n \in UsedIn(row.start) : n \in Nat /\ row.used = n + 1
  BY DEF CountsIn
<1>1. PICK old \in usage : row = IF Covers(old, t)
                                 THEN [old EXCEPT !.used = @ + 1] ELSE old
  BY DEF Counted
<1>2. old \in Rows
  BY DEF SteadyRows
<1>3. CASE Covers(old, t)
  <2>1. row.start = old.start /\ row.used = old.used + 1
    BY <1>1, <1>2, <1>3, CountedRow
  <2>2. old.start = StartOfCycle(t, Created)
    BY <1>3, CoveringRow DEF Covering
  <2>3. old.used \in Nat /\ old.used \in UsedIn(row.start)
    BY <1>2, <2>1 DEF Rows, UsedIn
  <2> QED
    BY <2>1, <2>2, <2>3
<1>4. CASE ~Covers(old, t)
  <2>1. (t - Created) % Month # Month - 1
    BY NewUserAnchor DEF InGap, SteadyAccount
  <2>2. old.start # StartOfCycle(t, Created)
    BY <1>4, <2>1, CycleHolds DEF Covers
  <2> QED
    BY <1>1, <1>4, <2>2
<1> QED
  BY <1>3, <1>4

LEMMA RegisteringRow ==
    ASSUME making \in [Workers -> Makings], SteadyRows, SteadyMaking,
           NEW w \in Workers, Raced(w) = {}, Inserts(w, 1)
    PROVE  /\ SteadyRows'
           /\ CountsIn(StartOfCycle(making[w].at, Created))
           /\ making[w].step = "insert"
<1>1. PICK row \in NewRows(w, 1) : usage' = usage \cup {row} /\ making[w].step = "insert"
  BY DEF Inserts, Insert
<1>2. /\ row \in Rows /\ row.used = 1
      /\ row.start = StartOfCycle(making[w].at, Created)
      /\ (row.start - Created) % Month = 0
      /\ \A other \in usage : other.start # row.start
  BY <1>1, NewRow
<1>3. SteadyRows'
  BY <1>1, <1>2 DEF SteadyRows
<1>4. 0 \in UsedIn(row.start) /\ 0 \in Nat /\ 1 = 0 + 1
  BY DEF UsedIn
<1> QED
  BY <1>1, <1>2, <1>3, <1>4 DEF CountsIn

LEMMA RacedSteadily ==
    ASSUME Steady', NEW w \in Workers, Raced(w) \subseteq oddities'
    PROVE  Raced(w) = {}
  BY DEF Raced, Steady

LEMMA SteadyNext ==
    ASSUME AccountTyped, making \in [Workers -> Makings], SteadyInv, [Next]_vars
    PROVE  SteadyInv'
<1> SUFFICES ASSUME Steady'
             PROVE  SteadyAccount' /\ SteadyRows' /\ SteadyMaking'
  BY DEF SteadyInv
<1>1. SteadyAccount /\ SteadyRows /\ SteadyMaking
  BY SteadyBefore DEF SteadyInv
<1>2. SteadyAccount' /\ SteadyMaking'
  BY <1>1, SteadyAccountNext, SteadyMakingNext
<1>3. CASE UNCHANGED usage \/ usage' = {}
  BY <1>1, <1>2, <1>3 DEF SteadyRows
<1>4. CASE Reads
  <2>1. PICK w \in Workers : (\E current : GetCurrent(w, current)) /\ Raced(w) \subseteq oddities'
    BY <1>4 DEF Reads
  <2>2. now \in Int
    BY DEF AccountTyped, Times
  <2> QED
    BY <1>1, <1>2, <2>1, <2>2, Reading, RacedSteadily
<1>5. CASE Counts
  <2>1. CASE \E t \in Times : Updates(t)
    BY <1>1, <1>2, <2>1, CountedSteadily DEF Updates
  <2>2. CASE \E w \in Workers : Inserts(w, 1) /\ Raced(w) \subseteq oddities'
    BY <1>1, <1>2, <2>2, RegisteringRow, RacedSteadily
  <2> QED
    BY <1>5, <2>1, <2>2 DEF Counts
<1> QED
  BY <1>2, <1>3, <1>4, <1>5, UsageSteps DEF Drops

----------------------------------------------------------------------------
(* What an account is billed for. *)

\* What all rows count, as CountedOnce says it, is a sum.
LEMMA CountedIsSum ==
    ASSUME RowsTyped
    PROVE  MapThenSumSet(LAMBDA row : row.used, usage) = SumOn(Used, usage)
<1> DEFINE D(g) == g = [s \in SUBSET usage |->
                            IF s = {} THEN 0 ELSE First(s).used + g[s \ {First(s)}]]
<1>1. MapThenSumSet(LAMBDA row : row.used, usage) = (CHOOSE g : D(g))[usage]
  BY DEF MapThenSumSet, MapThenFoldSet, First
<1>2. ASSUME NEW g PROVE D(g) <=> Adds(g, Used, SUBSET usage)
  <2>1. ASSUME NEW s \in SUBSET usage, s # {} PROVE Used[First(s)] = First(s).used
    BY <2>1 DEF First, Used, RowsTyped
  <2>2. [s \in SUBSET usage |-> IF s = {} THEN 0 ELSE First(s).used + g[s \ {First(s)}]]
            = [s \in SUBSET usage |-> SumOf(g, Used, s)]
    BY <2>1 DEF SumOf
  <2> QED
    BY <2>2 DEF Adds
<1> HIDE DEF D
<1>3. IsFiniteSet(usage)
  BY DEF RowsTyped
<1>4. \E g : D(g)
  BY <1>2, <1>3, SumsExist
<1>5. PICK g : g = (CHOOSE h : D(h)) /\ D(g)
  BY <1>4
<1>6. Adds(g, Used, SUBSET usage)
  BY <1>2, <1>5
<1>7. SumOn(Used, usage) = g[usage]
  BY <1>3, <1>6, SumIs
<1> QED
  BY <1>1, <1>5, <1>7

CountInv ==
    /\ registered \in Nat
    /\ SumOn(Used, usage) >= registered
    /\ Steady => SumOn(Used, usage) = registered

LEMMA UsedTyped ==
    ASSUME RowsTyped
    PROVE  /\ \A row \in usage : Used[row] \in Nat
           /\ SumOn(Used, usage) \in Nat
<1>1. \A row \in usage : Used[row] \in Nat
  BY DEF RowsTyped, Used, Rows
<1> QED
  BY <1>1, SumIsNat DEF RowsTyped

LEMMA InsertedSum ==
    ASSUME RowsTyped, NEW row \in Rows, \A other \in usage : other.id # row.id,
           usage' = usage \cup {row}
    PROVE  SumOn(Used, usage)' = SumOn(Used, usage) + row.used
<1>1. Used[row] = row.used /\ row.used \in Nat /\ row \notin usage
  BY DEF Used, Rows
<1>2. \A other \in usage : Used[other] \in Nat
  BY UsedTyped
<1>3. SumOn(Used, usage \cup {row}) = SumOn(Used, usage) + Used[row]
  BY <1>1, <1>2, SumAdds DEF RowsTyped
<1>4. SumOn(Used, usage)' = SumOn(Used, usage \cup {row})
  OBVIOUS
<1> QED
  BY <1>1, <1>3, <1>4

\* A registered message is counted by every row that covers its time.
LEMMA RegisteredSum ==
    ASSUME RowsTyped, NEW t, Updates(t)
    PROVE  /\ RowsTyped'
           /\ SumOn(Used, usage)' = SumOn(Used, usage) + Cardinality(Covering(t))
           /\ Cardinality(Covering(t)) \in Nat /\ Cardinality(Covering(t)) > 0
<1>1. usage' = CountedOf(usage, t) /\ Covering(t) = { row \in usage : Covers(row, t) }
  BY DEF Updates, Counted, CountedOf, Covering
<1>2. /\ usage' \subseteq Rows /\ IsFiniteSet(usage')
      /\ \A row, other \in usage' : row.id = other.id => row = other
      /\ SumOn(Used, CountedOf(usage, t)) = SumOn(Used, usage) + Cardinality(Covering(t))
  BY <1>1, CountedSum DEF RowsTyped
<1>3. SumOn(Used, usage)' = SumOn(Used, CountedOf(usage, t))
  BY <1>1
<1>4. Cardinality(Covering(t)) \in Nat /\ Cardinality(Covering(t)) # 0
  <2>1. IsFiniteSet(Covering(t))
    BY <1>1, FS_Subset DEF RowsTyped
  <2> QED
    BY <2>1, FS_CardinalityType, FS_EmptySet DEF Updates
<1>5. RowsTyped'
  BY <1>2 DEF RowsTyped
<1> QED
  BY <1>2, <1>3, <1>4, <1>5

\* Or by the new row, that counts it alone.
LEMMA InsertedRow ==
    ASSUME making \in [Workers -> Makings], RowsTyped, NEW w \in Workers,
           NEW used \in Nat, NEW row \in NewRows(w, used), Insert(w, row)
    PROVE  RowsTyped' /\ SumOn(Used, usage)' = SumOn(Used, usage) + used
<1>1. row \in Rows /\ row.used = used /\ \A other \in usage : other.id # row.id
  BY NewRowTyped
<1>2. usage' = usage \cup {row}
  BY DEF Insert
<1> QED
  BY <1>1, <1>2, InsertTyped, InsertedSum

\* The cycles of a steady account do not overlap: one row covers a time, or none.
LEMMA OneCovering ==
    ASSUME SteadyRows, NEW t \in Int, Covering(t) # {}
    PROVE  Cardinality(Covering(t)) = 1
<1>1. PICK row \in Covering(t) : TRUE
  OBVIOUS
<1>2. Covering(t) = {row}
  BY <1>1, CoveringRow DEF SteadyRows
<1> QED
  BY <1>2, FS_Singleton

LEMMA CountNext ==
    ASSUME AccountTyped, making \in [Workers -> Makings], RowsTyped, SteadyInv, CountInv,
           [Next]_vars
    PROVE  RowsTyped' /\ CountInv'
<1> DEFINE sum == SumOn(Used, usage)
<1>1. sum \in Nat
  BY UsedTyped
<1>2. CASE UNCHANGED <<usage, registered>>
  <2>1. sum' = sum /\ RowsTyped'
    BY <1>2 DEF RowsTyped
  <2> QED
    BY <1>2, <2>1, SteadyBefore DEF CountInv
<1>3. CASE Reads
  <2>0. PICK w \in Workers : \E current : GetCurrent(w, current)
    BY <1>3 DEF Reads
  <2>1. PICK current : GetCurrent(w, current)
    BY <2>0
  <2>2. RowsTyped'
    BY <2>1, CurrentTyped
  <2>3. sum' = sum
    <3>1. CASE UNCHANGED usage
      BY <3>1
    <3>2. CASE current \in NewRows(w, 0) /\ Insert(w, current)
      <4>1. sum' = sum + 0
        BY <3>2, InsertedRow
      <4> HIDE DEF sum
      <4> QED
        BY <1>1, <4>1
    <3> QED
      BY <2>1, <3>1, <3>2 DEF GetCurrent
  <2> QED
    BY <1>3, <2>2, <2>3, SteadyBefore DEF CountInv, Reads
<1>4. CASE Counts
  <2>1. PICK n \in Nat : /\ RowsTyped' /\ sum' = sum + n /\ n > 0
                         /\ Steady' => n = 1
    <3>1. CASE \E t \in Times : Updates(t)
      <4>1. PICK t \in Times : Updates(t)
        BY <3>1
      <4>2. Steady' => Cardinality(Covering(t)) = 1
        BY <4>1, SteadyBefore, OneCovering DEF SteadyInv, Updates, Times
      <4> QED
        BY <4>1, <4>2, RegisteredSum
    <3>2. CASE \E w \in Workers : Inserts(w, 1)
      <4>0. PICK w \in Workers : Inserts(w, 1)
        BY <3>2
      <4>1. PICK row \in NewRows(w, 1) : Insert(w, row)
        BY <4>0 DEF Inserts
      <4>2. RowsTyped' /\ sum' = sum + 1
        BY <4>1, InsertedRow
      <4> HIDE DEF sum
      <4> QED
        BY <4>2
    <3> HIDE DEF sum
    <3> QED
      BY <1>4, <3>1, <3>2 DEF Counts
  <2>2. registered' = registered + 1
    BY <1>4 DEF Counts
  <2>3. sum >= registered /\ registered \in Nat /\ (Steady' => sum = registered)
    BY SteadyBefore DEF CountInv
  <2>4. sum' >= registered' /\ registered' \in Nat /\ (Steady' => sum' = registered')
    <3> HIDE DEF sum
    <3> QED
      BY <1>1, <2>1, <2>2, <2>3
  <2> QED
    BY <2>1, <2>4 DEF CountInv
<1>5. CASE Drops
  <2>1. usage' = {} /\ registered' = 0
    BY <1>5 DEF Drops
  <2>2. sum' = 0
    <3>1. sum' = SumOn(Used, {})
      BY <2>1
    <3> QED
      BY <3>1, SumOfNone
  <2>3. RowsTyped'
    BY <2>1, FS_EmptySet DEF RowsTyped
  <2> QED
    BY <2>1, <2>2, <2>3 DEF CountInv
<1> QED
  BY <1>2, <1>3, <1>4, <1>5, UsageSteps

----------------------------------------------------------------------------
(* The messages in flight. *)

\* What has passed the check and is not waiting: before it is accepted, or while
\* a row is made for it.
Entitled == { w \in Workers : tasks[w].step \in {"entitled", "register"} }

LEMMA MoreOfTwo ==
    ASSUME NEW a \in Nat, NEW b \in Nat
    PROVE  Max({a, b}) \in Nat /\ Max({a, b}) >= a /\ Max({a, b}) >= b
<1>1. \E x \in {a, b} : \A y \in {a, b} : x >= y
  <2>1. a >= b \/ b >= a
    OBVIOUS
  <2> QED
    BY <2>1
<1>2. Max({a, b}) \in {a, b} /\ \A y \in {a, b} : Max({a, b}) >= y
  BY <1>1 DEF Max
<1> QED
  BY <1>2

LEMMA InFlightIs ==
    ASSUME waiting \in [Times -> Nat]
    PROVE  /\ IsFiniteSet(Times) /\ IsFiniteSet(Entitled)
           /\ SumOn(waiting, Times) \in Nat /\ Cardinality(Entitled) \in Nat
           /\ InFlight = SumOn(waiting, Times) + Cardinality(Entitled)
<1>1. IsFiniteSet(Times)
  BY FS_Interval, BillingAssumption DEF Times
<1>2. IsFiniteSet(Entitled)
  BY FS_Subset, BillingAssumption DEF Entitled
<1>3. SumOn(waiting, Times) \in Nat
  BY <1>1, SumIsNat
<1>4. FoldFunction(+, 0, waiting) = SumOn(waiting, Times)
  BY DEF FoldFunction, SumOn
<1> QED
  BY <1>1, <1>2, <1>3, <1>4, FS_CardinalityType DEF InFlight, Entitled

\* What a step does to the events of messages, and to the history of bursts.
LEMMA FlightSteps ==
    ASSUME AccountTyped, [Next]_vars
    PROVE  /\ \/ UNCHANGED waiting
              \/ \E w \in Workers : Accept(w) \/ RegisterMessage(w) \/ RegisterFails(w)
           /\ UNCHANGED burst \/ \E w \in Workers : CheckUsage(w)
<1> USE DEF usageVars, historyVars
<1>1. CASE UNCHANGED vars
  BY <1>1 DEF vars
<1>2. CASE Tick \/ Visit \/ \E kind \in Subscriptions : Webhook(kind)
  BY <1>2 DEF Tick, Visit, Webhook
<1>3. ASSUME NEW w \in Workers, Handler(w)
      PROVE  /\ UNCHANGED waiting \/ Accept(w) \/ RegisterMessage(w) \/ RegisterFails(w)
             /\ UNCHANGED burst \/ CheckUsage(w)
  <2>1. CASE IsEntitled(w) \/ CheckUsage(w) \/ CheckUsageFails(w) \/ Accept(w)
    BY <2>1 DEF IsEntitled, CheckUsage, CheckUsageFails, Accept
  <2>2. CASE RegisterMessage(w) \/ RegisterFails(w) \/ AlertUser(w) \/ AlertUsage(w)
    BY <2>2 DEF RegisterMessage, RegisterFails, AlertUser, AlertUsage
  <2>3. CASE HandleSubscription(w) \/ Settings(w) \/ SaveUser(w) \/ Delete(w)
    BY <2>3 DEF HandleSubscription, Settings, SaveUser, Delete
  <2>4. CASE DeleteUser(w) \/ AnnounceDeleted(w) \/ DeleteAllForUser(w) \/ DeleteAllFails(w)
    BY <2>4 DEF DeleteUser, AnnounceDeleted, DeleteAllForUser, DeleteAllFails
  <2>5. CASE MissUsage(w) \/ ReadUser(w) \/ RegisterRow(w)
    BY <2>5 DEF MissUsage, ReadUser, RegisterRow
  <2> QED
    BY <1>3, <2>1, <2>2, <2>3, <2>4, <2>5 DEF Handler
<1> QED
  BY <1>1, <1>2, <1>3 DEF Next, Handler

FlightTyped == waiting \in [Times -> Nat] /\ burst \in Nat

LEMMA FlightNext ==
    ASSUME AccountTyped, FlightTyped, [Next]_vars
    PROVE  FlightTyped'
<1>1. waiting' \in [Times -> Nat]
  <2>1. ASSUME NEW w \in Workers, Accept(w) PROVE waiting' \in [Times -> Nat]
    <3>1. PICK t \in 0..now : waiting' = [waiting EXCEPT ![t] = @ + 1]
      BY <2>1 DEF Accept
    <3>2. t \in Times
      BY BillingAssumption DEF Times, AccountTyped
    <3> QED
      BY <3>1, <3>2 DEF FlightTyped
  <2>2. ASSUME NEW w \in Workers, RegisterMessage(w) \/ RegisterFails(w), waiting' # waiting
        PROVE  waiting' \in [Times -> Nat]
    <3>1. PICK t \in Times : /\ waiting[t] > 0
                             /\ \/ waiting' = [waiting EXCEPT ![t] = @ - 1]
                                \/ UNCHANGED waiting
      BY <2>2 DEF RegisterMessage, RegisterFails, usageVars
    <3>2. waiting[t] \in Nat /\ waiting[t] - 1 \in Nat
      BY <3>1 DEF FlightTyped
    <3> QED
      BY <3>1, <3>2 DEF FlightTyped
  <2> QED
    BY <2>1, <2>2, FlightSteps DEF FlightTyped
<1>2. burst' \in Nat
  <2>1. ASSUME NEW w \in Workers, CheckUsage(w) PROVE burst' \in Nat
    <3>1. burst' = Max({burst, InFlight}) /\ InFlight \in Nat
      BY <2>1, InFlightIs DEF CheckUsage, FlightTyped
    <3> QED
      BY <3>1, MoreOfTwo DEF FlightTyped
  <2> QED
    BY <2>1, FlightSteps DEF FlightTyped
<1> QED
  BY <1>1, <1>2 DEF FlightTyped

\* The rows that are about to be made are those of the cycle of now, if nothing
\* has been late.
TimelyMaking ==
    \A w \in Workers : making[w].step # "none" =>
        StartOfCycle(making[w].at, Created) = StartOfCycle(now, Created)

TimelyInv == Steady /\ "late" \notin oddities => TimelyMaking

LEMMA NotApart ==
    ASSUME SteadyAccount, NEW t, NEW other, ~Apart(t, other)
    PROVE  user = {NewUser} /\ StartOfCycle(t, Created) = StartOfCycle(other, Created)
  BY NewUserAnchor DEF Apart, SteadyAccount

LEMMA TimelyNext ==
    ASSUME AccountTyped, making \in [Workers -> Makings], SteadyInv, TimelyInv, [Next]_vars
    PROVE  TimelyInv'
<1> SUFFICES ASSUME Steady', "late" \notin oddities'
             PROVE  TimelyMaking'
  BY DEF TimelyInv
<1>1. SteadyAccount /\ TimelyMaking
  BY SteadyBefore, OdditiesStay DEF SteadyInv, TimelyInv
<1>2. CASE UNCHANGED <<making, now>>
  BY <1>1, <1>2 DEF TimelyMaking
<1>3. CASE UNCHANGED vars \/ Visit \/ \E kind \in Subscriptions : Webhook(kind)
  BY <1>2, <1>3, MakingWithout DEF vars, Visit, Webhook
<1>4. CASE Tick
  <2>1. UNCHANGED making /\ now' = now + 1
    BY <1>4, MakingWithout DEF Tick
  <2>2. Making => ~Apart(now, now + 1)
    BY <1>4, OddAction DEF Tick
  <2> QED
    BY <1>1, <2>1, <2>2, NotApart DEF TimelyMaking, Making
<1>5. ASSUME NEW w \in Workers, Handler(w)
      PROVE  TimelyMaking'
  <2>1. UNCHANGED now /\ \A v \in Workers \ {w} : making'[v] = making[v]
    BY <1>5, AccountSteps, MakingSteps
  <2>2. \A t : Late(t) \subseteq oddities' => StartOfCycle(t, Created) = StartOfCycle(now, Created)
    BY <1>1, NotApart DEF Late
  <2>3. making'[w].step # "none" =>
            StartOfCycle(making'[w].at, Created) = StartOfCycle(now, Created)
    <3>1. CASE making'[w] \in {making[w], MakesNone}
      BY <1>1, <3>1 DEF TimelyMaking, MakesNone
    <3>2. CASE \E t \in Times : /\ making'[w] = [step |-> "read", at |-> t, start |-> 0]
                                /\ t = now \/ Late(t) \subseteq oddities'
      <4>1. PICK t \in Times : /\ making'[w] = [step |-> "read", at |-> t, start |-> 0]
                               /\ t = now \/ Late(t) \subseteq oddities'
        BY <3>2
      <4>2. making'[w].at = t
        BY <4>1
      <4> QED
        BY <2>2, <4>1, <4>2
    <3>3. CASE /\ making[w].step = "read"
               /\ \E u \in user :
                      making'[w] = [step |-> "insert", at |-> making[w].at,
                                    start |-> StartOfCycle(making[w].at, GetBillingAnchorDay(u))]
      <4>1. making'[w].at = making[w].at
        BY <3>3
      <4> QED
        BY <1>1, <3>3, <4>1 DEF TimelyMaking
    <3> QED
      BY <1>5, <3>1, <3>2, <3>3, MakingSteps
  <2> QED
    BY <1>1, <2>1, <2>3 DEF TimelyMaking
<1> QED
  BY <1>3, <1>4, <1>5 DEF Next, Handler

\* What holds of every account, steady or not.
AccountInv ==
    /\ AccountTyped /\ OneAccount /\ RowsTyped
    /\ making \in [Workers -> Makings] /\ OwnersThere
    /\ FlightTyped /\ SteadyInv /\ CountInv /\ TimelyInv

LEMMA AccountInit == Init => AccountInv
<1> SUFFICES ASSUME Init PROVE AccountInv
  OBVIOUS
<1>1. OneAccount
  BY IdleTask DEF Init, OneAccount, Single, NewUser
<1>2. RowsTyped
  BY FS_EmptySet DEF Init, RowsTyped
<1>3. CountInv
  BY SumOfNone DEF Init, CountInv
<1>4. FlightTyped
  BY DEF Init, FlightTyped
<1>5. making \in [Workers -> Makings] /\ OwnersThere /\ TimelyInv
  BY BillingAssumption DEF Init, OwnersThere, TimelyInv, TimelyMaking, MakesNone, Makings, Times
<1> QED
  BY <1>1, <1>2, <1>3, <1>4, <1>5, TypedInit, SteadyInit DEF AccountInv

LEMMA AccountNext == AccountInv /\ [Next]_vars => AccountInv'
  BY TypedNext, OneAccountNext, MakingTyped, OwnersThereNext, SteadyNext, CountNext,
     FlightNext, TimelyNext DEF AccountInv

\* The account is billed for every message that was registered, and for one
\* once unless its cycles overlap or two rows were made for one, whatever requests
\* and handlers do between one another, for any number of them and any length of
\* a cycle (RegisterSentMessage, createBillingUsageForUser, computeBillingCycle).
THEOREM EveryMessageIsCounted == Spec => []CountedOnce
<1>1. AccountInv => CountedOnce
  <2> SUFFICES ASSUME AccountInv PROVE CountedOnce
    OBVIOUS
  <2> DEFINE counted == MapThenSumSet(LAMBDA row : row.used, usage)
  <2>1. counted = SumOn(Used, usage) /\ counted \in Nat /\ registered \in Nat
    BY CountedIsSum, UsedTyped DEF CountInv, AccountInv
  <2>2. counted = registered \/ (counted > registered /\ oddities \cap {"shifted", "raced"} # {})
    <3> HIDE DEF counted
    <3> QED
      BY <2>1 DEF CountInv, Steady, AccountInv
  <2> QED
    BY <2>2 DEF CountedOnce
<1> QED
  BY <1>1, AccountInit, AccountNext, PTL DEF Spec

----------------------------------------------------------------------------
(* What is left of an account that is gone. *)

\* A row is inserted only for a user who is there, or was when it was read.
LEMMA NoUserNoRow ==
    ASSUME OwnersThere, user = {}, "crossed" \notin oddities, NEW w \in Workers
    PROVE  /\ \A current : GetCurrent(w, current) => usage' = usage
           /\ \A used, row : row \in NewRows(w, used) => ~Insert(w, row)
  BY DEF OwnersThere, GetCurrent, Insert

LEMMA NothingOutlivesNext ==
    NothingOutlivesTheAccount /\ AccountTyped /\ OwnersThere /\ [Next]_vars
        => NothingOutlivesTheAccount'
<1> SUFFICES ASSUME NothingOutlivesTheAccount, AccountTyped, OwnersThere, [Next]_vars,
                    user' = {}, usage' # {},
                    "lost" \notin oddities', "crossed" \notin oddities'
             PROVE  "deleted" \in events' \/ \E w \in Workers : tasks'[w].step = "announce"
  BY DEF NothingOutlivesTheAccount
<1>1. "lost" \notin oddities /\ "crossed" \notin oddities
  BY OdditiesStay
<1>2. CASE UNCHANGED vars
  BY <1>1, <1>2 DEF vars, accountVars, usageVars, NothingOutlivesTheAccount
<1>3. CASE Tick \/ Visit
  BY <1>1, <1>3 DEF Tick, Visit, accountVars, usageVars, NothingOutlivesTheAccount
<1>4. ASSUME NEW kind \in Subscriptions, Webhook(kind)
      PROVE  "deleted" \in events' \/ \E w \in Workers : tasks'[w].step = "announce"
  BY <1>1, <1>4 DEF Webhook, usageVars, NothingOutlivesTheAccount
<1>5. ASSUME NEW w \in Workers, Handler(w)
      PROVE  "deleted" \in events' \/ \E v \in Workers : tasks'[v].step = "announce"
  <2>1. CASE DeleteUser(w)
    BY <1>5, <2>1, BecomesTask DEF DeleteUser, Steps
  <2>2. ~SaveUser(w)
    BY DEF SaveUser, AccountTyped
  <2>3. CASE user = {}
    <3>1. usage # {}
      <4>1. CASE CheckUsage(w)
        BY <1>1, <2>3, <4>1, NoUserNoRow DEF CheckUsage
      <4>2. CASE RegisterMessage(w)
        BY <4>2 DEF RegisterMessage, Register, Counted
      <4>3. CASE AlertUsage(w)
        BY <1>1, <2>3, <4>3, NoUserNoRow DEF AlertUsage
      <4>5. CASE RegisterRow(w)
        BY <1>1, <2>3, <4>5, NoUserNoRow DEF RegisterRow
      <4>4. CASE DeleteAllForUser(w)
        BY <4>4 DEF DeleteAllForUser
      <4> QED
        BY <1>5, <4>1, <4>2, <4>3, <4>4, <4>5, AccountSteps
    <3>2. CASE "deleted" \in events
      <4>1. ~DeleteAllForUser(w)
        BY DEF DeleteAllForUser
      <4>2. ~DeleteAllFails(w)
        BY OddAction DEF DeleteAllFails
      <4> QED
        BY <1>5, <3>2, <4>1, <4>2, AccountSteps
    <3>3. CASE \E v \in Workers : tasks[v].step = "announce"
      <4>1. PICK v \in Workers : tasks[v].step = "announce"
        BY <3>3
      <4>2. CASE v # w
        BY <1>5, <4>1, <4>2, Moved DEF Moves
      <4>3. CASE v = w
        <5>1. AnnounceDeleted(w) \/ UNCHANGED tasks
          BY <1>5, <4>1, <4>3, Moved
        <5> QED
          BY <4>1, <4>3, <5>1, OddAction DEF AnnounceDeleted
      <4> QED
        BY <4>2, <4>3
    <3> QED
      BY <1>1, <2>3, <3>1, <3>2, <3>3 DEF NothingOutlivesTheAccount
  <2> QED
    BY <1>5, <2>1, <2>2, <2>3, AccountSteps
<1> QED
  BY <1>2, <1>3, <1>4, <1>5 DEF Next, Handler

\* Nothing outlives the account: rows of usage without a user are always about
\* to be deleted, unless an event was lost or the account was deleted between
\* the two statements that read the user and insert the row, for any number of
\* requests and handlers (Delete, DeleteAllForUser, createBillingUsageForUser).
THEOREM UsageEndsWithAccount == Spec => []NothingOutlivesTheAccount
<1>1. Init => AccountInv /\ NothingOutlivesTheAccount
  BY AccountInit DEF Init, NothingOutlivesTheAccount
<1>2. AccountInv /\ NothingOutlivesTheAccount /\ [Next]_vars
          => (AccountInv /\ NothingOutlivesTheAccount)'
  BY AccountNext, NothingOutlivesNext DEF AccountInv
<1> QED
  BY <1>1, <1>2, PTL DEF Spec

----------------------------------------------------------------------------
(* The type invariant. *)

BoundsKept ==
    /\ changes \in 0..MaxChanges
    /\ created \in 0..MaxRows
    /\ warned \subseteq Int /\ refused \subseteq Int
    /\ oddities \subseteq Oddities
    /\ faults \in 0..MaxFaults

LEMMA OddKept ==
    ASSUME BoundsKept, NEW odd \in SUBSET Oddities, Note(odd) \/ Fault(odd)
    PROVE  oddities' \subseteq Oddities /\ faults' \in 0..MaxFaults
<1>1. MaxFaults \in Nat
  BY BillingAssumption
<1> QED
  BY <1>1 DEF BoundsKept, Note, Fault, Remember

LEMMA OddKinds ==
    ASSUME NEW t
    PROVE  /\ Gap(t) \subseteq Oddities /\ Late(t) \subseteq Oddities
           /\ Strange(t) \subseteq Oddities /\ Strange(t) \cup {"again"} \subseteq Oddities
           /\ \A w : Raced(w) \subseteq Oddities
           /\ \A odd \in {"shifted", "crossed", "late", "unread", "lost", "again"} :
                  {odd} \subseteq Oddities
           /\ {} \subseteq Oddities
  BY DEF Gap, Late, Strange, Raced, Oddities

LEMMA OddNext ==
    ASSUME BoundsKept, [Next]_vars
    PROVE  oddities' \subseteq Oddities /\ faults' \in 0..MaxFaults
<1>1. CASE UNCHANGED vars
  BY <1>1 DEF vars, BoundsKept
<1>2. CASE Tick \/ Visit \/ \E kind \in Subscriptions : Webhook(kind)
  <2>1. \E odd \in SUBSET Oddities : Note(odd)
    BY <1>2, OddKinds DEF Tick, Visit, Webhook
  <2> QED
    BY <2>1, OddKept
<1>3. ASSUME NEW w \in Workers, Handler(w)
      PROVE  \E odd \in SUBSET Oddities : Note(odd) \/ Fault(odd)
  <2>1. CASE IsEntitled(w) \/ CheckUsage(w) \/ CheckUsageFails(w) \/ Accept(w)
    BY <2>1, OddKinds DEF IsEntitled, CheckUsage, CheckUsageFails, Accept
  <2>2. CASE RegisterMessage(w)
    BY <2>2, OddKinds DEF RegisterMessage
  <2>7. CASE MissUsage(w) \/ ReadUser(w) \/ RegisterRow(w)
    BY <2>7, OddKinds DEF MissUsage, ReadUser, RegisterRow
  <2>3. CASE RegisterFails(w) \/ AlertUser(w) \/ AlertUsage(w)
    BY <2>3, OddKinds DEF RegisterFails, AlertUser, AlertUsage
  <2>4. CASE SaveUser(w)
    BY <2>4, OddKinds DEF SaveUser
  <2>5. CASE HandleSubscription(w) \/ Settings(w) \/ Delete(w) \/ DeleteUser(w)
    BY <2>5, OddKinds DEF HandleSubscription, Settings, Delete, DeleteUser
  <2>6. CASE AnnounceDeleted(w) \/ DeleteAllForUser(w) \/ DeleteAllFails(w)
    BY <2>6, OddKinds DEF AnnounceDeleted, DeleteAllForUser, DeleteAllFails
  <2> QED
    BY <1>3, <2>1, <2>2, <2>3, <2>4, <2>5, <2>6, <2>7 DEF Handler
<1> QED
  BY <1>1, <1>2, <1>3, OddKept DEF Next, Handler

LEMMA BoundsNext ==
    ASSUME AccountTyped, making \in [Workers -> Makings], RowsTyped, BoundsKept, [Next]_vars
    PROVE  BoundsKept'
<1>1. oddities' \subseteq Oddities /\ faults' \in 0..MaxFaults
  BY OddNext
<1>2. changes' \in 0..MaxChanges
  <2>1. MaxChanges \in Nat
    BY BillingAssumption
  <2>2. UNCHANGED changes \/ Change
    <3> USE DEF accountVars
    <3>1. CASE UNCHANGED vars
      BY <3>1 DEF vars
    <3>2. CASE Tick \/ Visit \/ \E kind \in Subscriptions : Webhook(kind)
      BY <3>2 DEF Tick, Visit, Webhook
    <3>3. ASSUME NEW w \in Workers, Handler(w) PROVE UNCHANGED changes \/ Change
      <4>1. CASE IsEntitled(w) \/ CheckUsage(w) \/ CheckUsageFails(w) \/ Accept(w)
        BY <4>1 DEF IsEntitled, CheckUsage, CheckUsageFails, Accept
      <4>2. CASE RegisterMessage(w) \/ RegisterFails(w) \/ AlertUser(w) \/ AlertUsage(w)
        BY <4>2 DEF RegisterMessage, RegisterFails, AlertUser, AlertUsage
      <4>3. CASE HandleSubscription(w) \/ Settings(w) \/ SaveUser(w) \/ Delete(w)
        BY <4>3 DEF HandleSubscription, Settings, SaveUser, Delete
      <4>4. CASE DeleteUser(w) \/ AnnounceDeleted(w) \/ DeleteAllForUser(w) \/ DeleteAllFails(w)
        BY <4>4 DEF DeleteUser, AnnounceDeleted, DeleteAllForUser, DeleteAllFails
      <4>5. CASE MissUsage(w) \/ ReadUser(w) \/ RegisterRow(w)
        BY <4>5 DEF MissUsage, ReadUser, RegisterRow
      <4> QED
        BY <3>3, <4>1, <4>2, <4>3, <4>4, <4>5 DEF Handler
    <3> QED
      BY <3>1, <3>2, <3>3 DEF Next, Handler
  <2> QED
    BY <2>1, <2>2 DEF BoundsKept, Change
<1>3. created' \in 0..MaxRows
  <2>1. MaxRows \in Nat
    BY BillingAssumption
  <2>2. UNCHANGED created \/ \E w, row : Insert(w, row)
    BY UsageSteps DEF Reads, Counts, Inserts, Drops, GetCurrent
  <2> QED
    BY <2>1, <2>2 DEF BoundsKept, Insert
<1>4. warned' \subseteq Int /\ refused' \subseteq Int
  <2>1. \A w \in Workers : \A current : GetCurrent(w, current) => current.start \in Int
    BY CurrentTyped DEF Rows
  <2> USE DEF historyVars
  <2>2. CASE UNCHANGED vars
    BY <2>2 DEF vars, BoundsKept
  <2>3. CASE Tick \/ Visit \/ \E kind \in Subscriptions : Webhook(kind)
    BY <2>3 DEF Tick, Visit, Webhook, BoundsKept
  <2>4. ASSUME NEW w \in Workers, Handler(w)
        PROVE  warned' \subseteq Int /\ refused' \subseteq Int
    <3>1. CASE CheckUsage(w)
      BY <2>1, <3>1 DEF CheckUsage, BoundsKept
    <3>2. CASE AlertUsage(w)
      BY <2>1, <3>2 DEF AlertUsage, BoundsKept
    <3>3. CASE IsEntitled(w) \/ CheckUsageFails(w) \/ Accept(w) \/ AlertUser(w)
      BY <3>3 DEF IsEntitled, CheckUsageFails, Accept, AlertUser, BoundsKept
    <3>4. CASE RegisterMessage(w) \/ RegisterFails(w) \/ HandleSubscription(w) \/ Settings(w)
      BY <3>4 DEF RegisterMessage, RegisterFails, HandleSubscription, Settings, BoundsKept
    <3>5. CASE SaveUser(w) \/ Delete(w) \/ DeleteUser(w) \/ AnnounceDeleted(w)
      BY <3>5 DEF SaveUser, Delete, DeleteUser, AnnounceDeleted, BoundsKept
    <3>6. CASE DeleteAllForUser(w) \/ DeleteAllFails(w)
      BY <3>6 DEF DeleteAllForUser, DeleteAllFails, BoundsKept
    <3>7. CASE MissUsage(w) \/ ReadUser(w) \/ RegisterRow(w)
      BY <3>7 DEF MissUsage, ReadUser, RegisterRow, BoundsKept
    <3> QED
      BY <2>4, <3>1, <3>2, <3>3, <3>4, <3>5, <3>6, <3>7 DEF Handler
  <2> QED
    BY <2>2, <2>3, <2>4 DEF Next, Handler
<1> QED
  BY <1>1, <1>2, <1>3, <1>4 DEF BoundsKept

\* Every variable has its type, and there is never a second row of the user.
THEOREM BillingTyped == Spec => []TypeOK
<1>1. Init => AccountInv /\ BoundsKept
  <2> SUFFICES ASSUME Init PROVE BoundsKept
    BY AccountInit
  <2>1. MaxChanges \in Nat /\ MaxRows \in Nat /\ MaxFaults \in Nat
    BY BillingAssumption
  <2> QED
    BY <2>1 DEF Init, BoundsKept
<1>2. AccountInv /\ BoundsKept /\ [Next]_vars => (AccountInv /\ BoundsKept)'
  BY AccountNext, BoundsNext DEF AccountInv
<1>3. AccountInv /\ BoundsKept => TypeOK
  <2> SUFFICES ASSUME AccountInv, BoundsKept PROVE TypeOK
    OBVIOUS
  <2>1. Cardinality(user) <= 1
    <3>1. CASE user = {}
      BY <3>1, FS_EmptySet
    <3>2. CASE user # {}
      <4>1. PICK u \in user : TRUE
        BY <3>2
      <4>2. Single(user)
        BY DEF AccountInv, OneAccount
      <4>3. user = {u}
        BY <4>1, <4>2 DEF Single
      <4> QED
        BY <4>3, FS_Singleton
    <3> QED
      BY <3>1, <3>2
  <2> QED
    BY <2>1 DEF AccountInv, AccountTyped, RowsTyped, FlightTyped, CountInv, BoundsKept, TypeOK
<1> QED
  BY <1>1, <1>2, <1>3, PTL DEF Spec

----------------------------------------------------------------------------
(* The warning of a free user, in the behaviours WarnedBeforeRefused is about. *)

Calm == oddities \subseteq {"unread", "again"}

LEMMA CalmBefore == [Next]_vars /\ Calm' => Calm
  BY OdditiesStay DEF Calm

LEMMA CalmIsSteady == Calm => Steady
  BY DEF Calm, Steady

\* The row whose alert is still to be decided.
ToBeWarned(row) ==
    Alerting /\ row.used = AlertAt /\ row.start = StartOfCycle(now, Created)

CalmWarnings ==
    /\ \A row \in usage : row.used >= AlertAt => row.start \in warned \/ ToBeWarned(row)
    /\ \A start \in refused \ warned :
           /\ Alerting
           /\ \/ user = {} /\ usage = {}
              \/ \E row \in usage : row.start = start /\ row.used >= AlertAt

WarningInv == Calm => CalmWarnings

LEMMA WarningInit == Init => WarningInv
  BY DEF Init, WarningInv, CalmWarnings

\* Steps that neither count, warn nor refuse.
LEMMA QuietStep ==
    ASSUME CalmWarnings, UNCHANGED <<usage, warned, refused>>,
           Alerting => Alerting' /\ StartOfCycle(now', Created) = StartOfCycle(now, Created),
           user' = user \/ user' = {}
    PROVE  CalmWarnings'
  BY DEF CalmWarnings, ToBeWarned

\* The row that is read is the one of the cycle of now.
LEMMA ReadingNow ==
    ASSUME AccountInv, Steady, "late" \notin oddities, "crossed" \notin oddities,
           NEW w \in Workers, Raced(w) = {}, NEW current, GetCurrent(w, current)
    PROVE  /\ SteadyRows'
           /\ current \in usage' /\ usage \subseteq usage'
           /\ current.start = StartOfCycle(now, Created)
           /\ \A row \in usage' : row \in usage \/ (row = current /\ row.used = 0)
           /\ usage # {} \/ user # {}
<1>1. SteadyRows /\ SteadyMaking /\ TimelyMaking /\ now \in Int
  BY DEF AccountInv, SteadyInv, TimelyInv, AccountTyped, Times
<1>2. making[w].step = "insert" =>
          user # {} /\ StartOfCycle(making[w].at, Created) = StartOfCycle(now, Created)
  BY <1>1 DEF AccountInv, OwnersThere, TimelyMaking
<1> QED
  BY <1>1, <1>2, Reading DEF AccountInv

\* A handler other than the one that alerts leaves the alerts that are to be
\* decided.
LEMMA StillAlerting ==
    ASSUME NEW w \in Workers, Moves(w),
           tasks[w].step \notin {"register", "alert", "alertUsage"}
               \/ tasks'[w].step \in {"register", "alert", "alertUsage"}
    PROVE  Alerting => Alerting'
  BY DEF Alerting, Moves

LEMMA CheckUsageWarned ==
    ASSUME AccountInv, Calm, CalmWarnings, NEW w \in Workers, CheckUsage(w), Calm'
    PROVE  CalmWarnings'
<1>1. /\ Moves(w) /\ tasks[w].step = "usage"
      /\ SteadyAccount
  BY Moved, CalmIsSteady DEF AccountInv, SteadyInv, CheckUsage, Handler
<1>2. Raced(w) = {}
  BY OddAction DEF CheckUsage, Raced, Calm
<1>3. UNCHANGED <<now, user, warned>>
  BY DEF CheckUsage, accountVars
<1>4. PICK u \in tasks[w].user, current \in Currents(w) :
          /\ GetCurrent(w, current)
          /\ \/ UNCHANGED refused
             \/ current.used + 1 > Limit(u.plan) /\ refused' = refused \cup {current.start}
  BY DEF CheckUsage
<1>5. Limit(u.plan) = FreeLimit
  BY <1>1 DEF SteadyAccount, NewUser, Limit
<1>6. /\ SteadyRows'
      /\ current \in usage' /\ usage \subseteq usage'
      /\ \A row \in usage' : row \in usage \/ row.used = 0
      /\ usage # {} \/ user # {}
  BY <1>2, <1>4, ReadingNow, CalmIsSteady DEF Calm
<1>7. Alerting => Alerting'
  BY <1>1, StillAlerting
<1>8. AlertAt \in Nat /\ FreeLimit \in Nat /\ AlertAt > 0 /\ AlertAt <= FreeLimit
  BY BillingAssumption
<1>9. ASSUME NEW row \in usage', row.used >= AlertAt
      PROVE  row.start \in warned' \/ ToBeWarned(row)'
  <2>1. row \in usage
    BY <1>6, <1>8, <1>9
  <2> QED
    BY <1>3, <1>7, <1>9, <2>1 DEF CalmWarnings, ToBeWarned
<1>10. ASSUME NEW start \in refused' \ warned'
       PROVE  /\ Alerting'
              /\ \E row \in usage' : row.start = start /\ row.used >= AlertAt
  <2>1. CASE start \in refused
    BY <1>3, <1>6, <1>7, <1>10, <2>1 DEF CalmWarnings
  <2>2. CASE start = current.start /\ current.used + 1 > FreeLimit
    <3>1. current.used \in Nat
      BY <1>6 DEF SteadyRows, Rows
    <3>2. current.used >= AlertAt
      BY <1>8, <2>2, <3>1
    <3> QED
      BY <1>6, <1>9, <1>10, <2>2, <3>2 DEF ToBeWarned
  <2> QED
    BY <1>4, <1>5, <1>10, <2>1, <2>2
<1> QED
  BY <1>6, <1>9, <1>10 DEF CalmWarnings

LEMMA AlertUsageWarned ==
    ASSUME AccountInv, Calm, CalmWarnings, NEW w \in Workers, AlertUsage(w), Calm'
    PROVE  CalmWarnings'
<1>1. Moves(w) /\ SteadyAccount
  BY Moved, CalmIsSteady DEF AccountInv, SteadyInv, Handler
<1>2. UNCHANGED <<now, user, refused>>
  BY DEF AlertUsage, accountVars
<1>3. PICK u \in tasks[w].user, current \in Currents(w) :
          /\ GetCurrent(w, current)
          /\ warned' = IF shouldSendAlert(u, current)
                       THEN warned \cup {current.start} ELSE warned
          /\ Note(Raced(w))
  BY OddAction DEF AlertUsage, Calm
<1>4. Raced(w) = {}
  BY <1>3, OddAction DEF Raced, Calm
<1>5. /\ SteadyRows'
      /\ current \in usage' /\ usage \subseteq usage'
      /\ current.start = StartOfCycle(now, Created)
      /\ \A row \in usage' : row \in usage \/ row.used = 0
      /\ usage # {} \/ user # {}
  BY <1>3, <1>4, ReadingNow, CalmIsSteady DEF Calm
<1>6. warned \subseteq warned' /\ (current.used = AlertAt => current.start \in warned')
  BY <1>1, <1>3 DEF shouldSendAlert, SteadyAccount, NewUser
<1>7. AlertAt \in Nat /\ AlertAt > 0
  BY BillingAssumption
<1>8. ASSUME NEW row \in usage', row.used >= AlertAt
      PROVE  row.start \in warned'
  <2>1. row \in usage
    BY <1>5, <1>7, <1>8
  <2>2. CASE row.start = StartOfCycle(now, Created) /\ row.used = AlertAt
    <3>1. row = current
      BY <1>5, <2>1, <2>2 DEF SteadyRows
    <3> QED
      BY <1>6, <2>2, <3>1
  <2> QED
    BY <1>6, <1>8, <2>1, <2>2 DEF CalmWarnings, ToBeWarned
<1>9. refused' \ warned' = {}
  BY <1>2, <1>5, <1>6, <1>8 DEF CalmWarnings
<1> QED
  BY <1>5, <1>8, <1>9 DEF CalmWarnings

\* What counts in the cycle of now, before an alert is decided.
LEMMA CountsWarned ==
    ASSUME CalmWarnings, CountsIn(StartOfCycle(now, Created)),
           \A row \in usage : row.start = StartOfCycle(now, Created) /\ row.used >= AlertAt
                                  => row.start \in warned,
           \A start \in refused \ warned : \E row \in usage' : row.start = start /\ row.used >= AlertAt,
           Alerting', UNCHANGED <<now, user, warned, refused>>
    PROVE  CalmWarnings'
<1>1. AlertAt \in Nat /\ AlertAt > 0
  BY BillingAssumption
<1>2. ASSUME NEW row \in usage', row.used >= AlertAt
      PROVE  row.start \in warned' \/ ToBeWarned(row)'
  <2>1. CASE row \in usage /\ row.start # StartOfCycle(now, Created)
    BY <1>2, <2>1 DEF CalmWarnings, ToBeWarned
  <2>2. CASE /\ row.start = StartOfCycle(now, Created)
             /\ \E n \in UsedIn(row.start) : n \in Nat /\ row.used = n + 1
    <3>1. PICK n \in UsedIn(row.start) : n \in Nat /\ row.used = n + 1
      BY <2>2
    <3>2. CASE n + 1 = AlertAt
      BY <2>2, <3>1, <3>2 DEF ToBeWarned
    <3>3. CASE n >= AlertAt
      <4>1. PICK old \in usage : old.start = row.start /\ old.used = n
        BY <1>1, <3>1, <3>3 DEF UsedIn
      <4> QED
        BY <2>2, <3>3, <4>1
    <3> QED
      BY <1>1, <1>2, <3>1, <3>2, <3>3
  <2> QED
    BY <2>1, <2>2 DEF CountsIn
<1> QED
  BY <1>2 DEF CalmWarnings

LEMMA RegisterWarned ==
    ASSUME AccountInv, Calm, CalmWarnings, NEW w \in Workers, RegisterMessage(w), Calm'
    PROVE  CalmWarnings'
<1>1. UNCHANGED <<now, user, warned, refused>>
  BY DEF RegisterMessage, accountVars, historyVars
<1>2. PICK t \in Times :
          Register(w, t) /\ (Note(Strange(t)) \/ Fault(Strange(t) \cup {"again"}))
  BY DEF RegisterMessage
<1>3. t \in Int /\ SteadyAccount /\ SteadyRows
  BY CalmIsSteady DEF Times, AccountInv, SteadyInv
<1>4. Strange(t) \subseteq oddities'
  BY <1>2, OddAction
<1>5. ~InGap(t) /\ ~Apart(t, now) /\ ~Alerting
  BY <1>4 DEF Calm, Strange, Gap, Late
<1>6. user = {NewUser} /\ StartOfCycle(t, Created) = StartOfCycle(now, Created)
  BY <1>3, <1>5, NotApart
<1>7. refused' \ warned' = {} /\ refused \ warned = {}
  BY <1>1, <1>5 DEF CalmWarnings
<1>8. \A row \in usage : row.used >= AlertAt => row.start \in warned
  BY <1>5 DEF CalmWarnings, ToBeWarned
<1>9. CASE usage' = Counted(t) /\ Become(w, Task("alert", {}, "none", {}))
  <2>1. Alerting'
    BY <1>9, BecomesTask DEF Alerting, Steps, AccountInv
  <2>2. CountsIn(StartOfCycle(now, Created))
    BY <1>3, <1>5, <1>6, <1>9, Registering
  <2> QED
    BY <1>1, <1>7, <1>8, <2>1, <2>2, CountsWarned
<1>10. CASE UNCHANGED usage
  BY <1>1, <1>7, <1>8, <1>10 DEF CalmWarnings
<1> QED
  BY <1>2, <1>9, <1>10 DEF Register

\* The alert for a new row is still to be decided when the row counts.
LEMMA RegisterRowWarned ==
    ASSUME AccountInv, Calm, CalmWarnings, NEW w \in Workers, RegisterRow(w), Calm'
    PROVE  CalmWarnings'
<1>1. UNCHANGED <<now, user, warned, refused>>
  BY DEF RegisterRow, accountVars, historyVars
<1>2. Raced(w) = {} /\ Inserts(w, 1) /\ tasks[w].step = "register"
  BY OddAction DEF RegisterRow, Inserts, Raced, Calm
<1>3. SteadyRows /\ SteadyMaking /\ TimelyMaking /\ making \in [Workers -> Makings]
  BY CalmIsSteady DEF AccountInv, SteadyInv, TimelyInv, Calm
<1>4. PICK row \in NewRows(w, 1) : Insert(w, row)
  BY <1>2 DEF Inserts
<1>5. making[w].step = "insert" /\ usage' = usage \cup {row}
  BY <1>4 DEF Insert
<1>6. /\ row.used = 1 /\ row.start = StartOfCycle(making[w].at, Created)
      /\ \A other \in usage : other.start # row.start
  BY <1>2, <1>3, <1>4, <1>5, NewRow
<1>7. row.start = StartOfCycle(now, Created)
  BY <1>3, <1>5, <1>6 DEF TimelyMaking
<1>8. CountsIn(StartOfCycle(now, Created))
  BY <1>2, <1>3, <1>5, RegisteringRow DEF TimelyMaking
<1>9. Alerting'
  BY BecomesTask DEF RegisterRow, Alerting, Steps, AccountInv
<1>10. Alerting
  BY <1>2 DEF Alerting
<1>11. \A start \in refused \ warned : \E other \in usage' : other.start = start /\ other.used >= AlertAt
  <2>1. user # {}
    BY <1>5 DEF AccountInv, OwnersThere, Calm
  <2> QED
    BY <1>5, <2>1 DEF CalmWarnings
<1> QED
  BY <1>1, <1>6, <1>7, <1>8, <1>9, <1>11, CountsWarned

\* The handlers that do not touch the usage, and the one that deletes it.
LEMMA OtherHandlersWarned ==
    ASSUME AccountTyped, SteadyAccount, CalmWarnings, user' = user \/ user' = {},
           NEW w \in Workers, Handler(w), Calm',
           ~CheckUsage(w), ~RegisterMessage(w), ~RegisterRow(w), ~AlertUsage(w)
    PROVE  CalmWarnings'
<1>1. Moves(w) /\ UNCHANGED now
  BY Moved, AccountSteps
<1>2. tasks[w].step \notin {"register", "alert", "alertUsage"}
          \/ tasks'[w].step \in {"register", "alert", "alertUsage"}
  <2>1. CASE AlertUser(w)
    <3>1. user # {} /\ Become(w, Task("alertUsage", user, "none", {}))
      BY <2>1, OddAction DEF AlertUser, Calm
    <3>2. user \in SUBSET Users /\ "alertUsage" \in Steps \ {"save"}
      BY DEF AccountTyped, Steps
    <3> QED
      BY <3>1, <3>2, BecomesTask
  <2>2. CASE IsEntitled(w) \/ CheckUsageFails(w) \/ Accept(w)
    BY <2>2, IdleTask DEF IsEntitled, CheckUsageFails, Accept
  <2>3. CASE HandleSubscription(w) \/ Settings(w) \/ SaveUser(w)
    BY <2>3, IdleTask DEF HandleSubscription, Settings, SaveUser
  <2>6. CASE RegisterFails(w)
    BY <2>6, OddAction DEF RegisterFails, Calm
  <2>7. CASE MissUsage(w) \/ ReadUser(w)
    BY <2>7 DEF MissUsage, ReadUser
  <2>4. CASE Delete(w) \/ DeleteUser(w) \/ AnnounceDeleted(w)
    BY <2>4, IdleTask DEF Delete, DeleteUser, AnnounceDeleted
  <2>5. CASE DeleteAllForUser(w) \/ DeleteAllFails(w)
    BY <2>5, IdleTask DEF DeleteAllForUser, DeleteAllFails
  <2> QED
    BY <2>1, <2>2, <2>3, <2>4, <2>5, <2>6, <2>7 DEF Handler
<1>3. Alerting => Alerting'
  BY <1>1, <1>2, StillAlerting
<1>4. UNCHANGED <<warned, refused>>
  <2> USE DEF historyVars
  <2>1. CASE IsEntitled(w) \/ CheckUsageFails(w) \/ Accept(w) \/ RegisterFails(w)
    BY <2>1 DEF IsEntitled, CheckUsageFails, Accept, RegisterFails
  <2>2. CASE AlertUser(w) \/ HandleSubscription(w) \/ Settings(w) \/ SaveUser(w)
    BY <2>2 DEF AlertUser, HandleSubscription, Settings, SaveUser
  <2>3. CASE Delete(w) \/ DeleteUser(w) \/ AnnounceDeleted(w)
    BY <2>3 DEF Delete, DeleteUser, AnnounceDeleted
  <2>4. CASE DeleteAllForUser(w) \/ DeleteAllFails(w)
    BY <2>4 DEF DeleteAllForUser, DeleteAllFails
  <2>5. CASE MissUsage(w) \/ ReadUser(w)
    BY <2>5 DEF MissUsage, ReadUser
  <2> QED
    BY <2>1, <2>2, <2>3, <2>4, <2>5 DEF Handler
<1>5. CASE UNCHANGED usage
  BY <1>1, <1>3, <1>4, <1>5, QuietStep
<1>6. CASE DeleteAllForUser(w)
  <2>1. usage' = {} /\ UNCHANGED user /\ user = {}
    BY <1>6 DEF DeleteAllForUser, SteadyAccount
  <2> QED
    BY <1>3, <1>4, <2>1 DEF CalmWarnings
<1> QED
  BY <1>5, <1>6, AccountSteps

LEMMA WarningNext ==
    AccountInv /\ WarningInv /\ [Next]_vars => WarningInv'
<1> SUFFICES ASSUME AccountInv, WarningInv, [Next]_vars, Calm'
             PROVE  CalmWarnings'
  BY DEF WarningInv
<1>1. AccountTyped /\ Calm /\ SteadyAccount /\ CalmWarnings
  BY CalmBefore, CalmIsSteady DEF WarningInv, AccountInv, SteadyInv
<1>2. SteadyAccount' /\ (user' = user \/ user' = {})
  BY <1>1, SteadyAccountNext DEF Calm, Steady
<1>3. CASE UNCHANGED vars
  BY <1>1, <1>3, QuietStep, <1>2 DEF vars, usageVars, historyVars, Alerting
<1>4. CASE Tick
  <2>1. UNCHANGED <<usage, warned, refused, user, tasks>> /\ now' = now + 1
    BY <1>4 DEF Tick, accountVars, usageVars, historyVars
  <2>2. ASSUME Alerting
        PROVE  Alerting' /\ StartOfCycle(now', Created) = StartOfCycle(now, Created)
    <3>1. ~Apart(now, now + 1)
      BY <1>4, <2>2, OddAction DEF Tick, Calm
    <3>2. StartOfCycle(now, Created) = StartOfCycle(now + 1, Created)
      BY <1>1, <3>1, NewUserAnchor DEF Apart, SteadyAccount
    <3> QED
      BY <2>1, <2>2, <3>2 DEF Alerting
  <2> QED
    BY <1>1, <1>2, <2>1, <2>2, QuietStep
<1>5. CASE Visit
  BY <1>5, OddAction DEF Visit, Calm
<1>6. ASSUME NEW kind \in Subscriptions, Webhook(kind)
      PROVE  CalmWarnings'
  <2>1. UNCHANGED <<now, usage, warned, refused, tasks>>
    BY <1>6 DEF Webhook, usageVars, historyVars
  <2> QED
    BY <1>1, <1>2, <2>1, QuietStep DEF Alerting
<1>7. ASSUME NEW w \in Workers, Handler(w)
      PROVE  CalmWarnings'
  BY <1>1, <1>2, <1>7, CheckUsageWarned, RegisterWarned, RegisterRowWarned,
     AlertUsageWarned, OtherHandlersWarned
<1> QED
  BY <1>2, <1>3, <1>4, <1>5, <1>6, <1>7 DEF Next, Handler

\* A free user has been warned of a cycle before a message of it is refused, for
\* any number of requests and handlers and any limits, as long as registrations
\* do not overlap and none comes late (sendUsageAlert, shouldSendAlert,
\* handleLimitExceeded).
THEOREM FreeUserIsWarned == Spec => []WarnedBeforeRefused
<1>1. Init => AccountInv /\ WarningInv
  BY AccountInit, WarningInit
<1>2. AccountInv /\ WarningInv /\ [Next]_vars => (AccountInv /\ WarningInv)'
  BY AccountNext, WarningNext
<1>3. WarningInv => WarnedBeforeRefused
  BY DEF WarningInv, Calm, CalmWarnings, WarnedBeforeRefused
<1> QED
  BY <1>1, <1>2, <1>3, PTL DEF Spec

----------------------------------------------------------------------------
(* How far a free user gets beyond the limit, in the behaviours that         *)
(* OvershootIsInFlight is about.                                             *)

Prompt == oddities \subseteq {"overlap"}

TimesOf(start) == { t \in Times : StartOfCycle(t, Created) = start }

\* The events of accepted messages of a cycle.
WaitingIn(start) == SumOn(waiting, TimesOf(start))

\* Requests that are entitled and not accepted yet, and messages that a row is
\* made for, are of the cycle of now.
EntitledIn(start) ==
    IF start = StartOfCycle(now, Created) THEN Cardinality(Entitled) ELSE 0

\* What is still to be counted in a cycle.
Coming(start) == WaitingIn(start) + EntitledIn(start)

PromptRows == \A row \in usage : row.start <= now

PromptEvents == \A t \in Times : waiting[t] > 0 => t <= now

\* The overshoot, also of the cycles that have no row yet, and the requests
\* that take it with them into the next cycle.
Overshoot ==
    /\ InFlight <= burst + 1
    /\ \A start \in Int : \A n \in UsedIn(start) : n + Coming(start) <= FreeLimit + burst

PromptInv == Prompt => PromptRows /\ PromptEvents /\ Overshoot

LEMMA PromptBefore ==
    /\ [Next]_vars /\ Prompt' => Prompt
    /\ Prompt => Steady
  BY OdditiesStay DEF Prompt, Steady

LEMMA ComingTyped ==
    ASSUME FlightTyped, NEW start
    PROVE  /\ IsFiniteSet(TimesOf(start)) /\ TimesOf(start) \subseteq Times
           /\ WaitingIn(start) \in Nat /\ EntitledIn(start) \in Nat
           /\ Coming(start) \in Nat
           /\ WaitingIn(start) + EntitledIn(start) <= InFlight
<1>1. /\ IsFiniteSet(Times) /\ Cardinality(Entitled) \in Nat
      /\ SumOn(waiting, Times) \in Nat
      /\ InFlight = SumOn(waiting, Times) + Cardinality(Entitled)
  BY InFlightIs DEF FlightTyped
<1>2. IsFiniteSet(TimesOf(start)) /\ TimesOf(start) \in SUBSET Times
  BY <1>1, FS_Subset DEF TimesOf
<1>3. \A t \in Times : waiting[t] \in Nat
  BY DEF FlightTyped
<1>4. WaitingIn(start) \in Nat /\ WaitingIn(start) <= SumOn(waiting, Times)
  BY <1>1, <1>2, <1>3, SumIsNat, SumOfLess DEF WaitingIn
<1>5. EntitledIn(start) \in Nat /\ EntitledIn(start) <= Cardinality(Entitled)
  BY <1>1 DEF EntitledIn
<1> QED
  BY <1>1, <1>2, <1>4, <1>5 DEF Coming

LEMMA UsedTypedIn ==
    ASSUME RowsTyped, NEW start
    PROVE  UsedIn(start) \subseteq Nat /\ 0 \in UsedIn(start)
  BY DEF UsedIn, RowsTyped, Rows

LEMMA PromptInit == Init => PromptInv
<1> SUFFICES ASSUME Init PROVE PromptRows /\ PromptEvents /\ Overshoot
  BY DEF PromptInv
<1>1. PromptRows /\ PromptEvents
  BY DEF Init, PromptRows, PromptEvents
<1>2. Entitled = {}
  BY IdleTask DEF Init, Entitled
<1>3. FreeLimit \in Nat
  BY BillingAssumption
<1>4. FlightTyped
  BY DEF Init, FlightTyped
<1>5. ASSUME NEW start PROVE WaitingIn(start) = 0
  <2>1. \A t \in TimesOf(start) : waiting[t] = 0
    BY DEF Init, TimesOf
  <2> QED
    BY <1>4, <2>1, ComingTyped, SumOfZeros DEF WaitingIn
<1>6. \A start : UsedIn(start) = {0} /\ EntitledIn(start) = 0
  BY <1>2, FS_EmptySet DEF Init, UsedIn, EntitledIn
<1>7. InFlight = 0
  <2>1. \A t \in Times : waiting[t] = 0
    BY DEF Init
  <2>2. SumOn(waiting, Times) = 0
    BY <1>4, <2>1, InFlightIs, SumOfZeros DEF FlightTyped
  <2> QED
    BY <1>2, <1>4, <2>2, InFlightIs, FS_EmptySet DEF FlightTyped
<1> QED
  BY <1>1, <1>2, <1>3, <1>5, <1>6, <1>7, FS_EmptySet DEF Init, Overshoot, Coming

\* Who becomes entitled, and who does not stay it.
LEMMA EntitledMoves ==
    ASSUME AccountTyped, NEW w \in Workers, Handler(w), Prompt'
    PROVE  /\ tasks'[w].step \in {"entitled", "register"} <=> w \in Entitled'
           /\ Entitled' \ {w} = Entitled \ {w}
           /\ Accept(w) \/ RegisterRow(w) => w \in Entitled /\ w \notin Entitled'
           /\ CheckUsage(w) \/ RegisterMessage(w) => w \notin Entitled
           /\ \/ Accept(w) \/ RegisterRow(w) \/ CheckUsage(w) \/ RegisterMessage(w)
              \/ Entitled' = Entitled
<1>1. /\ tasks' \in [Workers -> Tasks]
      /\ \A v \in Workers \ {w} : tasks'[v] = tasks[v]
  BY Moved DEF Moves
<1>2. tasks'[w].step \in {"entitled", "register"} <=> w \in Entitled'
  BY DEF Entitled
<1>3. Entitled' \ {w} = Entitled \ {w}
  BY <1>1 DEF Entitled
<1>4. CASE Accept(w) \/ RegisterRow(w)
  <2>1. w \in Entitled
    BY <1>4 DEF Accept, RegisterRow, Entitled
  <2>2. w \notin Entitled'
    BY <1>4, BecomesIdle, BecomesTask DEF Accept, RegisterRow, Entitled, Steps
  <2>3. ~CheckUsage(w) /\ ~RegisterMessage(w)
    BY <1>4, IdleTask DEF Accept, RegisterRow, CheckUsage, RegisterMessage
  <2> QED
    BY <1>2, <1>3, <1>4, <2>1, <2>2, <2>3
<1>5. CASE CheckUsage(w) \/ RegisterMessage(w)
  <2>1. w \notin Entitled
    BY <1>5, IdleTask DEF CheckUsage, RegisterMessage, Entitled
  <2> QED
    BY <1>2, <1>3, <1>5, <2>1 DEF Accept, RegisterRow, Entitled
<1>6. CASE UNCHANGED tasks
  BY <1>2, <1>3, <1>4, <1>5, <1>6 DEF Entitled
<1>7. ASSUME w \notin Entitled, w \notin Entitled'
      PROVE  Entitled' = Entitled /\ ~Accept(w) /\ ~RegisterRow(w)
  BY <1>3, <1>7 DEF Accept, RegisterRow, Entitled
<1>8. CASE Become(w, Idle) /\ w \notin Entitled
  BY <1>2, <1>3, <1>5, <1>7, <1>8, BecomesIdle
<1>9. CASE w \notin Entitled /\ \E step \in Steps \ {"save", "entitled", "register"}, row \in {{}, user} :
               Become(w, Task(step, row, "none", {}))
  <2>1. PICK step \in Steps \ {"save", "entitled", "register"}, row \in {{}, user} :
            Become(w, Task(step, row, "none", {}))
    BY <1>9
  <2>2. row \in SUBSET Users /\ step \in Steps \ {"save"}
    BY DEF AccountTyped
  <2>3. tasks'[w].step = step
    BY <2>1, <2>2, BecomesTask
  <2> QED
    BY <1>2, <1>3, <1>5, <1>7, <1>9, <2>3
<1>10. CASE w \notin Entitled /\ user # {} /\ \E kind \in Kinds, renews \in SUBSET Renewals :
                Become(w, Task("save", user, kind, renews))
  BY <1>2, <1>3, <1>5, <1>7, <1>10, BecomesSave
<1>11. CASE IsEntitled(w)
  BY <1>9, <1>11, OddAction, IdleTask DEF IsEntitled, Steps, Prompt, Entitled
<1>12. CASE CheckUsageFails(w) \/ RegisterFails(w)
  BY <1>12, OddAction DEF CheckUsageFails, RegisterFails, Prompt
<1>13. CASE Delete(w) \/ DeleteUser(w)
  BY <1>9, <1>13, IdleTask DEF Delete, DeleteUser, Steps, Entitled
<1>14. CASE MissUsage(w) \/ ReadUser(w) \/ DeleteAllForUser(w) \/ DeleteAllFails(w)
  BY <1>6, <1>14 DEF MissUsage, ReadUser, DeleteAllForUser, DeleteAllFails
<1>15. CASE AlertUser(w)
  BY <1>8, <1>9, <1>15 DEF AlertUser, Steps, Entitled
<1>16. CASE AlertUsage(w) \/ SaveUser(w) \/ AnnounceDeleted(w)
  BY <1>8, <1>16 DEF AlertUsage, SaveUser, AnnounceDeleted, Entitled
<1>17. CASE HandleSubscription(w)
  <2>1. CASE UNCHANGED tasks
    BY <1>6, <2>1
  <2>2. CASE user # {} /\ \E kind \in Subscriptions, renewal \in Renewals :
                 Become(w, Task("save", user, kind, {renewal}))
    <3>1. PICK kind \in Subscriptions, renewal \in Renewals :
              Become(w, Task("save", user, kind, {renewal}))
      BY <2>2
    <3>2. kind \in Kinds /\ {renewal} \in SUBSET Renewals
      BY DEF Kinds
    <3> QED
      BY <1>10, <1>17, <2>2, <3>1, <3>2, IdleTask DEF HandleSubscription, Entitled
  <2> QED
    BY <1>17, <2>1, <2>2 DEF HandleSubscription
<1>18. CASE Settings(w)
  BY <1>10, <1>18, IdleTask DEF Settings, Kinds, Entitled
<1> QED
  BY <1>4, <1>5, <1>11, <1>12, <1>13, <1>14, <1>15, <1>16, <1>17, <1>18 DEF Handler

\* What is in flight, as a sum that the provers can follow.
LEMMA FlightNow ==
    FlightTyped =>
        /\ InFlight = SumOn(waiting, Times) + Cardinality(Entitled)
        /\ SumOn(waiting, Times) \in Nat /\ Cardinality(Entitled) \in Nat
  BY InFlightIs DEF FlightTyped

\* And after a step.
LEMMA FlightThen ==
    (FlightTyped =>
        /\ InFlight = SumOn(waiting, Times) + Cardinality(Entitled)
        /\ SumOn(waiting, Times) \in Nat /\ Cardinality(Entitled) \in Nat)'
  BY FlightNow, PTL

LEMMA FlightIs ==
    ASSUME FlightTyped, FlightTyped'
    PROVE  /\ InFlight = SumOn(waiting, Times) + Cardinality(Entitled)
           /\ InFlight' = SumOn(waiting', Times) + Cardinality(Entitled')
           /\ InFlight \in Nat /\ InFlight' \in Nat
           /\ SumOn(waiting, Times) \in Nat /\ Cardinality(Entitled) \in Nat
           /\ SumOn(waiting', Times) \in Nat /\ Cardinality(Entitled') \in Nat
           /\ UNCHANGED waiting /\ Entitled' = Entitled => InFlight' = InFlight
<1>1. /\ InFlight = SumOn(waiting, Times) + Cardinality(Entitled)
      /\ SumOn(waiting, Times) \in Nat /\ Cardinality(Entitled) \in Nat
  BY FlightNow
<1>2. /\ InFlight' = SumOn(waiting', Times) + Cardinality(Entitled')
      /\ SumOn(waiting', Times) \in Nat /\ Cardinality(Entitled') \in Nat
  BY FlightThen DEF Times
<1> QED
  BY <1>1, <1>2

\* Steps that count nothing, and make no message come.
LEMMA PromptQuiet ==
    ASSUME FlightTyped, FlightTyped', RowsTyped, RowsTyped', PromptRows, PromptEvents, Overshoot,
           UNCHANGED <<now, waiting, burst>>, Entitled' = Entitled,
           \A row \in usage' : row \in usage \/ (row.used = 0 /\ row.start <= now)
    PROVE  PromptRows' /\ PromptEvents' /\ Overshoot'
<1>1. PromptRows' /\ PromptEvents'
  BY DEF PromptRows, PromptEvents
<1>2. \A start : WaitingIn(start)' = WaitingIn(start) /\ EntitledIn(start)' = EntitledIn(start)
  BY DEF WaitingIn, EntitledIn
<1>3. \A start : UsedIn(start)' \subseteq UsedIn(start)
  BY DEF UsedIn
<1>4. InFlight' = InFlight
  BY FlightIs
<1> QED
  BY <1>1, <1>2, <1>3, <1>4 DEF Overshoot, Coming

LEMMA WaitingChanges ==
    ASSUME NEW S, IsFiniteSet(S), NEW t,
           \A i \in S : /\ waiting[i] \in Nat /\ waiting'[i] \in Nat
                        /\ i # t => waiting'[i] = waiting[i]
    PROVE  /\ t \in S => SumOn(waiting', S) = SumOn(waiting, S) - waiting[t] + waiting'[t]
           /\ t \notin S => SumOn(waiting', S) = SumOn(waiting, S)
  BY SumChanges

\* What is waiting in a cycle changes with a message of that cycle.
LEMMA WaitingMoves ==
    ASSUME FlightTyped, FlightTyped', NEW t \in Times, NEW d \in {-1, 1},
           waiting' = [waiting EXCEPT ![t] = @ + d], NEW start
    PROVE  WaitingIn(start)' = WaitingIn(start)
                                 + (IF start = StartOfCycle(t, Created) THEN d ELSE 0)
<1>1. IsFiniteSet(TimesOf(start)) /\ TimesOf(start) \subseteq Times
      /\ WaitingIn(start) \in Nat
  BY ComingTyped
<1>2. \A i \in TimesOf(start) :
          waiting[i] \in Nat /\ waiting'[i] \in Nat /\ (i # t => waiting'[i] = waiting[i])
  BY <1>1 DEF FlightTyped
<1>3. WaitingIn(start)' = SumOn(waiting', TimesOf(start))
  BY DEF WaitingIn, TimesOf
<1>4. /\ t \in TimesOf(start) =>
             SumOn(waiting', TimesOf(start))
                 = SumOn(waiting, TimesOf(start)) - waiting[t] + waiting'[t]
      /\ t \notin TimesOf(start) =>
             SumOn(waiting', TimesOf(start)) = SumOn(waiting, TimesOf(start))
  BY <1>1, <1>2, WaitingChanges
<1>5. waiting[t] \in Nat /\ waiting'[t] = waiting[t] + d
  BY DEF FlightTyped
<1>6. t \in TimesOf(start) <=> start = StartOfCycle(t, Created)
  BY DEF TimesOf
<1> QED
  BY <1>1, <1>3, <1>4, <1>5, <1>6 DEF WaitingIn

LEMMA AllWaitingMoves ==
    ASSUME FlightTyped, FlightTyped', NEW t \in Times, NEW d \in {-1, 1},
           waiting' = [waiting EXCEPT ![t] = @ + d]
    PROVE  SumOn(waiting', Times) = SumOn(waiting, Times) + d
<1>1. IsFiniteSet(Times) /\ SumOn(waiting, Times) \in Nat
  BY InFlightIs DEF FlightTyped
<1>2. \A i \in Times :
          waiting[i] \in Nat /\ waiting'[i] \in Nat /\ (i # t => waiting'[i] = waiting[i])
  BY DEF FlightTyped
<1>3. SumOn(waiting', Times) = SumOn(waiting, Times) - waiting[t] + waiting'[t]
  BY <1>1, <1>2, WaitingChanges
<1>4. waiting[t] \in Nat /\ waiting'[t] = waiting[t] + d
  BY DEF FlightTyped
<1> QED
  BY <1>1, <1>3, <1>4

LEMMA EntitledTyped ==
    /\ IsFiniteSet(Entitled) /\ Cardinality(Entitled) \in Nat
    /\ IsFiniteSet(Entitled') /\ Cardinality(Entitled') \in Nat
<1>1. Entitled \in SUBSET Workers /\ Entitled' \in SUBSET Workers
  BY DEF Entitled
<1> QED
  BY <1>1, FS_Subset, FS_CardinalityType, BillingAssumption

\* The request that finds the limit not reached is one more that is entitled, and
\* what was in flight is remembered.
LEMMA CheckUsagePrompt ==
    ASSUME AccountInv, AccountInv', Prompt, PromptRows, PromptEvents, Overshoot,
           NEW w \in Workers, CheckUsage(w), Prompt'
    PROVE  PromptRows' /\ PromptEvents' /\ Overshoot'
<1>1. AccountTyped /\ FlightTyped /\ FlightTyped' /\ RowsTyped /\ RowsTyped' /\ now \in Int
  BY DEF AccountInv, AccountTyped, Times
<1>2. SteadyAccount /\ SteadyRows
  BY PromptBefore DEF AccountInv, SteadyInv
<1>3. Raced(w) = {}
  BY OddAction DEF CheckUsage, Raced, Prompt
<1>4. UNCHANGED <<now, waiting>> /\ burst' = Max({burst, InFlight})
  BY DEF CheckUsage
<1>5. PICK u \in tasks[w].user, current \in Currents(w) :
          /\ GetCurrent(w, current)
          /\ \/ current.used + 1 <= Limit(u.plan)
             \/ Become(w, Idle)
  BY DEF CheckUsage
<1>6. Limit(u.plan) = FreeLimit /\ FreeLimit \in Nat
  BY <1>2, BillingAssumption DEF SteadyAccount, NewUser, Limit
<1> DEFINE here == StartOfCycle(now, Created)
<1>7. /\ SteadyRows'
      /\ current \in usage' /\ usage \subseteq usage' /\ current.start = here
      /\ \A row \in usage' : row \in usage \/ row.used = 0
      /\ current.used \in Nat
  <2>1. /\ SteadyRows'
        /\ current \in usage' /\ usage \subseteq usage' /\ current.start = here
        /\ \A row \in usage' : row \in usage \/ row.used = 0
    BY <1>3, <1>5, ReadingNow, PromptBefore DEF Prompt
  <2> QED
    BY <1>1, <2>1 DEF RowsTyped, Rows
<1>8. InFlight \in Nat /\ burst' \in Nat /\ burst' >= burst /\ burst' >= InFlight
      /\ burst \in Nat
  BY <1>1, <1>4, InFlightIs, MoreOfTwo DEF FlightTyped
<1>9. PromptRows' /\ PromptEvents'
  <2>1. here <= now
    BY <1>1, CycleHolds
  <2>2. \A row \in usage' : row \in usage \/ row = current
    BY <1>5 DEF GetCurrent, Insert
  <2> QED
    BY <1>4, <1>7, <2>1, <2>2 DEF PromptRows, PromptEvents
<1>10. PICK e \in Nat, more \in {0, 1} :
           /\ e = Cardinality(Entitled)
           /\ Cardinality(Entitled)' = e + more
           /\ more = 1 => current.used + 1 <= FreeLimit
  <2>1. /\ Entitled' \ {w} = Entitled \ {w} /\ w \notin Entitled
        /\ w \in Entitled' <=> tasks'[w].step \in {"entitled", "register"}
    BY <1>1, EntitledMoves DEF Handler
  <2>2. CASE w \in Entitled'
    <3>1. Entitled' = Entitled \cup {w}
      BY <2>1, <2>2
    <3>2. Cardinality(Entitled') = Cardinality(Entitled) + 1
      BY <2>1, <3>1, EntitledTyped, FS_AddElement
    <3>3. ~Become(w, Idle)
      BY <1>1, <2>1, <2>2, BecomesIdle
    <3> QED
      BY <1>5, <1>6, <3>2, <3>3, EntitledTyped
  <2>3. CASE w \notin Entitled'
    <3>1. Entitled' = Entitled
      BY <2>1, <2>3
    <3> QED
      BY <3>1, EntitledTyped
  <2> QED
    BY <2>2, <2>3
<1>11. ASSUME NEW start PROVE WaitingIn(start)' = WaitingIn(start)
  BY <1>4 DEF WaitingIn
<1>12. ASSUME NEW start \in Int, NEW n \in UsedIn(start)'
       PROVE  n + Coming(start)' <= FreeLimit + burst'
  <2>1. WaitingIn(start) \in Nat /\ WaitingIn(start) + EntitledIn(start) <= InFlight
    BY <1>1, ComingTyped
  <2>2. n \in Nat
    BY <1>1, UsedTypedIn, <1>12 DEF UsedIn, RowsTyped, Rows
  <2>3. n \in UsedIn(start)
    BY <1>7, <1>12 DEF UsedIn
  <2>4. n + Coming(start) <= FreeLimit + burst
    BY <2>3 DEF Overshoot
  <2>5. CASE start # here \/ more = 0
    <3>1. EntitledIn(start)' = EntitledIn(start)
      BY <1>4, <1>10, <2>5 DEF EntitledIn
    <3>2. Coming(start)' = Coming(start) /\ Coming(start) \in Nat
      BY <1>1, <1>11, <3>1, ComingTyped DEF Coming
    <3> QED
      BY <1>6, <1>8, <2>2, <2>4, <3>2
  <2>6. CASE start = here /\ more = 1
    <3>1. EntitledIn(start) = e /\ EntitledIn(start)' = e + 1
      BY <1>4, <1>10, <2>6 DEF EntitledIn
    <3>2. n = 0 \/ n = current.used
      BY <1>7, <1>12, <2>6 DEF UsedIn, SteadyRows
    <3>3. n + 1 <= FreeLimit
      BY <1>6, <1>7, <1>10, <2>6, <3>2
    <3>4. Coming(start)' = WaitingIn(start) + e + 1
      BY <1>10, <1>11, <2>1, <3>1 DEF Coming
    <3>5. WaitingIn(start) + e <= burst'
      BY <1>8, <1>10, <2>1, <3>1
    <3> QED
      BY <1>6, <1>8, <1>10, <2>1, <2>2, <3>3, <3>4, <3>5
  <2> QED
    BY <1>10, <2>5, <2>6
<1>13. InFlight' <= burst' + 1
  <2>1. InFlight' = InFlight + more
    BY <1>1, <1>4, <1>10, FlightIs
  <2>2. more \in Nat /\ more <= 1
    BY <1>10
  <2>3. \A n, m, b \in Nat : n <= b /\ m <= 1 => n + m <= b + 1
    OBVIOUS
  <2> QED
    BY <1>8, <2>1, <2>2, <2>3
<1> QED
  BY <1>9, <1>12, <1>13 DEF Overshoot

\* A request that is accepted is not entitled any more, and its event is coming.
LEMMA AcceptPrompt ==
    ASSUME AccountInv, AccountInv', Prompt, PromptRows, PromptEvents, Overshoot,
           NEW w \in Workers, Accept(w), Prompt'
    PROVE  PromptRows' /\ PromptEvents' /\ Overshoot'
<1>1. AccountTyped /\ FlightTyped /\ FlightTyped' /\ RowsTyped /\ now \in Int
      /\ MaxTime \in Nat
  BY BillingAssumption DEF AccountInv, AccountTyped, Times
<1>2. SteadyAccount
  BY PromptBefore DEF AccountInv, SteadyInv
<1>3. PICK t \in 0..now : waiting' = [waiting EXCEPT ![t] = @ + 1] /\ Note(Late(t))
  BY DEF Accept
<1>4. UNCHANGED <<now, usage, burst>>
  BY DEF Accept, historyVars
<1>5. t \in Times /\ t <= now
  BY <1>1 DEF AccountTyped, Times
<1>6. StartOfCycle(t, Created) = StartOfCycle(now, Created)
  <2>1. ~Apart(t, now)
    BY <1>3, OddAction DEF Late, Prompt
  <2> QED
    BY <1>2, <2>1, NewUserAnchor DEF Apart, SteadyAccount
<1>7. PICK e \in Nat : e = Cardinality(Entitled) /\ Cardinality(Entitled)' = e - 1
  <2>1. Entitled' \ {w} = Entitled \ {w} /\ w \in Entitled /\ w \notin Entitled'
    BY <1>1, EntitledMoves DEF Handler
  <2>2. Entitled' = Entitled \ {w}
    BY <2>1
  <2> QED
    BY <2>1, <2>2, EntitledTyped, FS_RemoveElement
<1>8. PromptRows' /\ PromptEvents'
  BY <1>1, <1>3, <1>4, <1>5 DEF PromptRows, PromptEvents, FlightTyped
<1>9. ASSUME NEW start PROVE Coming(start)' = Coming(start)
  <2>1. WaitingIn(start)' = WaitingIn(start)
                              + (IF start = StartOfCycle(t, Created) THEN 1 ELSE 0)
    BY <1>1, <1>3, <1>5, WaitingMoves
  <2>2. WaitingIn(start) \in Nat
    BY <1>1, ComingTyped
  <2> QED
    BY <1>4, <1>6, <1>7, <2>1, <2>2 DEF Coming, EntitledIn
<1>10. \A start : UsedIn(start)' = UsedIn(start)
  BY <1>4 DEF UsedIn
<1>11. InFlight' <= burst' + 1
  <2>1. SumOn(waiting', Times) = SumOn(waiting, Times) + 1
    BY <1>1, <1>3, <1>5, AllWaitingMoves
  <2>2. InFlight' = InFlight
    BY <1>1, <1>7, <2>1, FlightIs
  <2> QED
    BY <1>4, <2>2 DEF Overshoot
<1> QED
  BY <1>4, <1>8, <1>9, <1>10, <1>11 DEF Overshoot

\* What counts in the cycle of now is not coming any more.
LEMMA CountsPrompt ==
    ASSUME FlightTyped, FlightTyped', RowsTyped, now \in Int, PromptRows, Overshoot,
           UNCHANGED <<now, burst>>, CountsIn(StartOfCycle(now, Created)),
           \A start : Coming(start)' = Coming(start)
                          - (IF start = StartOfCycle(now, Created) THEN 1 ELSE 0),
           InFlight' <= InFlight
    PROVE  PromptRows' /\ Overshoot'
<1> DEFINE here == StartOfCycle(now, Created)
<1>1. FreeLimit \in Nat /\ burst \in Nat /\ InFlight \in Nat /\ InFlight' \in Nat
  BY FlightIs, BillingAssumption DEF FlightTyped
<1>2. PromptRows'
  <2>1. here <= now
    BY CycleHolds
  <2> QED
    BY <2>1 DEF PromptRows, CountsIn
<1>3. ASSUME NEW start \in Int, NEW n \in UsedIn(start)'
      PROVE  n + Coming(start)' <= FreeLimit + burst'
  <2>1. 0 + Coming(start) <= FreeLimit + burst /\ Coming(start) \in Nat
    BY UsedTypedIn, ComingTyped DEF Overshoot
  <2>2. CASE n = 0
    BY <1>1, <2>1, <2>2
  <2>3. CASE \E row \in usage' : row.start = start /\ row.used = n
    <3>1. PICK row \in usage' : row.start = start /\ row.used = n
      BY <2>3
    <3>2. CASE row \in usage /\ start # here
      <4>1. n \in UsedIn(start)
        BY <3>1, <3>2 DEF UsedIn
      <4> QED
        BY <2>1, <3>2, <4>1 DEF Overshoot
    <3>3. CASE start = here /\ \E m \in UsedIn(start) : m \in Nat /\ n = m + 1
      <4>1. PICK m \in UsedIn(start) : m \in Nat /\ n = m + 1
        BY <3>3
      <4>2. m + Coming(start) <= FreeLimit + burst
        BY DEF Overshoot
      <4>3. Coming(start)' = Coming(start) - 1
        BY <3>3
      <4> QED
        BY <1>1, <2>1, <4>1, <4>2, <4>3
    <3> QED
      BY <3>1, <3>2, <3>3 DEF CountsIn
  <2> QED
    BY <1>3, <2>2, <2>3 DEF UsedIn
<1>4. InFlight' <= burst' + 1
  BY <1>1 DEF Overshoot
<1> QED
  BY <1>2, <1>3, <1>4 DEF Overshoot

\* A message whose registration begins is not waiting any more: it is counted,
\* or a row is made for it.
LEMMA RegisterPrompt ==
    ASSUME AccountInv, AccountInv', Prompt, PromptRows, PromptEvents, Overshoot,
           NEW w \in Workers, RegisterMessage(w), Prompt'
    PROVE  PromptRows' /\ PromptEvents' /\ Overshoot'
<1>1. AccountTyped /\ FlightTyped /\ FlightTyped' /\ RowsTyped /\ RowsTyped' /\ now \in Int
  BY DEF AccountInv, AccountTyped, Times
<1>2. SteadyAccount /\ SteadyRows
  BY PromptBefore DEF AccountInv, SteadyInv
<1>3. PICK t \in Times : /\ waiting[t] > 0
                         /\ waiting' = [waiting EXCEPT ![t] = @ - 1]
                         /\ Note(Strange(t))
                         /\ Register(w, t)
  BY OddAction DEF RegisterMessage, Prompt
<1>4. UNCHANGED <<now, burst>>
  BY DEF RegisterMessage, historyVars
<1>5. t \in Int /\ t <= now
  BY <1>3 DEF Times, PromptEvents
<1>6. ~InGap(t) /\ ~Apart(t, now)
  BY <1>3, OddAction DEF Strange, Gap, Late, Prompt
<1>7. user # {} /\ StartOfCycle(t, Created) = StartOfCycle(now, Created)
  BY <1>2, <1>6, NotApart
<1> DEFINE here == StartOfCycle(now, Created)
<1>8. PromptEvents'
  BY <1>1, <1>3, <1>4, <1>5 DEF PromptEvents, FlightTyped
<1>9. waiting' = [waiting EXCEPT ![t] = @ + (-1)]
  BY <1>1, <1>3 DEF FlightTyped
<1>10. ASSUME NEW start
       PROVE  /\ WaitingIn(start)' = WaitingIn(start) - (IF start = here THEN 1 ELSE 0)
              /\ WaitingIn(start) \in Nat /\ EntitledIn(start) \in Nat /\ Coming(start) \in Nat
  <2>1. WaitingIn(start)' = WaitingIn(start) + (IF start = here THEN -1 ELSE 0)
    BY <1>1, <1>7, <1>9, WaitingMoves
  <2>2. WaitingIn(start) \in Nat /\ EntitledIn(start) \in Nat /\ Coming(start) \in Nat
    BY <1>1, ComingTyped
  <2> QED
    BY <2>1, <2>2
<1>11. SumOn(waiting', Times) = SumOn(waiting, Times) - 1
  <2>1. SumOn(waiting', Times) = SumOn(waiting, Times) + (-1)
    BY <1>1, <1>9, AllWaitingMoves
  <2> QED
    BY <1>1, <2>1, FlightIs
<1>12. /\ Entitled' \ {w} = Entitled \ {w} /\ w \notin Entitled
       /\ w \in Entitled' <=> tasks'[w].step \in {"entitled", "register"}
  BY <1>1, EntitledMoves DEF Handler
<1>13. CASE usage' = Counted(t) /\ Become(w, Task("alert", {}, "none", {}))
  <2>1. Entitled' = Entitled
    <3>1. "alert" \in Steps \ {"save"} /\ {} \in SUBSET Users
      BY DEF Steps
    <3>2. tasks'[w].step = "alert"
      BY <1>1, <1>13, <3>1, BecomesTask
    <3> QED
      BY <1>12, <3>2
  <2>2. CountsIn(here)
    BY <1>2, <1>5, <1>6, <1>7, <1>13, Registering
  <2>3. \A start : Coming(start)' = Coming(start) - (IF start = here THEN 1 ELSE 0)
    BY <1>4, <1>10, <2>1 DEF Coming, EntitledIn
  <2>4. InFlight' <= InFlight
    BY <1>1, <1>11, <2>1, FlightIs
  <2> QED
    BY <1>1, <1>4, <1>8, <2>2, <2>3, <2>4, CountsPrompt
<1>14. CASE UNCHANGED usage /\ Become(w, Task("register", {}, "none", {}))
  <2>1. Entitled' = Entitled \cup {w}
    BY <1>1, <1>12, <1>14, BecomesTask DEF Steps
  <2>2. Cardinality(Entitled') = Cardinality(Entitled) + 1 /\ Cardinality(Entitled) \in Nat
    BY <1>12, <2>1, EntitledTyped, FS_AddElement
  <2>3. ASSUME NEW start PROVE Coming(start)' = Coming(start)
    <3>1. EntitledIn(start)' = EntitledIn(start) + (IF start = here THEN 1 ELSE 0)
      BY <1>4, <2>2 DEF EntitledIn
    <3> QED
      BY <1>10, <3>1 DEF Coming
  <2>4. InFlight' = InFlight
    BY <1>1, <1>11, <2>2, FlightIs
  <2>5. PromptRows' /\ \A start : UsedIn(start)' = UsedIn(start)
    BY <1>4, <1>14 DEF PromptRows, UsedIn
  <2> QED
    BY <1>4, <1>8, <2>3, <2>4, <2>5 DEF Overshoot
<1> QED
  BY <1>3, <1>13, <1>14 DEF Register

\* The row that is made counts the message.
LEMMA RegisterRowPrompt ==
    ASSUME AccountInv, AccountInv', Prompt, PromptRows, PromptEvents, Overshoot,
           NEW w \in Workers, RegisterRow(w), Prompt'
    PROVE  PromptRows' /\ PromptEvents' /\ Overshoot'
<1>1. AccountTyped /\ FlightTyped /\ FlightTyped' /\ RowsTyped /\ now \in Int
  BY DEF AccountInv, AccountTyped, Times
<1>2. SteadyRows /\ SteadyMaking /\ TimelyMaking /\ making \in [Workers -> Makings]
  BY PromptBefore DEF AccountInv, SteadyInv, TimelyInv, Prompt
<1>3. Raced(w) = {} /\ Inserts(w, 1)
  BY OddAction DEF RegisterRow, Inserts, Raced, Prompt
<1>4. UNCHANGED <<now, burst, waiting>>
  BY DEF RegisterRow, historyVars
<1> DEFINE here == StartOfCycle(now, Created)
<1>5. CountsIn(here)
  <2>1. /\ CountsIn(StartOfCycle(making[w].at, Created))
        /\ making[w].step = "insert"
    BY <1>2, <1>3, RegisteringRow
  <2> QED
    BY <1>2, <2>1 DEF TimelyMaking
<1>6. PICK e \in Nat : e = Cardinality(Entitled) /\ Cardinality(Entitled)' = e - 1
  <2>1. Entitled' \ {w} = Entitled \ {w} /\ w \in Entitled /\ w \notin Entitled'
    BY <1>1, EntitledMoves DEF Handler
  <2>2. Entitled' = Entitled \ {w}
    BY <2>1
  <2> QED
    BY <2>1, <2>2, EntitledTyped, FS_RemoveElement
<1>7. ASSUME NEW start
      PROVE  Coming(start)' = Coming(start) - (IF start = here THEN 1 ELSE 0)
  <2>1. WaitingIn(start)' = WaitingIn(start) /\ WaitingIn(start) \in Nat
    BY <1>1, <1>4, ComingTyped DEF WaitingIn
  <2>2. EntitledIn(start) \in Nat
        /\ EntitledIn(start)' = EntitledIn(start) - (IF start = here THEN 1 ELSE 0)
    BY <1>4, <1>6 DEF EntitledIn
  <2> QED
    BY <2>1, <2>2 DEF Coming
<1>8. InFlight' <= InFlight
  BY <1>1, <1>4, <1>6, FlightIs
<1>9. PromptEvents'
  BY <1>4 DEF PromptEvents
<1> QED
  BY <1>1, <1>4, <1>5, <1>7, <1>8, <1>9, CountsPrompt

LEMMA TickPrompt ==
    ASSUME AccountInv, AccountInv', PromptRows, PromptEvents, Overshoot, Tick
    PROVE  PromptRows' /\ PromptEvents' /\ Overshoot'
<1>1. FlightTyped' /\ FlightTyped /\ RowsTyped /\ now \in Int /\ burst \in Nat
  BY DEF AccountInv, AccountTyped, FlightTyped, Times
<1>2. now' = now + 1 /\ UNCHANGED <<usage, waiting, tasks, burst>>
  BY DEF Tick, usageVars, historyVars
<1>3. PromptRows' /\ PromptEvents'
  <2>1. PromptRows'
    BY <1>1, <1>2 DEF PromptRows, RowsTyped, Rows
  <2>2. PromptEvents'
    BY <1>1, <1>2 DEF PromptEvents, Times
  <2> QED
    BY <2>1, <2>2
<1> DEFINE here == StartOfCycle(now, Created)
           next == StartOfCycle(now + 1, Created)
<1>4. next = here \/ next = now + 1
  <2>1. /\ here \in Int /\ (here - Created) % Month = 0 /\ here <= now /\ now < here + Month
        /\ next \in Int /\ (next - Created) % Month = 0 /\ next <= now + 1
        /\ now + 1 < next + Month
    BY <1>1, CycleHolds
  <2>2. Month \in Nat
    BY BillingAssumption
  <2>3. CASE next <= now
    <3>1. now < next + Month
      BY <1>1, <2>1, <2>2
    <3> HIDE DEF here, next
    <3> QED
      BY <1>1, <2>1, <2>3, <3>1, CyclesAreApart
  <2> HIDE DEF here, next
  <2> QED
    BY <1>1, <2>1, <2>3
<1>5. Entitled' = Entitled
  BY <1>2 DEF Entitled
<1>6. ASSUME NEW start PROVE /\ WaitingIn(start)' = WaitingIn(start)
                             /\ UsedIn(start)' = UsedIn(start)
  BY <1>2 DEF WaitingIn, UsedIn
<1>7. FreeLimit \in Nat /\ FreeLimit > 0
  BY BillingAssumption
<1>8. ASSUME NEW start \in Int, NEW n \in UsedIn(start)
      PROVE  n + Coming(start)' <= FreeLimit + burst
  <2>1. /\ n + Coming(start) <= FreeLimit + burst
        /\ WaitingIn(start) \in Nat /\ EntitledIn(start) \in Nat
        /\ Cardinality(Entitled) \in Nat /\ n \in Nat
    BY <1>1, ComingTyped, UsedTypedIn, EntitledTyped DEF Overshoot
  <2>2. Coming(start) = WaitingIn(start) + EntitledIn(start)
    BY DEF Coming
  <2>3. Coming(start)' = WaitingIn(start)
                           + (IF start = next THEN Cardinality(Entitled) ELSE 0)
    BY <1>2, <1>5, <1>6 DEF Coming, EntitledIn
  <2>4. CASE start # next
    BY <1>1, <1>7, <2>1, <2>2, <2>3, <2>4
  <2>5. CASE start = next /\ next = here
    <3>1. EntitledIn(start) = Cardinality(Entitled)
      BY <2>5 DEF EntitledIn
    <3> QED
      BY <2>1, <2>2, <2>3, <2>5, <3>1
  <2>6. CASE start = next /\ next = now + 1
    <3>1. n = 0
      <4>1. \A row \in usage : row.start # now + 1
        BY <1>1 DEF PromptRows, RowsTyped, Rows
      <4> QED
        BY <1>8, <2>6, <4>1 DEF UsedIn
    <3>2. WaitingIn(start) = 0
      <4>1. ASSUME NEW t \in TimesOf(start) PROVE waiting[t] = 0
        <5>1. t \in Times /\ t \in Int /\ StartOfCycle(t, Created) = now + 1
          BY <2>6 DEF TimesOf, Times
        <5>2. now + 1 <= t
          BY <5>1, CycleHolds
        <5>3. ~(waiting[t] > 0) /\ waiting[t] \in Nat
          BY <1>1, <5>1, <5>2 DEF PromptEvents, FlightTyped
        <5> QED
          BY <5>3
      <4> QED
        BY <1>1, <4>1, ComingTyped, SumOfZeros DEF WaitingIn
    <3>3. Cardinality(Entitled) <= burst + 1
      BY <1>1, FlightIs DEF Overshoot
    <3>4. Coming(start)' = Cardinality(Entitled)
      BY <2>1, <2>3, <2>6, <3>2
    <3> QED
      BY <1>1, <1>7, <2>1, <3>1, <3>3, <3>4
  <2> QED
    BY <1>4, <2>4, <2>5, <2>6
<1>9. InFlight' = InFlight
  BY <1>1, <1>2, <1>5, FlightIs
<1> QED
  BY <1>2, <1>3, <1>5, <1>6, <1>8, <1>9 DEF Overshoot

LEMMA OtherHandlersPrompt ==
    ASSUME AccountInv, AccountInv', Prompt, PromptRows, PromptEvents, Overshoot,
           NEW w \in Workers, Handler(w), Prompt',
           ~CheckUsage(w), ~Accept(w), ~RegisterMessage(w), ~RegisterRow(w)
    PROVE  PromptRows' /\ PromptEvents' /\ Overshoot'
<1>1. /\ AccountTyped /\ FlightTyped /\ FlightTyped' /\ RowsTyped /\ RowsTyped'
      /\ UNCHANGED now /\ now \in Int
  BY AccountSteps DEF AccountInv, AccountTyped, Times
<1>3. ~RegisterFails(w)
  BY OddAction DEF RegisterFails, Prompt
<1>4. UNCHANGED <<waiting, burst>>
  <2> USE DEF usageVars, historyVars
  <2>1. CASE IsEntitled(w) \/ CheckUsageFails(w) \/ AlertUser(w) \/ AlertUsage(w)
    BY <2>1 DEF IsEntitled, CheckUsageFails, AlertUser, AlertUsage
  <2>2. CASE HandleSubscription(w) \/ Settings(w) \/ SaveUser(w) \/ Delete(w)
    BY <2>2 DEF HandleSubscription, Settings, SaveUser, Delete
  <2>3. CASE DeleteUser(w) \/ AnnounceDeleted(w) \/ DeleteAllForUser(w) \/ DeleteAllFails(w)
    BY <2>3 DEF DeleteUser, AnnounceDeleted, DeleteAllForUser, DeleteAllFails
  <2>4. CASE MissUsage(w) \/ ReadUser(w)
    BY <2>4 DEF MissUsage, ReadUser
  <2> QED
    BY <1>3, <2>1, <2>2, <2>3, <2>4 DEF Handler
<1>5. Entitled' = Entitled
  BY <1>1, EntitledMoves
<1>6. \A row \in usage' : row \in usage \/ (row.used = 0 /\ row.start <= now)
  <2>1. CASE UNCHANGED usage \/ usage' = {}
    BY <2>1
  <2>2. CASE AlertUsage(w)
    <3>1. CASE \E current : GetCurrent(w, current) /\ Note(Raced(w))
      <4>1. PICK current : GetCurrent(w, current) /\ Note(Raced(w))
        BY <3>1
      <4>2. Raced(w) = {}
        BY <4>1, OddAction DEF Raced, Prompt
      <4>3. /\ current.start = StartOfCycle(now, Created)
            /\ \A row \in usage' : row \in usage \/ (row = current /\ row.used = 0)
        BY <4>1, <4>2, ReadingNow, PromptBefore DEF Prompt
      <4>4. StartOfCycle(now, Created) <= now
        BY <1>1, CycleHolds
      <4> QED
        BY <4>3, <4>4
    <3> QED
      BY <2>1, <2>2, <3>1 DEF AlertUsage
  <2> QED
    BY <1>1, <2>1, <2>2, AccountSteps DEF DeleteAllForUser
<1> QED
  BY <1>1, <1>4, <1>5, <1>6, PromptQuiet

LEMMA PromptNext ==
    AccountInv /\ AccountInv' /\ PromptInv /\ [Next]_vars => PromptInv'
<1> SUFFICES ASSUME AccountInv, AccountInv', PromptInv, [Next]_vars, Prompt'
             PROVE  PromptRows' /\ PromptEvents' /\ Overshoot'
  BY DEF PromptInv
<1>1. Prompt /\ PromptRows /\ PromptEvents /\ Overshoot
  BY PromptBefore DEF PromptInv
<1>2. FlightTyped /\ FlightTyped' /\ RowsTyped /\ RowsTyped'
  BY DEF AccountInv
<1>3. CASE UNCHANGED vars
  BY <1>1, <1>2, <1>3, PromptQuiet DEF vars, usageVars, historyVars, Entitled
<1>4. CASE Tick
  BY <1>1, <1>4, TickPrompt
<1>5. CASE Visit
  BY <1>5, OddAction DEF Visit, Prompt
<1>6. ASSUME NEW kind \in Subscriptions, Webhook(kind)
      PROVE  PromptRows' /\ PromptEvents' /\ Overshoot'
  <2>1. UNCHANGED <<now, usage, waiting, burst, tasks>>
    BY <1>6 DEF Webhook, usageVars, historyVars
  <2> QED
    BY <1>1, <1>2, <2>1, PromptQuiet DEF Entitled
<1>7. ASSUME NEW w \in Workers, Handler(w)
      PROVE  PromptRows' /\ PromptEvents' /\ Overshoot'
  BY <1>1, <1>7, CheckUsagePrompt, AcceptPrompt, RegisterPrompt, RegisterRowPrompt,
     OtherHandlersPrompt
<1> QED
  BY <1>3, <1>4, <1>5, <1>6, <1>7 DEF Next, Handler

\* A free user gets beyond the limit by no more messages than have been in
\* flight at a check, for any limit, any number of requests and handlers and any
\* messages that wait, as long as what the limit is checked on is of the cycle
\* that the message is counted in, and no two rows are made for it
\* (IsEntitledWithCount, RegisterSentMessage, GetCurrent).
THEOREM LimitIsMissedByInFlight == Spec => []OvershootIsInFlight
<1>1. Init => AccountInv /\ PromptInv
  BY AccountInit, PromptInit
<1>2. AccountInv /\ PromptInv /\ [Next]_vars => (AccountInv /\ PromptInv)'
  BY AccountNext, PromptNext
<1>3. AccountInv /\ PromptInv => OvershootIsInFlight
  <2> SUFFICES ASSUME AccountInv, PromptInv, Prompt, NEW row \in usage
               PROVE  row.used + FoldFunctionOnSet(+, 0, waiting, { t \in Times : Covers(row, t) })
                          <= FreeLimit + burst
    BY DEF OvershootIsInFlight, Prompt
  <2> DEFINE covered == { t \in Times : Covers(row, t) }
  <2>1. FlightTyped /\ RowsTyped /\ SteadyRows /\ Overshoot
    BY PromptBefore DEF AccountInv, PromptInv, SteadyInv
  <2>2. row.used \in Nat /\ row.start \in Int /\ row.used \in UsedIn(row.start)
    BY <2>1 DEF RowsTyped, Rows, UsedIn
  <2>3. /\ IsFiniteSet(TimesOf(row.start)) /\ TimesOf(row.start) \subseteq Times
        /\ WaitingIn(row.start) \in Nat /\ EntitledIn(row.start) \in Nat
    BY <2>1, ComingTyped
  <2>4. covered \in SUBSET TimesOf(row.start)
    BY <2>1, CoveringRow DEF Covering, TimesOf, Times
  <2>5. SumOn(waiting, covered) <= WaitingIn(row.start) /\ SumOn(waiting, covered) \in Nat
    <3>1. \A t \in TimesOf(row.start) : waiting[t] \in Nat
      BY <2>1, <2>3 DEF FlightTyped
    <3>2. IsFiniteSet(covered)
      BY <2>3, <2>4, FS_Subset
    <3> HIDE DEF covered
    <3> QED
      BY <2>3, <2>4, <3>1, <3>2, SumIsNat, SumOfLess DEF WaitingIn
  <2>6. row.used + Coming(row.start) <= FreeLimit + burst
    BY <2>1, <2>2 DEF Overshoot
  <2>7. FoldFunctionOnSet(+, 0, waiting, covered) = SumOn(waiting, covered)
    BY DEF SumOn
  <2>8. FreeLimit \in Nat /\ burst \in Nat
    BY <2>1, BillingAssumption DEF FlightTyped
  <2>9. row.used + SumOn(waiting, covered) <= FreeLimit + burst
    <3> HIDE DEF covered
    <3> QED
      BY <2>2, <2>3, <2>5, <2>6, <2>8 DEF Coming
  <2> QED
    BY <2>7, <2>9
<1> QED
  BY <1>1, <1>2, <1>3, PTL DEF Spec

==============================================================================
