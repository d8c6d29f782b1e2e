----------------------- MODULE HeartbeatMonitorProofs -----------------------
(****************************************************************************)
(* The chain of heartbeat checks, for any handlers, monitors, intervals and *)
(* faults.                                                                  *)
(*                                                                          *)
(* A check that is due in d was scheduled CheckInterval - d ago, when the   *)
(* phone had been silent for as much less.  What a check finds when it is   *)
(* handled is thus known while it still waits: the invariants say of every  *)
(* check on its way what the handling of the one before has done.           *)
(****************************************************************************)
EXTENDS HeartbeatMonitor, FiniteSetTheorems, WellFoundedInduction, TLAPS

----------------------------------------------------------------------------
(* Sums.  FoldFunctionOnSet and MapThenSumSet are recursive functions on the *)
(* subsets of a set.  That such a function exists, and what it adds up to,   *)
(* is shown by induction over the size of a set, which needs no more than    *)
(* a set of numbers without a least element outside of it (NatSets).         *)

LEMMA NatSets ==
    ASSUME NEW N \in SUBSET Nat, 0 \in N, \A n \in N : n + 1 \in N
    PROVE  N = Nat
<1> SUFFICES ASSUME Nat \ N # {} PROVE FALSE
  OBVIOUS
<1>1. PICK n \in Nat \ N : \A k \in Nat \ N : ~(<<k, n>> \in OpToRel(<, Nat))
  BY NatLessThanWellFounded, WFMin
<1>2. \A k \in Nat \ N : ~(k < n)
  BY <1>1 DEF OpToRel
<1>3. n # 0 /\ n - 1 \in Nat /\ n - 1 < n
  OBVIOUS
<1>4. n - 1 \in N
  BY <1>2, <1>3
<1>5. (n - 1) + 1 \in N
  BY <1>4
<1> QED
  BY <1>5

SumOn(f, S) == FoldFunctionOnSet(+, 0, f, S)

\* The element that a fold takes from a set first.
Chosen(s) == CHOOSE x \in s : TRUE

\* What a function on sets has to satisfy on those in D to be the one of sums.
SumOf(g, f, s) == IF s = {} THEN 0 ELSE f[Chosen(s)] + g[s \ {Chosen(s)}]
Adds(g, f, D) == g = [s \in D |-> SumOf(g, f, s)]

LEMMA SumUnfolds ==
    ASSUME NEW f, NEW S
    PROVE  SumOn(f, S) = (CHOOSE g : Adds(g, f, SUBSET S))[S]
  BY DEF SumOn, FoldFunctionOnSet, MapThenFoldSet, Adds, SumOf, Chosen

\* The subsets of S with n elements at most.
UpTo(S, n) == { s \in SUBSET S : Cardinality(s) <= n }

LEMMA SmallerSets ==
    ASSUME NEW S, IsFiniteSet(S), NEW s \in SUBSET S, s # {}
    PROVE  /\ Chosen(s) \in s /\ s \ {Chosen(s)} \in SUBSET S
           /\ IsFiniteSet(s) /\ Cardinality(s) \in Nat
           /\ Cardinality(s \ {Chosen(s)}) = Cardinality(s) - 1
<1>1. Chosen(s) \in s
  BY DEF Chosen
<1>2. IsFiniteSet(s)
  BY FS_Subset
<1> QED
  BY <1>1, <1>2, FS_RemoveElement, FS_CardinalityType

LEMMA SumsExist ==
    ASSUME NEW f, NEW S, IsFiniteSet(S)
    PROVE  \E g : Adds(g, f, SUBSET S)
<1> DEFINE N == { n \in Nat : \E g : Adds(g, f, UpTo(S, n)) }
<1>1. 0 \in N
  <2>1. \A s \in UpTo(S, 0) : s = {}
    BY SmallerSets, FS_EmptySet, FS_Subset, FS_CardinalityType DEF UpTo
  <2>2. Adds([s \in UpTo(S, 0) |-> 0], f, UpTo(S, 0))
    BY <2>1 DEF Adds, SumOf
  <2> QED
    BY <2>2
<1>2. ASSUME NEW n \in N PROVE n + 1 \in N
  <2>1. PICK g : Adds(g, f, UpTo(S, n))
    BY <1>2
  <2> DEFINE h == [s \in UpTo(S, n + 1) |-> SumOf(g, f, s)]
  <2>2. \A s \in UpTo(S, n) : s \in UpTo(S, n + 1) /\ h[s] = g[s]
    <3>1. \A s \in UpTo(S, n) : s \in UpTo(S, n + 1)
      BY FS_Subset, FS_CardinalityType DEF UpTo
    <3>2. \A s \in UpTo(S, n) : g[s] = SumOf(g, f, s)
      BY <2>1 DEF Adds
    <3> QED
      BY <3>1, <3>2
  <2>3. ASSUME NEW s \in UpTo(S, n + 1) PROVE h[s] = SumOf(h, f, s)
    <3>1. CASE s = {}
      BY <3>1 DEF SumOf
    <3>2. CASE s # {}
      <4>1. s \ {Chosen(s)} \in UpTo(S, n)
        BY <3>2, SmallerSets DEF UpTo
      <4>2. h[s \ {Chosen(s)}] = g[s \ {Chosen(s)}]
        BY <2>2, <4>1
      <4> HIDE DEF h
      <4>3. h[s] = SumOf(g, f, s)
        BY DEF h
      <4> QED
        BY <4>2, <4>3 DEF SumOf
    <3> QED
      BY <3>1, <3>2
  <2>4. Adds(h, f, UpTo(S, n + 1))
    <3>1. h = [s \in UpTo(S, n + 1) |-> h[s]]
      OBVIOUS
    <3>2. [s \in UpTo(S, n + 1) |-> h[s]] = [s \in UpTo(S, n + 1) |-> SumOf(h, f, s)]
      <4> HIDE DEF h
      <4> QED
        BY <2>3
    <3> QED
      BY <3>1, <3>2 DEF Adds
  <2> QED
    BY <2>4
<1>3. N = Nat
  <2> HIDE DEF N
  <2>1. N \in SUBSET Nat
    BY DEF N
  <2> QED
    BY <1>1, <1>2, <2>1, NatSets
<1>4. Cardinality(S) \in N
  BY <1>3, FS_CardinalityType
<1>5. UpTo(S, Cardinality(S)) = SUBSET S
  BY FS_Subset DEF UpTo
<1> QED
  BY <1>4, <1>5

LEMMA SumsAgree ==
    ASSUME NEW f, NEW S, IsFiniteSet(S), NEW T \in SUBSET S, NEW g, NEW h,
           Adds(g, f, SUBSET S), Adds(h, f, SUBSET T), NEW t \in SUBSET T
    PROVE  g[t] = h[t]
<1> DEFINE N == { n \in Nat : \A s \in SUBSET T : Cardinality(s) = n => g[s] = h[s] }
<1>0. IsFiniteSet(T)
  BY FS_Subset
<1>1. \A s \in SUBSET T : g[s] = SumOf(g, f, s) /\ h[s] = SumOf(h, f, s)
  BY DEF Adds
<1>2. 0 \in N
  <2>1. ASSUME NEW s \in SUBSET T, Cardinality(s) = 0 PROVE g[s] = h[s]
    <3>1. s = {}
      BY <1>0, <2>1, FS_EmptySet, FS_Subset
    <3> QED
      BY <1>1, <3>1 DEF SumOf
  <2> QED
    BY <2>1
<1>3. ASSUME NEW n \in N PROVE n + 1 \in N
  <2>1. ASSUME NEW s \in SUBSET T, Cardinality(s) = n + 1 PROVE g[s] = h[s]
    <3>1. s # {}
      <4>1. n \in Nat /\ Cardinality(s) # 0
        BY <1>3, <2>1
      <4> QED
        BY <4>1, FS_EmptySet
    <3>2. s \ {Chosen(s)} \in SUBSET T /\ Cardinality(s \ {Chosen(s)}) = n
      BY <1>0, <2>1, <3>1, SmallerSets
    <3>3. g[s \ {Chosen(s)}] = h[s \ {Chosen(s)}]
      BY <1>3, <3>2
    <3> QED
      BY <1>1, <3>1, <3>3 DEF SumOf
  <2> QED
    BY <2>1
<1>4. N = Nat
  <2> HIDE DEF N
  <2>1. N \in SUBSET Nat
    BY DEF N
  <2> QED
    BY <1>2, <1>3, <2>1, NatSets
<1>5. Cardinality(t) \in N
  BY <1>0, <1>4, FS_Subset, FS_CardinalityType
<1> QED
  BY <1>5

\* The sum over a set is what any function that adds up its subsets says.
LEMMA SumIs ==
    ASSUME NEW f, NEW S, IsFiniteSet(S), NEW g, Adds(g, f, SUBSET S),
           NEW T \in SUBSET S
    PROVE  SumOn(f, T) = g[T]
<1> DEFINE h == CHOOSE k : Adds(k, f, SUBSET T)
<1>1. IsFiniteSet(T)
  BY FS_Subset
<1>2. Adds(h, f, SUBSET T)
  BY <1>1, SumsExist
<1>3. g[T] = h[T]
  <2> HIDE DEF h
  <2> QED
    BY <1>2, SumsAgree
<1> QED
  BY <1>3, SumUnfolds

LEMMA SumSteps ==
    ASSUME NEW f, NEW S, IsFiniteSet(S)
    PROVE  /\ S = {} => SumOn(f, S) = 0
           /\ S # {} => SumOn(f, S) = f[Chosen(S)] + SumOn(f, S \ {Chosen(S)})
<1>1. PICK g : Adds(g, f, SUBSET S)
  BY SumsExist
<1>2. SumOn(f, S) = g[S] /\ SumOn(f, S \ {Chosen(S)}) = g[S \ {Chosen(S)}]
  BY <1>1, SumIs
<1>3. g[S] = SumOf(g, f, S)
  BY <1>1 DEF Adds
<1> QED
  BY <1>2, <1>3 DEF SumOf

\* A sum of numbers is a number.
LEMMA SumIsNat ==
    ASSUME NEW f, NEW S, IsFiniteSet(S), \A i \in S : f[i] \in Nat
    PROVE  SumOn(f, S) \in Nat
<1> DEFINE N == { n \in Nat : \A s \in SUBSET S : Cardinality(s) = n => SumOn(f, s) \in Nat }
<1>1. 0 \in N
  <2>1. ASSUME NEW s \in SUBSET S, Cardinality(s) = 0 PROVE SumOn(f, s) \in Nat
    <3>1. s = {} /\ IsFiniteSet(s)
      BY <2>1, FS_EmptySet, FS_Subset
    <3>2. SumOn(f, s) = 0
      BY <3>1, SumSteps
    <3> QED
      BY <3>2
  <2> QED
    BY <2>1
<1>2. ASSUME NEW n \in N PROVE n + 1 \in N
  <2>1. ASSUME NEW s \in SUBSET S, Cardinality(s) = n + 1 PROVE SumOn(f, s) \in Nat
    <3>1. s # {} /\ IsFiniteSet(s)
      BY <2>1, FS_EmptySet, FS_Subset
    <3>2. Chosen(s) \in s /\ s \ {Chosen(s)} \in SUBSET S /\ Cardinality(s \ {Chosen(s)}) = n
      BY <2>1, <3>1, SmallerSets
    <3>3. SumOn(f, s \ {Chosen(s)}) \in Nat
      BY <1>2, <3>2
    <3>4. SumOn(f, s) = f[Chosen(s)] + SumOn(f, s \ {Chosen(s)})
      BY <3>1, SumSteps
    <3>5. f[Chosen(s)] \in Nat
      BY <3>2
    <3> QED
      BY <3>3, <3>4, <3>5
  <2> QED
    BY <2>1
<1>3. N = Nat
  <2> HIDE DEF N
  <2>1. N \in SUBSET Nat
    BY DEF N
  <2> QED
    BY <1>1, <1>2, <2>1, NatSets
<1>4. Cardinality(S) \in N
  BY <1>3, FS_CardinalityType
<1> QED
  BY <1>4

\* Any element may be taken from a sum of numbers.
LEMMA SumTakes ==
    ASSUME NEW f, NEW S, IsFiniteSet(S), \A i \in S : f[i] \in Nat
    PROVE  \A x \in S : SumOn(f, S) = f[x] + SumOn(f, S \ {x})
<1> DEFINE Claim(s) == \A x \in s : SumOn(f, s) = f[x] + SumOn(f, s \ {x})
           N == { n \in Nat : \A s \in SUBSET S : Cardinality(s) = n => Claim(s) }
<1>1. 0 \in N
  <2>1. ASSUME NEW s \in SUBSET S, Cardinality(s) = 0 PROVE Claim(s)
    <3>1. s = {}
      BY <2>1, FS_EmptySet, FS_Subset
    <3> QED
      BY <3>1
  <2> HIDE DEF Claim
  <2> QED
    BY <2>1
<1>2. ASSUME NEW n \in N PROVE n + 1 \in N
  <2>0. \A s \in SUBSET S : Cardinality(s) = n => Claim(s)
    BY <1>2
  <2>1. ASSUME NEW s \in SUBSET S, Cardinality(s) = n + 1 PROVE Claim(s)
    <3> DEFINE p == Chosen(s)
    <3>1. s # {} /\ IsFiniteSet(s)
      BY <2>1, FS_EmptySet, FS_Subset
    <3>2. p \in s
      BY <3>1 DEF Chosen
    <3>3. ASSUME NEW x \in s
          PROVE  s \ {x} \in SUBSET S /\ IsFiniteSet(s \ {x}) /\ Cardinality(s \ {x}) = n
      <4>1. IsFiniteSet(s \ {x}) /\ Cardinality(s \ {x}) = Cardinality(s) - 1
        BY <3>1, FS_RemoveElement
      <4>2. n \in Nat
        BY <1>2
      <4> QED
        BY <2>1, <4>1, <4>2
    <3>4. \A x \in s : Claim(s \ {x})
      BY <2>0, <3>3
    <3>5. SumOn(f, s) = f[p] + SumOn(f, s \ {p})
      BY <3>1, SumSteps
    <3>7. ASSUME NEW x \in s, x # p PROVE SumOn(f, s) = f[x] + SumOn(f, s \ {x})
      <4>1. (s \ {p}) \ {x} = (s \ {x}) \ {p}
        OBVIOUS
      <4>2. x \in s \ {p} /\ p \in s \ {x}
        BY <3>2, <3>7
      <4>3. SumOn(f, s \ {p}) = f[x] + SumOn(f, (s \ {p}) \ {x})
        BY <3>2, <3>4, <4>2
      <4>4. SumOn(f, s \ {x}) = f[p] + SumOn(f, (s \ {x}) \ {p})
        BY <3>4, <4>2
      <4>5. PICK rest : rest = SumOn(f, (s \ {x}) \ {p})
        OBVIOUS
      <4>6. rest \in Nat
        <5>1. (s \ {x}) \ {p} \in SUBSET S /\ IsFiniteSet((s \ {x}) \ {p})
          BY <3>3, FS_Subset
        <5> QED
          BY <4>5, <5>1, SumIsNat
      <4>7. f[x] \in Nat /\ f[p] \in Nat
        BY <3>2
      <4> QED
        BY <3>5, <4>1, <4>3, <4>4, <4>5, <4>6, <4>7
    <3> QED
      BY <3>5, <3>7
  <2> HIDE DEF Claim
  <2> QED
    BY <2>1
<1>3. N = Nat
  <2> HIDE DEF N
  <2>1. N \in SUBSET Nat
    BY DEF N
  <2> QED
    BY <1>1, <1>2, <2>1, NatSets
<1>4. Cardinality(S) \in N
  BY <1>3, FS_CardinalityType
<1> QED
  BY <1>4

LEMMA FiniteInduction ==
    ASSUME NEW S, IsFiniteSet(S), NEW P, {} \in P,
           \A T \in SUBSET S : T \in P => \A x \in S \ T : T \cup {x} \in P
    PROVE  S \in P
<1> DEFINE N == { n \in Nat : \A T \in SUBSET S : Cardinality(T) = n => T \in P }
<1>1. 0 \in N
  <2>1. ASSUME NEW T \in SUBSET S, Cardinality(T) = 0 PROVE T \in P
    <3>1. T = {}
      BY <2>1, FS_EmptySet, FS_Subset
    <3> QED
      BY <3>1
  <2> QED
    BY <2>1
<1>2. ASSUME NEW n \in N PROVE n + 1 \in N
  <2>1. ASSUME NEW T \in SUBSET S, Cardinality(T) = n + 1 PROVE T \in P
    <3>1. n \in Nat /\ T # {} /\ IsFiniteSet(T)
      BY <1>2, <2>1, FS_EmptySet, FS_Subset
    <3>2. Chosen(T) \in T /\ T \ {Chosen(T)} \in SUBSET S /\ Cardinality(T \ {Chosen(T)}) = n
      BY <2>1, <3>1, SmallerSets
    <3>3. T \ {Chosen(T)} \in P
      BY <1>2, <3>2
    <3>4. T = (T \ {Chosen(T)}) \cup {Chosen(T)} /\ Chosen(T) \in S \ (T \ {Chosen(T)})
      BY <3>2
    <3> QED
      BY <3>2, <3>3, <3>4
  <2> QED
    BY <1>2, <2>1
<1>3. N = Nat
  <2> HIDE DEF N
  <2>1. N \in SUBSET Nat
    BY DEF N
  <2> QED
    BY <1>1, <1>2, <2>1, NatSets
<1>4. Cardinality(S) \in N
  BY <1>3, FS_CardinalityType
<1> QED
  BY <1>4

LEMMA SumOfNone == ASSUME NEW f PROVE SumOn(f, {}) = 0
  BY FS_EmptySet, SumSteps

LEMMA SumAdds ==
    ASSUME NEW f, NEW S, IsFiniteSet(S), \A i \in S : f[i] \in Nat,
           NEW x, x \notin S, f[x] \in Nat
    PROVE  SumOn(f, S \cup {x}) = SumOn(f, S) + f[x]
<1>1. IsFiniteSet(S \cup {x}) /\ (S \cup {x}) \ {x} = S /\ x \in S \cup {x}
  BY FS_AddElement
<1>2. \A i \in S \cup {x} : f[i] \in Nat
  OBVIOUS
<1>3. SumOn(f, S \cup {x}) = f[x] + SumOn(f, (S \cup {x}) \ {x})
  BY <1>1, <1>2, SumTakes
<1>4. SumOn(f, S) \in Nat
  BY SumIsNat
<1>5. SumOn(f, S \cup {x}) = f[x] + SumOn(f, S)
  BY <1>1, <1>3
<1> QED
  BY <1>4, <1>5

LEMMA SumSame ==
    ASSUME NEW f, NEW h, NEW S, IsFiniteSet(S),
           \A i \in S : f[i] \in Nat /\ h[i] = f[i]
    PROVE  SumOn(h, S) = SumOn(f, S)
<1> DEFINE P == { T \in SUBSET S : SumOn(h, T) = SumOn(f, T) }
<1>1. {} \in P
  BY SumOfNone
<1>2. ASSUME NEW T \in SUBSET S, T \in P, NEW x \in S \ T
      PROVE  T \cup {x} \in P
  <2>1. IsFiniteSet(T) /\ x \notin T
    BY FS_Subset
  <2>2. \A i \in T : f[i] \in Nat /\ h[i] \in Nat
    OBVIOUS
  <2>3. f[x] \in Nat /\ h[x] \in Nat /\ h[x] = f[x]
    OBVIOUS
  <2>4. SumOn(f, T \cup {x}) = SumOn(f, T) + f[x]
    BY <2>1, <2>2, <2>3, SumAdds
  <2>5. SumOn(h, T \cup {x}) = SumOn(h, T) + h[x]
    BY <2>1, <2>2, <2>3, SumAdds
  <2> QED
    BY <1>2, <2>3, <2>4, <2>5
<1>3. S \in P
  <2> HIDE DEF P
  <2> QED
    BY <1>1, <1>2, FiniteInduction
<1> QED
  BY <1>3

\* A sum of numbers of which one is changed.
LEMMA SumChanges ==
    ASSUME NEW f, NEW h, NEW S, IsFiniteSet(S), NEW x \in S,
           \A i \in S : f[i] \in Nat /\ h[i] \in Nat /\ (i # x => h[i] = f[i])
    PROVE  SumOn(h, S) = SumOn(f, S) - f[x] + h[x]
<1>1. IsFiniteSet(S \ {x})
  BY FS_Subset
<1>2. \A i \in S \ {x} : f[i] \in Nat /\ h[i] = f[i]
  OBVIOUS
<1>3. SumOn(h, S \ {x}) = SumOn(f, S \ {x})
  BY <1>1, <1>2, SumSame
<1>4. SumOn(f, S) = f[x] + SumOn(f, S \ {x})
  BY SumTakes
<1>5. SumOn(h, S) = h[x] + SumOn(h, S \ {x})
  BY SumTakes
<1>6. SumOn(f, S \ {x}) \in Nat /\ f[x] \in Nat /\ h[x] \in Nat
  BY <1>1, SumIsNat
<1> QED
  BY <1>3, <1>4, <1>5, <1>6

LEMMA SumOfZeros ==
    ASSUME NEW f, NEW S, IsFiniteSet(S), \A i \in S : f[i] = 0
    PROVE  SumOn(f, S) = 0
<1> DEFINE P == { U \in SUBSET S : SumOn(f, U) = 0 }
<1>1. {} \in P
  BY SumOfNone
<1>2. ASSUME NEW U \in SUBSET S, U \in P, NEW x \in S \ U
      PROVE  U \cup {x} \in P
  <2>1. IsFiniteSet(U) /\ x \notin U /\ f[x] = 0 /\ \A i \in U : f[i] \in Nat
    BY FS_Subset
  <2>2. SumOn(f, U \cup {x}) = SumOn(f, U) + f[x]
    BY <2>1, SumAdds
  <2> QED
    BY <1>2, <2>1, <2>2
<1>3. S \in P
  <2> HIDE DEF P
  <2> QED
    BY <1>1, <1>2, FiniteInduction
<1> QED
  BY <1>3

LEMMA SumToNext ==
    ASSUME NEW C \in Nat, NEW g \in [0..C -> Nat], NEW n \in Nat, NEW m \in 0..C,
           m = n + 1
    PROVE  SumOn(g, 0..m) = SumOn(g, 0..n) + g[m]
<1>1. IsFiniteSet(0..n)
  BY FS_Interval
<1>2. 0..m = (0..n) \cup {m} /\ m \notin 0..n
  OBVIOUS
<1>3. g[m] \in Nat /\ \A d \in 0..n : g[d] \in Nat
  OBVIOUS
<1>4. SumOn(g, (0..n) \cup {m}) = SumOn(g, 0..n) + g[m]
  BY <1>1, <1>2, <1>3, SumAdds
<1> QED
  BY <1>2, <1>4

LEMMA SumToZero ==
    ASSUME NEW C \in Nat, NEW g \in [0..C -> Nat]
    PROVE  SumOn(g, 0..0) = g[0]
<1>1. 0..0 = {} \cup {0} /\ 0 \notin {} /\ IsFiniteSet({})
  BY FS_EmptySet
<1>2. g[0] \in Nat /\ \A d \in {} : g[d] \in Nat
  OBVIOUS
<1>3. SumOn(g, {} \cup {0}) = SumOn(g, {}) + g[0]
  BY <1>1, <1>2, SumAdds
<1>4. SumOn(g, {}) = 0
  BY SumOfNone
<1> QED
  BY <1>1, <1>2, <1>3, <1>4

\* A sum in which each number is moved to the place below it.
LEMMA SumShifts ==
    ASSUME NEW C \in Nat, NEW f \in [0..C -> Nat], f[0] = 0,
           NEW h, h = [d \in 0..C |-> IF d < C THEN f[d + 1] ELSE 0]
    PROVE  SumOn(h, 0..C) = SumOn(f, 0..C)
<1> DEFINE N == { n \in Nat : n < C => SumOn(h, 0..n) = SumOn(f, 0..(n + 1)) }
<1>0. h \in [0..C -> Nat]
  OBVIOUS
<1>1. 0 \in N
  <2> SUFFICES ASSUME 0 < C PROVE SumOn(h, 0..0) = SumOn(f, 0..(0 + 1))
    OBVIOUS
  <2>1. 1 \in 0..C /\ 1 = 0 + 1
    OBVIOUS
  <2>2. SumOn(f, 0..1) = SumOn(f, 0..0) + f[1]
    BY <2>1, SumToNext
  <2>3. SumOn(f, 0..0) = f[0] /\ SumOn(h, 0..0) = h[0]
    BY <1>0, SumToZero
  <2>4. h[0] = f[1] /\ f[1] \in Nat
    BY <2>1
  <2> QED
    BY <2>1, <2>2, <2>3, <2>4
<1>2. ASSUME NEW n \in N PROVE n + 1 \in N
  <2>0. n \in Nat
    OBVIOUS
  <2> SUFFICES ASSUME n + 1 < C
               PROVE  SumOn(h, 0..(n + 1)) = SumOn(f, 0..((n + 1) + 1))
    BY <2>0
  <2>1. SumOn(h, 0..n) = SumOn(f, 0..(n + 1))
    BY <2>0
  <2>2. PICK m \in 0..C, k \in 0..C : m = n + 1 /\ k = m + 1 /\ m \in Nat /\ m < C
    BY <2>0
  <2> HIDE DEF N
  <2>3. SumOn(h, 0..m) = SumOn(h, 0..n) + h[m]
    BY <1>0, <2>0, <2>2, SumToNext
  <2>4. SumOn(f, 0..k) = SumOn(f, 0..m) + f[k]
    BY <2>2, SumToNext
  <2>5. h[m] = f[k]
    BY <2>2
  <2> QED
    BY <2>1, <2>2, <2>3, <2>4, <2>5
<1>3. N = Nat
  <2> HIDE DEF N
  <2>1. N \in SUBSET Nat
    BY DEF N
  <2> QED
    BY <1>1, <1>2, <2>1, NatSets
<1> HIDE DEF N
<1>4. \A n \in Nat, m \in 0..C :
          m = n + 1 => SumOn(h, 0..m) = SumOn(h, 0..n) + h[m]
  BY <1>0, SumToNext
<1>5. CASE C = 0
  <2>1. h[0] = 0
    BY <1>5
  <2> QED
    BY <1>0, <1>5, <2>1, SumToZero
<1>6. CASE C # 0
  <2>1. PICK b \in Nat : b < C /\ C = b + 1 /\ C \in 0..C
    <3>1. C - 1 \in Nat /\ C - 1 < C /\ C = (C - 1) + 1 /\ C \in 0..C
      BY <1>6
    <3> QED
      BY <3>1
  <2>2. SumOn(h, 0..b) = SumOn(f, 0..C)
    BY <1>3, <2>1 DEF N
  <2>3. SumOn(h, 0..C) = SumOn(h, 0..b) + h[C]
    BY <1>4, <2>1
  <2>4. h[C] = 0
    BY <2>1
  <2>5. SumOn(f, 0..C) \in Nat
    <3>1. IsFiniteSet(0..C)
      BY FS_Interval
    <3>2. \A d \in 0..C : f[d] \in Nat
      OBVIOUS
    <3> QED
      BY <3>1, <3>2, SumIsNat
  <2> QED
    BY <2>2, <2>3, <2>4, <2>5
<1> QED
  BY <1>5, <1>6

----------------------------------------------------------------------------
USE MonitorAssumption

\* m is the row that Load finds.
First(rows, m) == \A n \in rows : m.id <= n.id

\* What the types do not say: a row is known by its ID, IDs are not given twice,
\* and whoever is about to write has a monitor in hand.
RowsInv ==
    /\ \A m, n \in monitors : m.id = n.id => m = n
    /\ \A m \in monitors : m.id \in used
    /\ \A w \in Workers :
           worker[w].step \in {"start", "check"} => worker[w].id \in MonitorIDs
    /\ reporter.step = "online" => reporter.id \in MonitorIDs

----------------------------------------------------------------------------
(* Rows. *)

LEMMA FirstExists ==
    ASSUME NEW rows \in SUBSET Monitors, rows # {}
    PROVE  \E m \in rows : First(rows, m)
<1> DEFINE R == { ss \in Nat \X Nat : ss[1] < ss[2] }
           IDs == { m.id : m \in rows }
<1>1. IsWellFoundedOn(R, Nat)
  BY NatLessThanWellFounded DEF OpToRel
<1>2. IDs \in SUBSET Nat /\ IDs # {}
  BY DEF Monitors
<1> HIDE DEF R, IDs
<1>3. PICK least \in IDs : \A x \in IDs : ~(<<x, least>> \in R)
  BY <1>1, <1>2, WFMin
<1>4. \A x \in IDs : least <= x
  <2> SUFFICES ASSUME NEW x \in IDs, x < least PROVE FALSE
    BY <1>2
  <2>1. <<x, least>> \in R
    BY <1>2 DEF R
  <2> QED
    BY <1>3, <2>1
<1>5. PICK m \in rows : m.id = least
  BY <1>3 DEF IDs
<1> QED
  BY <1>4, <1>5 DEF IDs, First

LEMMA LoadedIsFirst ==
    ASSUME monitors \subseteq Monitors, monitors # {}
    PROVE  Loaded \in monitors /\ First(monitors, Loaded)
<1>1. \E m \in monitors : \A n \in monitors : m.id <= n.id
  BY FirstExists DEF First
<1> QED
  BY <1>1 DEF Loaded, First

\* There is one such row.
LEMMA FirstIsLoaded ==
    ASSUME monitors \subseteq Monitors, RowsInv,
           NEW m \in monitors, First(monitors, m)
    PROVE  m = Loaded
<1>1. Loaded \in monitors /\ First(monitors, Loaded)
  BY LoadedIsFirst
<1>2. m.id \in Nat /\ Loaded.id \in Nat
  BY <1>1 DEF Monitors
<1>3. m.id <= Loaded.id /\ Loaded.id <= m.id
  BY <1>1 DEF First
<1> QED
  BY <1>1, <1>2, <1>3 DEF RowsInv

\* The rows of S are those of R, each of them edited: with the same ID.
Edited(R, S) ==
    /\ \A n \in S : \E m \in R : n.id = m.id
    /\ \A m \in R : \E n \in S : n.id = m.id

\* Which of the rows is the first does not change when rows are edited.
LEMMA FirstIsKept ==
    ASSUME NEW R, NEW S, Edited(R, S), NEW m \in R, NEW n \in S, n.id = m.id,
           First(S, n)
    PROVE  First(R, m)
  BY DEF Edited, First

\* Rows that are edited stay rows, and stay apart.
Edits(rows, S) ==
    /\ S \in SUBSET Monitors
    /\ Edited(rows, S)
    /\ (\A m, n \in rows : m.id = n.id => m = n)
       => \A m, n \in S : m.id = n.id => m = n

LEMMA EditedRows ==
    ASSUME NEW rows \in SUBSET Monitors, NEW f \in [rows -> Monitors],
           \A m \in rows : f[m].id = m.id
    PROVE  Edits(rows, { f[m] : m \in rows })
<1> DEFINE S == { f[m] : m \in rows }
<1>1. \A n \in S : \E m \in rows : n = f[m] /\ n.id = m.id
  OBVIOUS
<1>2. \A m \in rows : f[m] \in S
  OBVIOUS
<1>3. S \in SUBSET Monitors
  OBVIOUS
<1> QED
  BY <1>1, <1>2, <1>3 DEF Edits, Edited

LEMMA TouchedRows ==
    ASSUME NEW rows \in SUBSET Monitors, NEW id
    PROVE  /\ Edits(rows, Touched(rows, id))
           /\ \A n \in Touched(rows, id) : \E m \in rows :
                  /\ n.id = m.id /\ n.PhoneOnline = m.PhoneOnline
                  /\ n.UpdatedAt = IF m.id = id THEN 0 ELSE m.UpdatedAt
<1> DEFINE f == [m \in rows |-> IF m.id = id THEN [m EXCEPT !.UpdatedAt = 0]
                                             ELSE m]
<1>1. \A m \in rows :
         /\ f[m] \in Monitors /\ f[m].id = m.id
         /\ f[m].PhoneOnline = m.PhoneOnline
         /\ f[m].UpdatedAt = IF m.id = id THEN 0 ELSE m.UpdatedAt
  <2> SUFFICES ASSUME NEW m \in rows
               PROVE  /\ f[m] \in Monitors /\ f[m].id = m.id
                      /\ f[m].PhoneOnline = m.PhoneOnline
                      /\ f[m].UpdatedAt = IF m.id = id THEN 0 ELSE m.UpdatedAt
    OBVIOUS
  <2>1. 0 \in Ages /\ m \in Monitors
    BY DEF Ages, Forever
  <2> QED
    BY <2>1 DEF Monitors
<1>2. Touched(rows, id) = { f[m] : m \in rows }
  BY DEF Touched
<1>3. f \in [rows -> Monitors]
  BY <1>1
<1> HIDE DEF f
<1> QED
  BY <1>1, <1>2, <1>3, EditedRows

LEMMA OnlineRows ==
    ASSUME monitors \in SUBSET Monitors, NEW id, NEW online \in BOOLEAN,
           UpdatePhoneOnline(id, online)
    PROVE  /\ Edits(monitors, monitors')
           /\ \A n \in monitors' : \E m \in monitors :
                  /\ n.id = m.id
                  /\ n.PhoneOnline = IF m.id = id THEN online ELSE m.PhoneOnline
                  /\ n.UpdatedAt = IF m.id = id THEN 0 ELSE m.UpdatedAt
<1> DEFINE f == [m \in monitors |->
                    IF m.id = id
                    THEN [m EXCEPT !.PhoneOnline = online, !.UpdatedAt = 0]
                    ELSE m]
<1>1. \A m \in monitors :
         /\ f[m] \in Monitors /\ f[m].id = m.id
         /\ f[m].PhoneOnline = IF m.id = id THEN online ELSE m.PhoneOnline
         /\ f[m].UpdatedAt = IF m.id = id THEN 0 ELSE m.UpdatedAt
  <2> SUFFICES ASSUME NEW m \in monitors
               PROVE  /\ f[m] \in Monitors /\ f[m].id = m.id
                      /\ f[m].PhoneOnline =
                             IF m.id = id THEN online ELSE m.PhoneOnline
                      /\ f[m].UpdatedAt = IF m.id = id THEN 0 ELSE m.UpdatedAt
    OBVIOUS
  <2>1. 0 \in Ages /\ m \in Monitors
    BY DEF Ages, Forever
  <2> QED
    BY <2>1 DEF Monitors
<1>2. monitors' = { f[m] : m \in monitors }
  BY DEF UpdatePhoneOnline
<1>3. f \in [monitors -> Monitors]
  BY <1>1
<1> HIDE DEF f
<1> QED
  BY <1>1, <1>2, <1>3, EditedRows

LEMMA OlderType == ASSUME NEW a \in Ages PROVE Older(a) \in Ages
  BY DEF Older, Ages, Forever

LEMMA OlderRows ==
    ASSUME monitors \in SUBSET Monitors, Tick
    PROVE  /\ Edits(monitors, monitors')
           /\ \A n \in monitors' : \E m \in monitors :
                  /\ n.id = m.id /\ n.PhoneOnline = m.PhoneOnline
                  /\ n.UpdatedAt = Older(m.UpdatedAt)
<1> DEFINE f == [m \in monitors |-> [m EXCEPT !.UpdatedAt = Older(@)]]
<1>1. \A m \in monitors :
         /\ f[m] \in Monitors /\ f[m].id = m.id
         /\ f[m].PhoneOnline = m.PhoneOnline
         /\ f[m].UpdatedAt = Older(m.UpdatedAt)
  <2> SUFFICES ASSUME NEW m \in monitors
               PROVE  /\ f[m] \in Monitors /\ f[m].id = m.id
                      /\ f[m].PhoneOnline = m.PhoneOnline
                      /\ f[m].UpdatedAt = Older(m.UpdatedAt)
    OBVIOUS
  <2>1. m \in Monitors /\ Older(m.UpdatedAt) \in Ages
    BY OlderType DEF Monitors
  <2> QED
    BY <2>1 DEF Monitors
<1>2. monitors' = { f[m] : m \in monitors }
  BY DEF Tick
<1>3. f \in [monitors -> Monitors]
  BY <1>1
<1> HIDE DEF f
<1> QED
  BY <1>1, <1>2, <1>3, EditedRows

\* A row that is inserted has an ID of its own.
LEMMA InsertedRow ==
    ASSUME monitors \in SUBSET Monitors, RowsInv, used \subseteq MonitorIDs,
           NEW id \in MonitorIDs \ used,
           monitors' = monitors \cup
               {[id |-> id, PhoneOnline |-> TRUE, UpdatedAt |-> 0]}
    PROVE  /\ monitors' \in SUBSET Monitors
           /\ \A m, n \in monitors' : m.id = n.id => m = n
           /\ \A m \in monitors' : m.id \in used \cup {id}
<1> DEFINE row == [id |-> id, PhoneOnline |-> TRUE, UpdatedAt |-> 0]
<1>1. row \in Monitors /\ row.id = id
  <2>1. 0 \in Ages
    BY DEF Ages, Forever
  <2> QED
    BY <2>1 DEF Monitors
<1>2. monitors' = monitors \cup {row}
  OBVIOUS
<1> HIDE DEF row
<1>3. \A m \in monitors : m.id # id
  BY DEF RowsInv
<1>4. \A m, n \in monitors' : m.id = n.id => m = n
  BY <1>1, <1>2, <1>3 DEF RowsInv
<1> QED
  BY <1>1, <1>2, <1>4 DEF RowsInv

----------------------------------------------------------------------------
(* Checks. *)

Queues == [MonitorIDs -> [Delays -> Nat]]

LEMMA IntervalIsDelay == CheckInterval \in Delays /\ 0 \in Delays
  BY DEF Delays

LEMMA ScheduledType ==
    ASSUME NEW events \in Queues, NEW id \in MonitorIDs
    PROVE  /\ Scheduled(events, id) \in Queues
           /\ \A i \in MonitorIDs, d \in Delays :
                  Scheduled(events, id)[i][d] =
                      IF i = id /\ d = CheckInterval THEN events[i][d] + 1
                      ELSE events[i][d]
  BY IntervalIsDelay DEF Scheduled, Queues

\* Rows that are not edited are edited rows.
LEMMA NoEdits == ASSUME monitors \in SUBSET Monitors
                 PROVE  Edits(monitors, monitors)
  BY DEF Edits, Edited

\* What the scheduling of a check does to the checks and to the rows.
Reschedules(id) ==
    /\ checks' = Scheduled(checks, id)
    /\ monitors' = Touched(monitors, id) \/ UNCHANGED monitors
    /\ Fault \/ UNCHANGED faults

LEMMA ScheduleEffect ==
    ASSUME TypeOK, NEW id \in MonitorIDs, Reschedules(id)
    PROVE  /\ checks' \in Queues
           /\ \A i \in MonitorIDs, d \in Delays :
                  checks'[i][d] = IF i = id /\ d = CheckInterval
                                  THEN checks[i][d] + 1 ELSE checks[i][d]
           /\ Edits(monitors, monitors')
           /\ faults' \in Nat
<1>1. checks \in Queues /\ monitors \in SUBSET Monitors
  BY DEF TypeOK, Queues
<1>2. checks' = Scheduled(checks, id)
  BY DEF Reschedules
<1>3. Edits(monitors, monitors')
  BY <1>1, TouchedRows, NoEdits DEF Reschedules
<1>4. faults' \in Nat
  BY DEF Reschedules, Fault, TypeOK
<1> QED
  BY <1>1, <1>2, <1>3, <1>4, ScheduledType

\* Its check is taken from the queue.
LEMMA TakenType ==
    ASSUME TypeOK, NEW id \in MonitorIDs, checks[id][0] > 0
    PROVE  LET rest == [checks EXCEPT ![id][0] = @ - 1] IN
           /\ rest \in Queues
           /\ \A i \in MonitorIDs, d \in Delays :
                  rest[i][d] = IF i = id /\ d = 0 THEN checks[i][d] - 1
                               ELSE checks[i][d]
<1>1. checks \in Queues
  BY DEF TypeOK, Queues
<1>2. checks[id][0] - 1 \in Nat
  BY <1>1, IntervalIsDelay DEF Queues
<1> QED
  BY <1>1, <1>2, IntervalIsDelay DEF Queues

----------------------------------------------------------------------------
(* Types. *)

Works == [step : {"idle", "insert", "start", "check"},
          id : MonitorIDs \cup {NoID}, PhoneOnline : BOOLEAN]
Base == TypeOK /\ RowsInv

LEMMA IdleType == Idle \in Works /\ Idle.step = "idle"
  BY DEF Idle, Works

LEMMA TaskType ==
    ASSUME NEW step \in {"insert", "start", "check"},
           NEW id \in MonitorIDs \cup {NoID}, NEW online \in BOOLEAN
    PROVE  /\ Task(step, id, online) \in Works
           /\ Task(step, id, online).step = step
           /\ Task(step, id, online).id = id
           /\ Task(step, id, online).PhoneOnline = online
  BY DEF Task, Works

\* A handler takes up a task, or ends the one it had.
LEMMA WorkerType ==
    ASSUME Base, NEW w \in Workers, NEW task \in Works,
           task.step \in {"start", "check"} => task.id \in MonitorIDs,
           worker' = [worker EXCEPT ![w] = task]
    PROVE  /\ worker' \in [Workers -> Works]
           /\ worker'[w] = task
           /\ \A v \in Workers : v # w => worker'[v] = worker[v]
           /\ \A v \in Workers : worker'[v].step \in {"start", "check"}
                                  => worker'[v].id \in MonitorIDs
<1>1. worker \in [Workers -> Works]
  BY DEF Base, TypeOK, Works
<1> QED
  BY <1>1 DEF Base, RowsInv

LEMMA InitBase == Init => Base
<1> SUFFICES ASSUME Init PROVE Base
  OBVIOUS
<1>1. TypeOK
  <2>1. Forever \in Ages
    BY DEF Ages, Forever
  <2>2. reporter \in [step : {"idle", "stored", "online"},
                     id : MonitorIDs \cup {NoID}, PhoneOnline : BOOLEAN]
    BY DEF Init, Idle
  <2> QED
    BY <2>1, <2>2, IdleType DEF Init, TypeOK, NewSilence, Silences, Works
<1>2. RowsInv
  BY IdleType DEF Init, RowsInv, Idle
<1> QED
  BY <1>1, <1>2 DEF Base

\* What a step must leave typed, part by part.
LEMMA BaseFromParts ==
    ASSUME TypeOK,
           heard' \in BOOLEAN, silent' \in Ages, opened' \in BOOLEAN,
           quiet' \in BOOLEAN,
           used' \subseteq MonitorIDs, monitors' \subseteq Monitors,
           \A m, n \in monitors' : m.id = n.id => m = n,
           \A m \in monitors' : m.id \in used',
           checks' \in Queues, probes' \subseteq Delays,
           offline' \in [MonitorIDs -> Nat],
           worker' \in [Workers -> Works],
           \A v \in Workers : worker'[v].step \in {"start", "check"}
                              => worker'[v].id \in MonitorIDs,
           reporter' \in [step : {"idle", "stored", "online"},
                          id : MonitorIDs \cup {NoID}, PhoneOnline : BOOLEAN],
           reporter'.step = "online" => reporter'.id \in MonitorIDs,
           silence' \in Silences,
           broken' \in BOOLEAN, faults' \in Nat
    PROVE  Base'
  BY DEF Base, TypeOK, RowsInv, Queues, Works

\* Rows that are edited keep what RowsInv says of them.
LEMMA EditsKeepIDs ==
    ASSUME Base, Edits(monitors, monitors'), used \subseteq used'
    PROVE  /\ monitors' \subseteq Monitors
           /\ \A m, n \in monitors' : m.id = n.id => m = n
           /\ \A m \in monitors' : m.id \in used'
  BY DEF Base, RowsInv, Edits, Edited

LEMMA BaseFacts ==
    ASSUME Base
    PROVE  /\ monitors \in SUBSET Monitors
           /\ checks \in Queues
           /\ worker \in [Workers -> Works]
           /\ heard \in BOOLEAN /\ opened \in BOOLEAN /\ quiet \in BOOLEAN
           /\ broken \in BOOLEAN /\ silence \in Silences
           /\ silent \in Ages /\ faults \in Nat
           /\ Forever \in Ages /\ 0 \in Ages /\ Ages \subseteq Nat
           /\ NewSilence \in Silences
           /\ Idle \in [step : {"idle", "stored", "online"},
                         id : MonitorIDs \cup {NoID}, PhoneOnline : BOOLEAN]
           /\ Idle.step = "idle"
<1>1. NewSilence \in Silences
  BY DEF NewSilence, Silences
<1>2. /\ Idle \in [step : {"idle", "stored", "online"},
                   id : MonitorIDs \cup {NoID}, PhoneOnline : BOOLEAN]
      /\ Idle.step = "idle"
  BY DEF Idle
<1>3. Forever \in Ages /\ 0 \in Ages /\ Ages \subseteq Nat
  BY DEF Forever, Ages
<1> QED
  BY <1>1, <1>2, <1>3 DEF Base, TypeOK, Queues, Works

\* What is noted of a silence: a chain was started, the phone was tried, or the
\* windows could not be read.
LEMMA Noted ==
    ASSUME NEW note \in Silences
    PROVE  LET started == [note EXCEPT !.started = TRUE]
               tried   == [note EXCEPT !.tried = TRUE]
               unread  == [note EXCEPT !.unread = TRUE] IN
           /\ started \in Silences /\ tried \in Silences /\ unread \in Silences
           /\ started.started /\ tried.tried /\ unread.unread
           /\ started.alarms = note.alarms /\ tried.alarms = note.alarms
           /\ unread.alarms = note.alarms
           /\ started.tried = note.tried /\ unread.tried = note.tried
           /\ tried.started = note.started /\ unread.started = note.started
           /\ started.aligned = note.aligned /\ tried.aligned = note.aligned
           /\ unread.aligned = note.aligned
           /\ started.unread = note.unread /\ tried.unread = note.unread
  BY DEF Silences

\* A check raises an alarm, or none.
LEMMA ReactEffect ==
    ASSUME Base, NEW w \in Workers, worker[w].id \in MonitorIDs,
           NEW since \in Nat, NEW note \in Silences, React(w, since, note)
    PROVE  /\ probes' \subseteq Delays /\ offline' \in [MonitorIDs -> Nat]
           /\ silence' \in Silences
           /\ silence'.tried = note.tried /\ silence'.started = note.started
           /\ silence'.unread = note.unread
           /\ note.aligned \/ since = 4 * CheckInterval
              => silence'.aligned \/ silence'.alarms > 0
           /\ note.aligned => silence'.aligned
           /\ \/ silence'.alarms = note.alarms
              \/ /\ IsFailed(since, worker[w].PhoneOnline)
                 /\ silence'.alarms = note.alarms + 1
           /\ IsFailed(since, worker[w].PhoneOnline) => silence'.alarms > 0
<1>1. probes' \subseteq Delays
  BY IntervalIsDelay DEF React, Base, TypeOK
<1>2. offline \in [MonitorIDs -> Nat]
  BY DEF Base, TypeOK
<1>3. CASE /\ IsFailed(since, worker[w].PhoneOnline)
           /\ offline' = [offline EXCEPT ![worker[w].id] = @ + 1]
           /\ silence' = [note EXCEPT !.alarms = @ + 1]
  BY <1>1, <1>2, <1>3 DEF Silences
<1>4. CASE /\ ~IsFailed(since, worker[w].PhoneOnline)
           /\ UNCHANGED offline
           /\ silence' = [note EXCEPT !.aligned = @ \/ since = 4 * CheckInterval]
  <2>1. (note.aligned \/ since = 4 * CheckInterval) \in BOOLEAN
    OBVIOUS
  <2>2. /\ silence' \in Silences /\ silence'.alarms = note.alarms
        /\ silence'.tried = note.tried /\ silence'.started = note.started
        /\ silence'.unread = note.unread
        /\ silence'.aligned = (note.aligned \/ since = 4 * CheckInterval)
    BY <1>4, <2>1 DEF Silences
  <2> QED
    BY <1>1, <1>2, <1>4, <2>2
<1> QED
  BY <1>3, <1>4 DEF React

\* A check that could not read the windows.
LEMMA UnreadEffect ==
    ASSUME Base, NEW w \in Workers, MonitorUnread(w)
    PROVE  /\ probes' \subseteq Delays /\ offline' \in [MonitorIDs -> Nat]
           /\ silence' \in Silences /\ silence'.unread
           /\ silence'.tried = silence.tried /\ silence'.started = silence.started
           /\ silence.aligned => silence'.aligned
           /\ \/ silence'.alarms = silence.alarms
              \/ silent < 5 * CheckInterval /\ silence'.alarms = silence.alarms + 1
           /\ Fault /\ faults' = faults + 1
<1> DEFINE note == [silence EXCEPT !.unread = TRUE]
<1>1. PICK since \in silent..Forever : React(w, since, note)
  BY DEF MonitorUnread
<1>2. since \in Nat /\ silent <= since
  BY BaseFacts
<1>3. /\ note \in Silences /\ note.unread /\ note.alarms = silence.alarms
      /\ note.tried = silence.tried /\ note.started = silence.started
      /\ note.aligned = silence.aligned
  BY BaseFacts, Noted
<1>4. worker[w].id \in MonitorIDs
  BY DEF MonitorUnread, Base, RowsInv
<1> HIDE DEF note
<1>5. since < 5 * CheckInterval => silent < 5 * CheckInterval
  BY <1>2, BaseFacts
<1>6. IsFailed(since, worker[w].PhoneOnline) => since < 5 * CheckInterval
  BY DEF IsFailed
<1>7. Fault /\ faults' = faults + 1
  BY DEF MonitorUnread, Fault
<1> QED
  BY <1>1, <1>2, <1>3, <1>4, <1>5, <1>6, <1>7, ReactEffect

\* Every action leaves what it writes typed.
LEMMA BaseIsInductive == Base /\ [Next]_vars => Base'
<1> SUFFICES ASSUME Base, [Next]_vars PROVE Base'
  OBVIOUS
<1> USE BaseFacts
<1>0. TypeOK /\ RowsInv
  BY DEF Base
<1> DEFINE Rest ==
       /\ monitors' \subseteq Monitors
       /\ \A m, n \in monitors' : m.id = n.id => m = n
       /\ \A m \in monitors' : m.id \in used'
<1>00. monitors' = monitors /\ used' = used => Rest
  BY <1>0 DEF RowsInv
<1>000. Edits(monitors, monitors') /\ used' = used => Rest
  BY EditsKeepIDs
<1>1. CASE UNCHANGED vars
  BY <1>0, <1>00, <1>1, BaseFromParts
     DEF vars, world, queue, TypeOK, RowsInv, Queues, Works
<1>2. CASE Tick
  <2>1. Rest
    BY <1>2, <1>000, OlderRows DEF Tick
  <2>2. checks' \in Queues
    <3>1. \A d \in Delays : d < CheckInterval => d + 1 \in Delays
      BY DEF Delays
    <3>2. \A id \in MonitorIDs, d \in Delays :
             (IF d < CheckInterval THEN checks[id][d + 1] ELSE 0) \in Nat
      BY <3>1 DEF Queues
    <3>3. checks' = [id \in MonitorIDs |-> [d \in Delays |->
                        IF d < CheckInterval THEN checks[id][d + 1] ELSE 0]]
      BY <1>2 DEF Tick
    <3> QED
      BY <3>2, <3>3 DEF Queues
  <2>3. probes' \subseteq Delays
    BY <1>0, <1>2 DEF Tick, Busy, TypeOK, Delays
  <2>4. silent' \in Ages
    BY <1>2, OlderType DEF Tick
  <2> QED
    BY <1>0, <1>2, <2>1, <2>2, <2>3, <2>4, BaseFromParts
       DEF Tick, TypeOK, RowsInv, Works
<1>3. CASE OpenWindow \/ CloseWindow \/ StoreHeartbeat
  <2>1. reporter' \in [step : {"idle", "stored", "online"},
                       id : MonitorIDs \cup {NoID}, PhoneOnline : BOOLEAN]
        /\ (reporter'.step = "online" => reporter'.id \in MonitorIDs)
    <3>1. CASE OpenWindow \/ CloseWindow
      BY <1>0, <3>1 DEF OpenWindow, CloseWindow, TypeOK, RowsInv
    <3>2. CASE StoreHeartbeat
      <4>1. reporter' = Task("stored", NoID, FALSE)
        BY <3>2 DEF StoreHeartbeat
      <4> QED
        BY <4>1 DEF Task
    <3> QED
      BY <1>3, <3>1, <3>2
  <2> QED
    BY <1>0, <1>00, <1>3, <2>1, BaseFromParts
       DEF OpenWindow, CloseWindow, StoreHeartbeat, queue, TypeOK, RowsInv,
           Queues, Works
<1>4. CASE ReporterNext
  <2>1. CASE LoadForHeartbeat
    <3>1. monitors # {} => Loaded \in Monitors
      BY LoadedIsFirst
    <3>2. reporter' \in [step : {"idle", "stored", "online"},
                         id : MonitorIDs \cup {NoID}, PhoneOnline : BOOLEAN]
          /\ (reporter'.step = "online" => reporter'.id \in MonitorIDs)
      <4>1. CASE monitors # {} /\ ~Loaded.PhoneOnline
        <5>1. reporter' = Task("online", Loaded.id, FALSE)
          BY <2>1, <4>1 DEF LoadForHeartbeat
        <5> QED
          BY <3>1, <4>1, <5>1 DEF Task, Monitors
      <4>2. CASE ~(monitors # {} /\ ~Loaded.PhoneOnline)
        <5>1. reporter' = Idle
          BY <2>1, <4>2 DEF LoadForHeartbeat
        <5> QED
          BY <5>1
      <4> QED
        BY <4>1, <4>2
    <3> QED
      BY <1>0, <1>00, <2>1, <3>2, BaseFromParts
         DEF LoadForHeartbeat, world, queue, TypeOK, RowsInv, Queues, Works
  <2>2. CASE HandleHeartbeatWhenPhoneWasOffline
    <3>1. Rest
      BY <1>000, <2>2, OnlineRows DEF HandleHeartbeatWhenPhoneWasOffline
    <3> QED
      BY <1>0, <2>2, <3>1, BaseFromParts
         DEF HandleHeartbeatWhenPhoneWasOffline, world, queue, TypeOK, RowsInv,
             Queues, Works
  <2> QED
    BY <1>4, <2>1, <2>2 DEF ReporterNext
<1>5. ASSUME NEW w \in Workers, PhoneUpdated(w) PROVE Base'
  <2> DEFINE task == CASE monitors = {} -> Task("insert", NoID, TRUE)
                       [] monitors # {} /\ RequiresCheck(Loaded) ->
                              Task("start", Loaded.id, TRUE)
                       [] OTHER -> Idle
  <2>1. /\ task \in Works
        /\ task.step \in {"start", "check"} => task.id \in MonitorIDs
    <3>1. monitors # {} => Loaded.id \in MonitorIDs
      BY LoadedIsFirst DEF Monitors
    <3>2. CASE monitors = {}
      BY <3>2, TaskType
    <3>3. CASE monitors # {} /\ RequiresCheck(Loaded)
      <4>1. task = Task("start", Loaded.id, TRUE)
        BY <3>3
      <4>2. Loaded.id \in MonitorIDs
        BY <3>1, <3>3
      <4>3. /\ Task("start", Loaded.id, TRUE) \in Works
            /\ Task("start", Loaded.id, TRUE).id = Loaded.id
        BY <4>2, TaskType
      <4> HIDE DEF task
      <4> QED
        BY <4>1, <4>2, <4>3
    <3>4. CASE monitors # {} /\ ~RequiresCheck(Loaded)
      BY <3>4, IdleType
    <3> HIDE DEF task
    <3> QED
      BY <3>2, <3>3, <3>4
  <2>2. worker' = [worker EXCEPT ![w] = task]
    BY <1>5 DEF PhoneUpdated
  <2> HIDE DEF task
  <2>3. /\ worker' \in [Workers -> Works]
        /\ \A v \in Workers : worker'[v].step \in {"start", "check"}
                              => worker'[v].id \in MonitorIDs
    BY <2>1, <2>2, WorkerType
  <2> QED
    BY <1>0, <1>00, <1>5, <2>3, BaseFromParts
       DEF PhoneUpdated, world, queue, TypeOK, RowsInv, Queues
<1>6. ASSUME NEW w \in Workers, StoreMonitor(w) PROVE Base'
  <2>1. PICK id \in MonitorIDs \ used :
           /\ used' = used \cup {id}
           /\ monitors' = monitors \cup
                 {[id |-> id, PhoneOnline |-> TRUE, UpdatedAt |-> 0]}
           /\ worker' = [worker EXCEPT ![w] = Task("start", id, TRUE)]
    BY <1>6 DEF StoreMonitor
  <2>2. /\ Task("start", id, TRUE) \in Works
        /\ Task("start", id, TRUE).id = id
    BY TaskType
  <2>3. /\ worker' \in [Workers -> Works]
        /\ \A v \in Workers : worker'[v].step \in {"start", "check"}
                              => worker'[v].id \in MonitorIDs
    BY <2>1, <2>2, WorkerType
  <2>4. used \subseteq MonitorIDs
    BY <1>0 DEF TypeOK
  <2>5. Rest
    BY <1>0, <2>1, <2>4, InsertedRow
  <2>6. silence' \in Silences
    BY <1>6, Noted DEF StoreMonitor
  <2> QED
    BY <1>0, <1>6, <2>1, <2>3, <2>4, <2>5, <2>6, BaseFromParts
       DEF StoreMonitor, world, queue, TypeOK, RowsInv, Queues
<1>7. ASSUME NEW w \in Workers,
             \/ StartChecks(w)
             \/ MonitorQuiet(w)
             \/ Monitor(w)
             \/ MonitorUnread(w)
      PROVE  Base'
  <2>1. /\ worker[w].id \in MonitorIDs
        /\ Reschedules(worker[w].id)
        /\ worker' = [worker EXCEPT ![w] = Idle]
        /\ UNCHANGED <<world, used, reporter>>
    BY <1>0, <1>7 DEF StartChecks, MonitorQuiet, Monitor, MonitorUnread, RowsInv,
                      ScheduleHeartbeatCheck, Reschedules
  <2>2. checks' \in Queues /\ Rest /\ faults' \in Nat
    BY <1>0, <1>000, <2>1, ScheduleEffect
  <2>3. /\ worker' \in [Workers -> Works]
        /\ \A v \in Workers : worker'[v].step \in {"start", "check"}
                              => worker'[v].id \in MonitorIDs
    BY <2>1, IdleType, WorkerType
  <2>4. /\ probes' \subseteq Delays /\ offline' \in [MonitorIDs -> Nat]
        /\ silence' \in Silences
    <3>1. CASE StartChecks(w)
      BY <1>0, <3>1, Noted DEF StartChecks, TypeOK
    <3>2. CASE MonitorQuiet(w)
      BY <1>0, <3>2 DEF MonitorQuiet, TypeOK
    <3>3. CASE Monitor(w)
      BY <2>1, <3>3, ReactEffect DEF Monitor
    <3>4. CASE MonitorUnread(w)
      BY <3>4, UnreadEffect
    <3> QED
      BY <1>7, <3>1, <3>2, <3>3, <3>4
  <2>5. broken' \in BOOLEAN
    BY <1>0, <1>7 DEF StartChecks, MonitorQuiet, Monitor, MonitorUnread
  <2> QED
    BY <1>0, <2>1, <2>2, <2>3, <2>4, <2>5, BaseFromParts
       DEF world, TypeOK, RowsInv
<1>8. ASSUME NEW w \in Workers, LoadMonitor(w) PROVE Base'
  <2>1. PICK id \in MonitorIDs :
           /\ checks[id][0] > 0
           /\ LET rest == [checks EXCEPT ![id][0] = @ - 1] IN
              \/ /\ checks' = rest
                 /\ worker' = [worker EXCEPT ![w] =
                        IF monitors = {} THEN Idle
                        ELSE Task("check", Loaded.id, Loaded.PhoneOnline)]
                 /\ UNCHANGED <<monitors, faults>>
              \/ /\ Fault
                 /\ checks' = Scheduled(rest, id)
                 /\ monitors' = Touched(monitors, id)
                 /\ UNCHANGED worker
    BY <1>8 DEF LoadMonitor
  <2> DEFINE rest == [checks EXCEPT ![id][0] = @ - 1]
             task == IF monitors = {} THEN Idle
                     ELSE Task("check", Loaded.id, Loaded.PhoneOnline)
  <2>2. rest \in Queues
    BY <1>0, <2>1, TakenType
  <2>3. /\ task \in Works
        /\ task.step \in {"start", "check"} => task.id \in MonitorIDs
    <3>1. monitors # {} => Loaded \in Monitors
      BY LoadedIsFirst
    <3>2. monitors # {} => Loaded.id \in MonitorIDs /\ Loaded.PhoneOnline \in BOOLEAN
      BY <3>1 DEF Monitors
    <3>3. CASE monitors = {}
      BY <3>3, IdleType
    <3>4. CASE monitors # {}
      <4>1. task = Task("check", Loaded.id, Loaded.PhoneOnline)
        BY <3>4
      <4>2. Loaded.id \in MonitorIDs /\ Loaded.PhoneOnline \in BOOLEAN
        BY <3>2, <3>4
      <4>3. /\ Task("check", Loaded.id, Loaded.PhoneOnline) \in Works
            /\ Task("check", Loaded.id, Loaded.PhoneOnline).id = Loaded.id
        BY <4>2 DEF Task, Works
      <4> HIDE DEF task
      <4> QED
        BY <4>1, <4>2, <4>3
    <3> HIDE DEF task
    <3> QED
      BY <3>3, <3>4
  <2> HIDE DEF rest, task
  <2>4. CASE /\ checks' = rest
             /\ worker' = [worker EXCEPT ![w] = task]
             /\ UNCHANGED <<monitors, faults>>
    <3>1. /\ worker' \in [Workers -> Works]
          /\ \A v \in Workers : worker'[v].step \in {"start", "check"}
                                => worker'[v].id \in MonitorIDs
      BY <2>3, <2>4, WorkerType
    <3> QED
      BY <1>0, <1>00, <1>8, <2>2, <2>4, <3>1, BaseFromParts
         DEF LoadMonitor, world, TypeOK, RowsInv
  <2>5. CASE /\ Fault
             /\ checks' = Scheduled(rest, id)
             /\ monitors' = Touched(monitors, id)
             /\ UNCHANGED worker
    <3>1. checks' \in Queues
      BY <2>2, <2>5, ScheduledType
    <3>2. Rest
      BY <1>000, <1>8, <2>5, TouchedRows DEF LoadMonitor
    <3> QED
      BY <1>0, <1>8, <2>5, <3>1, <3>2, BaseFromParts
         DEF LoadMonitor, Fault, world, TypeOK, RowsInv, Works
  <2> QED
    BY <2>1, <2>4, <2>5 DEF rest, task
<1>9. ASSUME NEW w \in Workers, RemoveCheck(w) \/ ScheduleFails(w) PROVE Base'
  <2>1. worker' = [worker EXCEPT ![w] = Idle]
    BY <1>9 DEF RemoveCheck, ScheduleFails
  <2>2. /\ worker' \in [Workers -> Works]
        /\ \A v \in Workers : worker'[v].step \in {"start", "check"}
                              => worker'[v].id \in MonitorIDs
    BY <2>1, IdleType, WorkerType
  <2>3. probes' \subseteq Delays
    BY <1>0, <1>9, IntervalIsDelay DEF RemoveCheck, ScheduleFails, queue, TypeOK
  <2>4. faults' \in Nat
    BY <1>9 DEF RemoveCheck, ScheduleFails, Fault
  <2> QED
    BY <1>0, <1>00, <1>9, <2>2, <2>3, <2>4, BaseFromParts
       DEF RemoveCheck, ScheduleFails, world, queue, TypeOK, RowsInv, Queues
<1>10. CASE DeleteMonitor \/ DeleteAllForUser
  <2>1. Rest
    BY <1>00, <1>10 DEF DeleteMonitor, DeleteAllForUser
  <2>2. faults' \in Nat
    BY <1>10 DEF DeleteMonitor, DeleteAllForUser, Fault
  <2> QED
    BY <1>0, <1>10, <2>1, <2>2, BaseFromParts
       DEF DeleteMonitor, DeleteAllForUser, world, queue, TypeOK, RowsInv,
           Queues, Works
<1>11. CASE SendHeartbeatFCM
  <2>1. silence' \in Silences
    <3>1. silence' = silence \/ silence' = [silence EXCEPT !.tried = TRUE]
      BY <1>11 DEF SendHeartbeatFCM
    <3>2. [silence EXCEPT !.tried = TRUE] \in Silences
      BY Noted
    <3> QED
      BY <3>1, <3>2
  <2>2. faults' \in Nat
    BY <1>11 DEF SendHeartbeatFCM, Fault
  <2> QED
    BY <1>0, <1>00, <1>11, <2>1, <2>2, BaseFromParts
       DEF SendHeartbeatFCM, world, TypeOK, RowsInv, Queues, Works
<1>12. CASE OnPhoneHeartbeatOffline
  <2>1. PICK id \in MonitorIDs :
           /\ offline[id] > 0
           /\ offline' = [offline EXCEPT ![id] = @ - 1]
           /\ UpdatePhoneOnline(id, FALSE)
           /\ UNCHANGED <<world, used, checks, probes, worker, reporter,
                          silence, broken, faults>>
    BY <1>12 DEF OnPhoneHeartbeatOffline
  <2>2. Rest
    BY <1>000, <2>1, OnlineRows
  <2>3. offline' \in [MonitorIDs -> Nat]
    <3>1. offline[id] - 1 \in Nat
      BY <1>0, <2>1 DEF TypeOK
    <3> QED
      BY <1>0, <2>1, <3>1 DEF TypeOK
  <2> QED
    BY <1>0, <2>1, <2>2, <2>3, BaseFromParts
       DEF world, TypeOK, RowsInv, Queues, Works
<1>13. CASE Duplicate
  <2>1. PICK id \in MonitorIDs :
           /\ Fault
           /\ checks' = [checks EXCEPT ![id][0] = @ + 1]
           /\ UNCHANGED <<world, monitors, used, probes, offline, worker,
                          reporter, silence, broken>>
    BY <1>13 DEF Duplicate
  <2>2. checks' \in Queues
    BY <2>1, IntervalIsDelay DEF Queues
  <2> QED
    BY <1>0, <1>00, <2>1, <2>2, BaseFromParts
       DEF Fault, world, TypeOK, RowsInv, Works
<1> QED
  BY <1>1, <1>2, <1>3, <1>4, <1>5, <1>6, <1>7, <1>8, <1>9, <1>10, <1>11, <1>12,
     <1>13 DEF Next, UpdateNext, CheckNext

LEMMA BaseInvariant == Spec => []Base
  BY InitBase, BaseIsInductive, PTL DEF Spec

\* Every state is typed: rows, checks, probes and tasks have the IDs and delays
\* they should, and ages and delays stay in their ranges.
THEOREM MonitorTypeCorrect == Spec => []TypeOK
<1>1. Base => TypeOK
  BY DEF Base
<1> QED
  BY <1>1, BaseInvariant, PTL

----------------------------------------------------------------------------
(* What the actions do to the checks and to their handlers. *)

\* A worker takes a task up, or ends one.
LEMMA WorkerEffect ==
    ASSUME Base, NEW w \in Workers, NEW task,
           worker' = [worker EXCEPT ![w] = task]
    PROVE  /\ worker'[w] = task
           /\ \A v \in Workers : v # w => worker'[v] = worker[v]
  BY BaseFacts

\* With time, each check comes nearer.
LEMMA TickEffect ==
    ASSUME Base, Tick
    PROVE  /\ \A id \in MonitorIDs, d \in Delays :
                  checks'[id][d] > 0 => /\ d + 1 \in Delays
                                        /\ checks[id][d + 1] > 0
           /\ \A id \in MonitorIDs, d \in Delays :
                  checks[id][d] > 0 => /\ d # 0 /\ d - 1 \in Delays
                                       /\ checks'[id][d - 1] > 0
           /\ \A w \in Workers : worker[w] = Idle
           /\ worker' = worker
<1>1. checks' = [id \in MonitorIDs |-> [d \in Delays |->
                    IF d < CheckInterval THEN checks[id][d + 1] ELSE 0]]
  BY DEF Tick
<1>2. \A id \in MonitorIDs : ~(checks[id][0] > 0)
  BY DEF Tick, Busy
<1>3. \A w \in Workers : worker[w] = Idle
  BY DEF Tick, Busy
<1>4. ASSUME NEW id \in MonitorIDs, NEW d \in Delays, checks'[id][d] > 0
      PROVE  d + 1 \in Delays /\ checks[id][d + 1] > 0
  <2>1. checks'[id][d] = IF d < CheckInterval THEN checks[id][d + 1] ELSE 0
    BY <1>1
  <2>2. d < CheckInterval
    BY <1>4, <2>1
  <2> QED
    BY <1>4, <2>1, <2>2 DEF Delays
<1>5. ASSUME NEW id \in MonitorIDs, NEW d \in Delays, checks[id][d] > 0
      PROVE  d # 0 /\ d - 1 \in Delays /\ checks'[id][d - 1] > 0
  <2>1. d # 0
    BY <1>2, <1>5
  <2>2. d - 1 \in Delays /\ d - 1 < CheckInterval /\ (d - 1) + 1 = d
    BY <2>1 DEF Delays
  <2> QED
    BY <1>1, <1>5, <2>1, <2>2
<1> QED
  BY <1>3, <1>4, <1>5 DEF Tick

\* The worker that schedules a check is done, and the check is on its way.
Schedules(w) ==
    StartChecks(w) \/ MonitorQuiet(w) \/ Monitor(w) \/ MonitorUnread(w)

LEMMA SchedulesEffect ==
    ASSUME Base, NEW w \in Workers, Schedules(w)
    PROVE  /\ worker[w].id \in MonitorIDs
           /\ checks' \in Queues
           /\ \A id \in MonitorIDs, d \in Delays :
                  checks'[id][d] =
                      IF id = worker[w].id /\ d = CheckInterval
                      THEN checks[id][d] + 1 ELSE checks[id][d]
           /\ Edits(monitors, monitors')
           /\ worker'[w] = Idle
           /\ \A v \in Workers : v # w => worker'[v] = worker[v]
           /\ UNCHANGED <<world, used, reporter>>
<1>1. /\ Reschedules(worker[w].id)
      /\ worker' = [worker EXCEPT ![w] = Idle]
      /\ worker[w].step \in {"start", "check"}
      /\ UNCHANGED <<world, used, reporter>>
  BY DEF Schedules, StartChecks, MonitorQuiet, Monitor, MonitorUnread,
         ScheduleHeartbeatCheck, Reschedules
<1>2. worker[w].id \in MonitorIDs
  BY <1>1 DEF Base, RowsInv
<1> QED
  BY <1>1, <1>2, ScheduleEffect, WorkerEffect DEF Base

LEMMA ScheduledCheck ==
    ASSUME Base, NEW w \in Workers, Schedules(w)
    PROVE  checks'[worker[w].id][CheckInterval] > 0
<1>1. /\ worker[w].id \in MonitorIDs
      /\ checks'[worker[w].id][CheckInterval] =
             checks[worker[w].id][CheckInterval] + 1
  BY SchedulesEffect, IntervalIsDelay
<1>2. \A i \in MonitorIDs, d \in Delays : checks[i][d] \in Nat
  BY BaseFacts DEF Queues
<1>3. checks[worker[w].id][CheckInterval] \in Nat
  BY <1>1, <1>2, IntervalIsDelay
<1> QED
  BY <1>1, <1>3

\* A check that is taken from the queue goes to its handler, ends for want of a
\* monitor, or is scheduled again.
LoadsIt(w, id) ==
    /\ monitors # {}
    /\ worker'[w].step = "check"
    /\ worker'[w].id = Loaded.id
    /\ worker'[w].PhoneOnline = Loaded.PhoneOnline
    /\ \A i \in MonitorIDs, d \in Delays :
           checks'[i][d] = IF i = id /\ d = 0 THEN checks[i][d] - 1
                           ELSE checks[i][d]
    /\ UNCHANGED <<monitors, faults>>

EndsIt(w, id) ==
    /\ monitors = {}
    /\ worker'[w] = Idle
    /\ \A i \in MonitorIDs, d \in Delays :
           checks'[i][d] = IF i = id /\ d = 0 THEN checks[i][d] - 1
                           ELSE checks[i][d]
    /\ UNCHANGED <<monitors, faults>>

RepeatsIt(w, id) ==
    /\ worker' = worker
    /\ \A i \in MonitorIDs, d \in Delays :
           /\ checks'[i][d] > 0 => checks[i][d] > 0 \/ d = CheckInterval
           /\ checks[i][d] > 0 /\ d # 0 => checks'[i][d] > 0
    /\ checks'[id][CheckInterval] > 0
    /\ Edits(monitors, monitors')
    /\ faults' = faults + 1

LEMMA LoadMonitorEffect ==
    ASSUME Base, NEW w \in Workers, LoadMonitor(w)
    PROVE  /\ worker[w] = Idle
           /\ checks' \in Queues
           /\ \A v \in Workers : v # w => worker'[v] = worker[v]
           /\ UNCHANGED <<world, used, probes, offline, reporter, silence, broken>>
           /\ \E id \in MonitorIDs :
                  /\ checks[id][0] > 0
                  /\ \/ LoadsIt(w, id)
                     \/ EndsIt(w, id)
                     \/ RepeatsIt(w, id)
<1>1. PICK id \in MonitorIDs :
         /\ checks[id][0] > 0
         /\ LET rest == [checks EXCEPT ![id][0] = @ - 1] IN
            \/ /\ checks' = rest
               /\ worker' = [worker EXCEPT ![w] =
                      IF monitors = {} THEN Idle
                      ELSE Task("check", Loaded.id, Loaded.PhoneOnline)]
               /\ UNCHANGED <<monitors, faults>>
            \/ /\ Fault
               /\ checks' = Scheduled(rest, id)
               /\ monitors' = Touched(monitors, id)
               /\ UNCHANGED worker
  BY DEF LoadMonitor
<1> DEFINE rest == [checks EXCEPT ![id][0] = @ - 1]
<1>2. /\ rest \in Queues
      /\ \A i \in MonitorIDs, d \in Delays :
             rest[i][d] = IF i = id /\ d = 0 THEN checks[i][d] - 1
                          ELSE checks[i][d]
  BY <1>1, TakenType DEF Base
<1> HIDE DEF rest
<1>3. checks' \in Queues
  BY <1>1, <1>2, ScheduledType DEF rest
<1>4. \A v \in Workers : v # w => worker'[v] = worker[v]
  BY <1>1, WorkerEffect
<1>5. CASE /\ checks' = rest
           /\ worker' = [worker EXCEPT ![w] =
                  IF monitors = {} THEN Idle
                  ELSE Task("check", Loaded.id, Loaded.PhoneOnline)]
           /\ UNCHANGED <<monitors, faults>>
  <2>1. ASSUME monitors = {} PROVE EndsIt(w, id)
    <3>1. worker'[w] = Idle
      BY <1>5, <2>1, WorkerEffect
    <3> QED
      BY <1>2, <1>5, <2>1, <3>1 DEF EndsIt
  <2>2. ASSUME monitors # {} PROVE LoadsIt(w, id)
    <3>1. worker'[w] = Task("check", Loaded.id, Loaded.PhoneOnline)
      BY <1>5, <2>2, WorkerEffect
    <3>2. /\ worker'[w].step = "check" /\ worker'[w].id = Loaded.id
          /\ worker'[w].PhoneOnline = Loaded.PhoneOnline
      BY <3>1 DEF Task
    <3> QED
      BY <1>2, <1>5, <2>2, <3>2 DEF LoadsIt
  <2>3. EndsIt(w, id) \/ LoadsIt(w, id)
    BY <2>1, <2>2
  <2> QED
    BY <1>1, <1>3, <1>4, <2>3 DEF LoadMonitor
<1>6. CASE /\ Fault
           /\ checks' = Scheduled(rest, id)
           /\ monitors' = Touched(monitors, id)
           /\ UNCHANGED worker
  <2>1. \A i \in MonitorIDs, d \in Delays :
           checks'[i][d] = IF i = id /\ d = CheckInterval THEN rest[i][d] + 1
                           ELSE rest[i][d]
    BY <1>2, <1>6, ScheduledType
  <2>2. \A i \in MonitorIDs, d \in Delays :
           checks[i][d] \in Nat /\ rest[i][d] \in Nat
    BY <1>2, BaseFacts DEF Queues
  <2>3. Edits(monitors, monitors')
    BY <1>6, BaseFacts, TouchedRows
  <2>4. \A i \in MonitorIDs, d \in Delays :
           /\ checks'[i][d] > 0 => checks[i][d] > 0 \/ d = CheckInterval
           /\ checks[i][d] > 0 /\ d # 0 => checks'[i][d] > 0
    <3> SUFFICES ASSUME NEW i \in MonitorIDs, NEW d \in Delays
                 PROVE  /\ checks'[i][d] > 0
                           => checks[i][d] > 0 \/ d = CheckInterval
                        /\ checks[i][d] > 0 /\ d # 0 => checks'[i][d] > 0
      OBVIOUS
    <3>1. /\ checks[i][d] \in Nat /\ rest[i][d] \in Nat
          /\ rest[i][d] = IF i = id /\ d = 0 THEN checks[i][d] - 1
                          ELSE checks[i][d]
          /\ checks'[i][d] = IF i = id /\ d = CheckInterval
                             THEN rest[i][d] + 1 ELSE rest[i][d]
      BY <1>2, <2>1, <2>2
    <3> QED
      BY <3>1
  <2>5. checks'[id][CheckInterval] > 0
    BY <1>2, <2>1, <2>2, IntervalIsDelay
  <2> QED
    BY <1>1, <1>3, <1>4, <1>6, <2>3, <2>4, <2>5
       DEF RepeatsIt, Fault, LoadMonitor
<1> QED
  BY <1>1, <1>5, <1>6 DEF rest

\* A delivery that is repeated adds to the checks.
LEMMA DuplicateEffect ==
    ASSUME Base, Duplicate
    PROVE  \A i \in MonitorIDs, d \in Delays :
               /\ checks'[i][d] > 0 => checks[i][d] > 0
               /\ checks[i][d] > 0 => checks'[i][d] > 0
<1>1. PICK id \in MonitorIDs :
         checks[id][0] > 0 /\ checks' = [checks EXCEPT ![id][0] = @ + 1]
  BY DEF Duplicate
<1> SUFFICES ASSUME NEW i \in MonitorIDs, NEW d \in Delays
             PROVE  /\ checks'[i][d] > 0 => checks[i][d] > 0
                    /\ checks[i][d] > 0 => checks'[i][d] > 0
  OBVIOUS
<1>2. /\ checks[i][d] \in Nat
      /\ checks'[i][d] = IF i = id /\ d = 0 THEN checks[i][d] + 1
                         ELSE checks[i][d]
  BY <1>1, BaseFacts, IntervalIsDelay DEF Queues
<1> QED
  BY <1>1, <1>2

\* What is remembered of a silence is not forgotten before it ends.
Remembers ==
    /\ silence.tried => silence'.tried
    /\ silence.started => silence'.started
    /\ silence.aligned => silence'.aligned
    /\ silence.unread => silence'.unread
    /\ faults' >= faults

LEMMA SilenceGrows ==
    ASSUME Base, [Next]_vars
    PROVE  \/ silence' = NewSilence /\ silent' = 0 /\ faults' = faults
           \/ Remembers
<1>0. silence \in Silences /\ silent \in Nat /\ faults \in Nat
  BY BaseFacts
<1>00. ASSUME faults' = faults \/ Fault PROVE faults' >= faults
  BY <1>0, <1>00 DEF Fault
<1>1. CASE OpenWindow \/ StoreHeartbeat
  BY <1>1 DEF OpenWindow, StoreHeartbeat
<1>2. CASE SendHeartbeatFCM
  <2>1. silence' = silence \/ silence' = [silence EXCEPT !.tried = TRUE]
    BY <1>2 DEF SendHeartbeatFCM
  <2>2. faults' >= faults
    BY <1>00, <1>2 DEF SendHeartbeatFCM
  <2> QED
    BY <1>0, <2>1, <2>2, Noted DEF Remembers
<1>3. ASSUME NEW w \in Workers, StartChecks(w) \/ StoreMonitor(w)
      PROVE  Remembers
  <2>1. silence' = [silence EXCEPT !.started = TRUE]
    BY <1>3 DEF StartChecks, StoreMonitor
  <2>2. faults' >= faults
    BY <1>00, <1>3 DEF StartChecks, StoreMonitor, ScheduleHeartbeatCheck
  <2> QED
    BY <1>0, <2>1, <2>2, Noted DEF Remembers
<1>4. ASSUME NEW w \in Workers, Monitor(w) PROVE Remembers
  <2>1. worker[w].id \in MonitorIDs
    BY <1>4 DEF Monitor, Base, RowsInv
  <2>2. faults' >= faults
    BY <1>00, <1>4 DEF Monitor, ScheduleHeartbeatCheck
  <2> QED
    BY <1>0, <1>4, <2>1, <2>2, ReactEffect DEF Monitor, Remembers
<1>5. ASSUME NEW w \in Workers, MonitorUnread(w) PROVE Remembers
  BY <1>00, <1>5, UnreadEffect DEF Remembers
<1>6. ASSUME NEW w \in Workers,
             \/ PhoneUpdated(w)
             \/ LoadMonitor(w)
             \/ RemoveCheck(w)
             \/ ScheduleFails(w)
             \/ MonitorQuiet(w)
      PROVE  Remembers
  <2>1. silence' = silence
    BY <1>6 DEF PhoneUpdated, LoadMonitor, RemoveCheck, ScheduleFails, MonitorQuiet
  <2>2. faults' = faults \/ Fault
    BY <1>6 DEF PhoneUpdated, LoadMonitor, RemoveCheck, ScheduleFails,
                MonitorQuiet, ScheduleHeartbeatCheck
  <2> QED
    BY <1>00, <2>1, <2>2 DEF Remembers
<1>7. CASE \/ Tick
           \/ CloseWindow
           \/ ReporterNext
           \/ DeleteMonitor
           \/ DeleteAllForUser
           \/ OnPhoneHeartbeatOffline
           \/ Duplicate
           \/ UNCHANGED vars
  <2>1. silence' = silence
    BY <1>7 DEF Tick, CloseWindow, ReporterNext, LoadForHeartbeat,
                HandleHeartbeatWhenPhoneWasOffline, DeleteMonitor,
                DeleteAllForUser, OnPhoneHeartbeatOffline, Duplicate, vars
  <2>2. faults' = faults \/ Fault
    BY <1>7 DEF Tick, CloseWindow, ReporterNext, LoadForHeartbeat,
                HandleHeartbeatWhenPhoneWasOffline, DeleteMonitor,
                DeleteAllForUser, OnPhoneHeartbeatOffline, Duplicate, vars
  <2> QED
    BY <1>00, <2>1, <2>2 DEF Remembers
<1>8. ASSUME NEW w \in Workers,
             PhoneUpdated(w) \/ UpdateNext(w) \/ CheckNext(w)
      PROVE  Remembers
  BY <1>3, <1>4, <1>5, <1>6, <1>8 DEF UpdateNext, CheckNext
<1> QED
  BY <1>1, <1>2, <1>7, <1>8 DEF Next

\* A worker that is idle has no step to make.
LEMMA IdleSteps ==
    ASSUME NEW w \in Workers, worker[w] = Idle
    PROVE  worker[w].step = "idle"
  BY DEF Idle

----------------------------------------------------------------------------
(* The monitor is watched. *)

LEMMA InitWatched == Init => MonitorIsWatched
  BY DEF Init, MonitorIsWatched

LEMMA EditsKeepNone ==
    ASSUME Edits(monitors, monitors')
    PROVE  monitors' = {} <=> monitors = {}
  BY DEF Edits, Edited

\* What is not touched is watched as before.
LEMMA StillWatched ==
    ASSUME MonitorIsWatched, monitors # {}, ~broken,
           UNCHANGED <<checks, worker>>
    PROVE  Watched'
  BY DEF MonitorIsWatched, Watched

LEMMA WatchedIsKept == Base /\ MonitorIsWatched /\ [Next]_vars => MonitorIsWatched'
<1> SUFFICES ASSUME Base, MonitorIsWatched, [Next]_vars, monitors' # {}, ~broken'
             PROVE  Watched'
  BY DEF MonitorIsWatched
<1> USE BaseFacts
<1>1. CASE Tick
  <2>1. monitors # {} /\ ~broken
    BY <1>1, OlderRows, EditsKeepNone DEF Tick
  <2>2. PICK id \in MonitorIDs, d \in Delays : checks[id][d] > 0
    BY <1>1, <2>1, TickEffect, IdleSteps DEF MonitorIsWatched, Watched
  <2> QED
    BY <1>1, <2>2, TickEffect DEF Watched
<1>2. CASE \/ OpenWindow
           \/ CloseWindow
           \/ StoreHeartbeat
           \/ LoadForHeartbeat
           \/ SendHeartbeatFCM
           \/ DeleteMonitor
           \/ DeleteAllForUser
           \/ UNCHANGED vars
  <2>1. monitors # {} /\ UNCHANGED <<broken, checks, worker>>
    BY <1>2 DEF OpenWindow, CloseWindow, StoreHeartbeat, LoadForHeartbeat,
                SendHeartbeatFCM, DeleteMonitor, DeleteAllForUser, vars, queue
  <2> QED
    BY <2>1, StillWatched
<1>3. CASE HandleHeartbeatWhenPhoneWasOffline \/ OnPhoneHeartbeatOffline
  <2>1. monitors # {} /\ ~broken /\ UNCHANGED <<checks, worker>>
    <3>1. CASE HandleHeartbeatWhenPhoneWasOffline
      BY <3>1, OnlineRows, EditsKeepNone
         DEF HandleHeartbeatWhenPhoneWasOffline, queue
    <3>2. CASE OnPhoneHeartbeatOffline
      <4>1. PICK id \in MonitorIDs :
               /\ UpdatePhoneOnline(id, FALSE)
               /\ UNCHANGED <<checks, worker, broken>>
        BY <3>2 DEF OnPhoneHeartbeatOffline
      <4> QED
        BY <4>1, OnlineRows, EditsKeepNone
    <3> QED
      BY <1>3, <3>1, <3>2
  <2> QED
    BY <2>1, StillWatched
<1>4. ASSUME NEW w \in Workers, PhoneUpdated(w) PROVE Watched'
  <2>1. worker[w].step = "idle" /\ monitors # {} /\ ~broken /\ checks' = checks
    BY <1>4, IdleSteps DEF PhoneUpdated, queue
  <2>2. \A v \in Workers : v # w => worker'[v] = worker[v]
    BY <1>4, WorkerEffect DEF PhoneUpdated
  <2> QED
    BY <2>1, <2>2 DEF MonitorIsWatched, Watched
<1>5. ASSUME NEW w \in Workers, StoreMonitor(w) PROVE Watched'
  <2>1. worker'[w].step = "start"
    BY <1>5 DEF StoreMonitor, Task
  <2> QED
    BY <2>1 DEF Watched
<1>6. ASSUME NEW w \in Workers, Schedules(w) PROVE Watched'
  <2>1. checks'[worker[w].id][CheckInterval] > 0 /\ worker[w].id \in MonitorIDs
    BY <1>6, ScheduledCheck, SchedulesEffect
  <2> QED
    BY <2>1, IntervalIsDelay DEF Watched
<1>7. ASSUME NEW w \in Workers, LoadMonitor(w) PROVE Watched'
  <2>1. PICK id \in MonitorIDs :
           LoadsIt(w, id) \/ EndsIt(w, id) \/ RepeatsIt(w, id)
    BY <1>7, LoadMonitorEffect
  <2>2. CASE LoadsIt(w, id)
    BY <2>2 DEF LoadsIt, Watched
  <2>3. CASE EndsIt(w, id)
    BY <2>3 DEF EndsIt
  <2>4. CASE RepeatsIt(w, id)
    BY <2>4, IntervalIsDelay DEF RepeatsIt, Watched
  <2> QED
    BY <2>1, <2>2, <2>3, <2>4
<1>8. ASSUME NEW w \in Workers, RemoveCheck(w) \/ ScheduleFails(w)
      PROVE  FALSE
  BY <1>8 DEF RemoveCheck, ScheduleFails
<1>9. CASE Duplicate
  <2>1. monitors # {} /\ ~broken /\ worker' = worker
    BY <1>9 DEF Duplicate
  <2> QED
    BY <1>9, <2>1, DuplicateEffect DEF MonitorIsWatched, Watched
<1> QED
  BY <1>1, <1>2, <1>3, <1>4, <1>5, <1>6, <1>7, <1>8, <1>9
     DEF Next, ReporterNext, UpdateNext, CheckNext, Schedules

\* A number that has a monitor has a check on its way, in hand or about to be
\* started, unless the code gave the chain up: through heartbeats, quiet hours,
\* phones that are deleted and added, and rows that could not be read.
THEOREM MonitorStaysWatched == Spec => []MonitorIsWatched
<1>1. Init => Base /\ MonitorIsWatched
  BY InitBase, InitWatched
<1>2. Base /\ MonitorIsWatched /\ [Next]_vars => (Base /\ MonitorIsWatched)'
  BY BaseIsInductive, WatchedIsKept
<1> QED
  BY <1>1, <1>2, PTL DEF Spec

----------------------------------------------------------------------------
(* One alarm a silence. *)

\* After an alarm, and as long as another could be raised, a check is on its way
\* that comes when it is too late for that, unless one raised an alarm early for
\* want of the windows.
AlarmInv ==
    silence.alarms > 0 /\ ~silence.unread /\ silent < 5 * CheckInterval =>
        \E id \in MonitorIDs, d \in Delays :
            checks[id][d] > 0 /\ silent + d >= 5 * CheckInterval

\* Such a check is not due yet, so nobody takes it.
LEMMA AlarmStays ==
    ASSUME Base, AlarmInv, silent' = silent,
           silence'.alarms > 0 => silence.alarms > 0,
           silence.unread => silence'.unread,
           \A id \in MonitorIDs, d \in Delays :
               checks[id][d] > 0 /\ d # 0 => checks'[id][d] > 0
    PROVE  AlarmInv'
<1> SUFFICES ASSUME silence'.alarms > 0, ~silence'.unread,
                    silent < 5 * CheckInterval
             PROVE  \E id \in MonitorIDs, d \in Delays :
                        checks'[id][d] > 0 /\ silent + d >= 5 * CheckInterval
  BY DEF AlarmInv
<1>1. PICK id \in MonitorIDs, d \in Delays :
         checks[id][d] > 0 /\ silent + d >= 5 * CheckInterval
  BY DEF AlarmInv
<1>2. d # 0
  BY <1>1, BaseFacts
<1> QED
  BY <1>1, <1>2

\* The alarms counted change where one is raised and where a silence begins.
LEMMA AlarmsOf ==
    ASSUME Base, [Next]_vars
    PROVE  \/ silence'.alarms = silence.alarms
           \/ silent' = 0 /\ silence' = NewSilence /\ silence'.alarms = 0
           \/ \E w \in Workers :
                  /\ Monitor(w)
                  /\ IsFailed(silent, worker[w].PhoneOnline)
                  /\ silence'.alarms = silence.alarms + 1
           \/ /\ \E w \in Workers : MonitorUnread(w)
              /\ silence'.unread /\ faults' > 0 /\ silent < 5 * CheckInterval
              /\ silence'.alarms = silence.alarms + 1
<1>0. silence \in Silences /\ silent \in Nat /\ faults \in Nat
  BY BaseFacts
<1> DEFINE Raised(w) == /\ Monitor(w)
                        /\ IsFailed(silent, worker[w].PhoneOnline)
                        /\ silence'.alarms = silence.alarms + 1
           Early == /\ \E w \in Workers : MonitorUnread(w)
                    /\ silence'.unread /\ faults' > 0 /\ silent < 5 * CheckInterval
                    /\ silence'.alarms = silence.alarms + 1
<1> SUFFICES ASSUME silence'.alarms # silence.alarms,
                    ~\E w \in Workers : Raised(w), ~Early
             PROVE  silent' = 0 /\ silence' = NewSilence /\ silence'.alarms = 0
  OBVIOUS
<1>1. CASE OpenWindow \/ StoreHeartbeat
  <2>1. silence' = NewSilence /\ silent' = 0
    BY <1>1 DEF OpenWindow, StoreHeartbeat
  <2> QED
    BY <2>1 DEF NewSilence
<1>2. CASE SendHeartbeatFCM
  <2>1. silence' = silence \/ silence' = [silence EXCEPT !.tried = TRUE]
    BY <1>2 DEF SendHeartbeatFCM
  <2> QED
    BY <1>0, <2>1, Noted
<1>3. ASSUME NEW w \in Workers, StartChecks(w) \/ StoreMonitor(w) PROVE FALSE
  <2>1. silence' = [silence EXCEPT !.started = TRUE]
    BY <1>3 DEF StartChecks, StoreMonitor
  <2> QED
    BY <1>0, <2>1, Noted
<1>4. ASSUME NEW w \in Workers, Monitor(w) PROVE FALSE
  <2>1. worker[w].id \in MonitorIDs /\ React(w, silent, silence)
    BY <1>4 DEF Monitor, Base, RowsInv
  <2> QED
    BY <1>0, <1>4, <2>1, ReactEffect
<1>5. ASSUME NEW w \in Workers, MonitorUnread(w) PROVE FALSE
  <2>1. /\ silence'.unread /\ faults' = faults + 1 /\ silent < 5 * CheckInterval
        /\ silence'.alarms = silence.alarms + 1
    BY <1>5, UnreadEffect
  <2> QED
    BY <1>0, <1>5, <2>1
<1>6. ASSUME NEW w \in Workers,
             \/ PhoneUpdated(w)
             \/ LoadMonitor(w)
             \/ RemoveCheck(w)
             \/ ScheduleFails(w)
             \/ MonitorQuiet(w)
      PROVE  FALSE
  BY <1>6 DEF PhoneUpdated, LoadMonitor, RemoveCheck, ScheduleFails, MonitorQuiet
<1>7. CASE \/ Tick
           \/ CloseWindow
           \/ ReporterNext
           \/ DeleteMonitor
           \/ DeleteAllForUser
           \/ OnPhoneHeartbeatOffline
           \/ Duplicate
           \/ UNCHANGED vars
  <2>1. silence' = silence
    BY <1>7 DEF Tick, CloseWindow, ReporterNext, LoadForHeartbeat,
                HandleHeartbeatWhenPhoneWasOffline, DeleteMonitor,
                DeleteAllForUser, OnPhoneHeartbeatOffline, Duplicate, vars
  <2> QED
    BY <2>1
<1> HIDE DEF Raised, Early
<1> QED
  BY <1>1, <1>2, <1>3, <1>4, <1>5, <1>6, <1>7 DEF Next, UpdateNext, CheckNext

\* But for time, and but for the handlers that take or schedule one, nothing
\* moves a check; and none but a check that is due is taken.
LEMMA ChecksStay ==
    ASSUME Base, [Next]_vars, ~Tick
    PROVE  \A id \in MonitorIDs, d \in Delays :
               checks[id][d] > 0 /\ d # 0 => checks'[id][d] > 0
<1> SUFFICES ASSUME NEW id \in MonitorIDs, NEW d \in Delays,
                    checks[id][d] > 0, d # 0
             PROVE  checks'[id][d] > 0
  OBVIOUS
<1>0. checks[id][d] \in Nat
  BY BaseFacts DEF Queues
<1>1. ASSUME NEW w \in Workers, Schedules(w) PROVE checks'[id][d] > 0
  <2>1. checks'[id][d] = IF id = worker[w].id /\ d = CheckInterval
                         THEN checks[id][d] + 1 ELSE checks[id][d]
    BY <1>1, SchedulesEffect
  <2> QED
    BY <1>0, <2>1
<1>2. ASSUME NEW w \in Workers, LoadMonitor(w) PROVE checks'[id][d] > 0
  BY <1>2, LoadMonitorEffect DEF LoadsIt, EndsIt, RepeatsIt
<1>3. CASE Duplicate
  BY <1>3, DuplicateEffect
<1>4. ASSUME NEW w \in Workers,
             \/ PhoneUpdated(w)
             \/ StoreMonitor(w)
             \/ RemoveCheck(w)
             \/ ScheduleFails(w)
      PROVE  checks'[id][d] > 0
  BY <1>4 DEF PhoneUpdated, StoreMonitor, RemoveCheck, ScheduleFails, queue
<1>5. CASE \/ OpenWindow
           \/ CloseWindow
           \/ StoreHeartbeat
           \/ ReporterNext
           \/ DeleteMonitor
           \/ DeleteAllForUser
           \/ SendHeartbeatFCM
           \/ OnPhoneHeartbeatOffline
           \/ UNCHANGED vars
  <2>1. checks' = checks
    BY <1>5 DEF OpenWindow, CloseWindow, StoreHeartbeat, ReporterNext,
                LoadForHeartbeat, HandleHeartbeatWhenPhoneWasOffline,
                DeleteMonitor, DeleteAllForUser, SendHeartbeatFCM,
                OnPhoneHeartbeatOffline, vars, queue
  <2> QED
    BY <2>1
<1> QED
  <2>1. ASSUME NEW w \in Workers,
               PhoneUpdated(w) \/ UpdateNext(w) \/ CheckNext(w)
        PROVE  checks'[id][d] > 0
    BY <1>1, <1>2, <1>4, <2>1 DEF UpdateNext, CheckNext, Schedules
  <2> QED
    BY <1>3, <1>5, <2>1 DEF Next

\* The silence goes on with time, begins anew, or is that of a phone that was
\* never heard.
LEMMA SilentOf ==
    ASSUME Base, [Next]_vars
    PROVE  \/ Tick
           \/ silent' = 0 /\ silence' = NewSilence
           \/ silent' = Forever /\ ~heard'
           \/ silent' = silent /\ heard' = heard
<1>1. CASE OpenWindow \/ StoreHeartbeat
  BY <1>1 DEF OpenWindow, StoreHeartbeat
<1>2. CASE DeleteAllForUser
  BY <1>2 DEF DeleteAllForUser
<1>3. CASE \/ CloseWindow
           \/ ReporterNext
           \/ DeleteMonitor
           \/ SendHeartbeatFCM
           \/ OnPhoneHeartbeatOffline
           \/ Duplicate
           \/ UNCHANGED vars
  <2>1. silent' = silent /\ heard' = heard
    BY <1>3 DEF CloseWindow, ReporterNext, LoadForHeartbeat,
                HandleHeartbeatWhenPhoneWasOffline, DeleteMonitor,
                SendHeartbeatFCM, OnPhoneHeartbeatOffline, Duplicate, vars, world
  <2> QED
    BY <2>1
<1>4. ASSUME NEW w \in Workers,
             \/ PhoneUpdated(w)
             \/ UpdateNext(w)
             \/ CheckNext(w)
      PROVE  silent' = silent /\ heard' = heard
  BY <1>4 DEF PhoneUpdated, UpdateNext, StoreMonitor, StartChecks, CheckNext,
              LoadMonitor, RemoveCheck, ScheduleFails, MonitorQuiet, Monitor,
              MonitorUnread, world
<1> QED
  BY <1>1, <1>2, <1>3, <1>4 DEF Next

LEMMA IntervalFacts ==
    /\ CheckInterval \in Nat /\ CheckInterval >= 1
    /\ Forever \in Nat /\ Forever > 5 * CheckInterval
  BY DEF Forever

LEMMA InitAlarm == Init => AlarmInv
  BY DEF Init, AlarmInv, NewSilence

LEMMA AlarmIsKept == Base /\ AlarmInv /\ [Next]_vars => AlarmInv'
<1> SUFFICES ASSUME Base, AlarmInv, [Next]_vars PROVE AlarmInv'
  OBVIOUS
<1>0. silent \in Nat /\ silence.alarms \in Nat
  BY BaseFacts DEF Silences
<1>1. CASE Tick
  <2> SUFFICES ASSUME silence'.alarms > 0, ~silence'.unread,
                      silent' < 5 * CheckInterval
               PROVE  \E id \in MonitorIDs, d \in Delays :
                          checks'[id][d] > 0 /\ silent' + d >= 5 * CheckInterval
    BY DEF AlarmInv
  <2>1. silence' = silence /\ silent' = Older(silent)
    BY <1>1 DEF Tick
  <2>2. silent' = silent + 1 /\ silent < 5 * CheckInterval
    BY <1>0, <2>1, IntervalFacts DEF Older
  <2>3. PICK id \in MonitorIDs, d \in Delays :
           checks[id][d] > 0 /\ silent + d >= 5 * CheckInterval
    BY <2>1, <2>2 DEF AlarmInv
  <2>4. d - 1 \in Delays /\ checks'[id][d - 1] > 0
    BY <1>1, <2>3, TickEffect
  <2>5. silent' + (d - 1) >= 5 * CheckInterval
    BY <1>0, <2>2, <2>3, IntervalFacts DEF Delays
  <2> QED
    BY <2>4, <2>5
<1>2. CASE silence' = NewSilence
  BY <1>2 DEF AlarmInv, NewSilence
<1>3. CASE silent' = Forever
  BY <1>3, IntervalFacts DEF AlarmInv
<1>4. CASE silent' = silent /\ ~Tick /\ silence' # NewSilence
  <2>1. CASE silence'.alarms = silence.alarms
    <3>1. silence.unread => silence'.unread
      BY <1>4, SilenceGrows DEF Remembers
    <3> QED
      BY <1>4, <2>1, <3>1, AlarmStays, ChecksStay
  <2>2. CASE \E w \in Workers :
                /\ Monitor(w)
                /\ IsFailed(silent, worker[w].PhoneOnline)
    <3>1. PICK w \in Workers :
             Monitor(w) /\ IsFailed(silent, worker[w].PhoneOnline)
      BY <2>2
    <3>2. silent > 4 * CheckInterval
      BY <3>1 DEF IsFailed
    <3>3. worker[w].id \in MonitorIDs
      BY <3>1, SchedulesEffect DEF Schedules
    <3>5. checks'[worker[w].id][CheckInterval] > 0
      BY <3>1, ScheduledCheck DEF Schedules
    <3>6. silent' + CheckInterval >= 5 * CheckInterval
      BY <1>0, <1>4, <3>2, IntervalFacts
    <3> QED
      BY <3>3, <3>5, <3>6, IntervalIsDelay DEF AlarmInv
  <2>3. CASE silence'.unread
    BY <2>3 DEF AlarmInv
  <2> QED
    BY <1>4, <2>1, <2>2, <2>3, AlarmsOf
<1> QED
  BY <1>1, <1>2, <1>3, <1>4, SilentOf

LEMMA AlarmInvariant == Spec => [](Base /\ AlarmInv)
<1>1. Init => Base /\ AlarmInv
  BY InitBase, InitAlarm
<1>2. Base /\ AlarmInv /\ [Next]_vars => (Base /\ AlarmInv)'
  BY BaseIsInductive, AlarmIsKept
<1> QED
  BY <1>1, <1>2, PTL DEF Spec

\* A second alarm in one silence takes a second check: the chain that raised the
\* first comes too late for another.
THEOREM OneAlarmRaised == Spec => OneAlarmPerSilence
<1> DEFINE Step == silence'.alarms > silence.alarms
                   => \/ silence.alarms = 0 \/ silence.unread
                      \/ \E id \in MonitorIDs, d \in Delays : checks[id][d] > 0
<1>1. Base /\ AlarmInv /\ [Next]_vars => [Step]_vars
  <2> SUFFICES ASSUME Base, AlarmInv, [Next]_vars,
                      silence'.alarms > silence.alarms, silence.alarms # 0,
                      ~silence.unread
               PROVE  \E id \in MonitorIDs, d \in Delays : checks[id][d] > 0
    OBVIOUS
  <2>1. silence.alarms \in Nat
    BY BaseFacts DEF Silences
  <2>2. \/ \E w \in Workers : IsFailed(silent, worker[w].PhoneOnline)
        \/ silent < 5 * CheckInterval
    BY <2>1, AlarmsOf
  <2>3. silent < 5 * CheckInterval
    BY <2>2 DEF IsFailed
  <2> QED
    BY <2>1, <2>3 DEF AlarmInv
<1> QED
  BY <1>1, AlarmInvariant, PTL DEF Spec, OneAlarmPerSilence

----------------------------------------------------------------------------
(* A silence in which nothing went wrong and no chain was started. *)

Ready == faults = 0 /\ heard /\ ~quiet /\ ~silence.started

\* The steps that leave such a silence as one: one begins, or it goes on.
LoadsReady(w) ==
    /\ LoadMonitor(w)
    /\ \E id \in MonitorIDs :
           checks[id][0] > 0 /\ (LoadsIt(w, id) \/ EndsIt(w, id))

LEMMA ReadySteps ==
    ASSUME Base, [Next]_vars, Ready'
    PROVE  \/ silent' = 0
           \/ Ready /\ Tick
           \/ /\ Ready /\ silent' = silent
              /\ \/ \E w \in Workers : Monitor(w)
                 \/ \E w \in Workers : LoadsReady(w)
                 \/ \E w \in Workers : PhoneUpdated(w)
                 \/ SendHeartbeatFCM
                 \/ LoadForHeartbeat
                 \/ HandleHeartbeatWhenPhoneWasOffline
                 \/ DeleteMonitor
                 \/ OnPhoneHeartbeatOffline
                 \/ UNCHANGED vars
<1> SUFFICES ASSUME silent' # 0
             PROVE  \/ Ready /\ Tick
                    \/ /\ Ready /\ silent' = silent
                       /\ \/ \E w \in Workers : Monitor(w)
                          \/ \E w \in Workers : LoadsReady(w)
                          \/ \E w \in Workers : PhoneUpdated(w)
                          \/ SendHeartbeatFCM
                          \/ LoadForHeartbeat
                          \/ HandleHeartbeatWhenPhoneWasOffline
                          \/ DeleteMonitor
                          \/ OnPhoneHeartbeatOffline
                          \/ UNCHANGED vars
  OBVIOUS
<1>0. faults \in Nat /\ faults' \in Nat
  BY BaseIsInductive DEF Base, TypeOK
<1>1. faults = 0 /\ ~silence.started /\ faults' = faults
  BY <1>0, SilenceGrows DEF Ready, Remembers
<1>2. ~OpenWindow /\ ~StoreHeartbeat
  BY DEF OpenWindow, StoreHeartbeat
<1>3. ~DeleteAllForUser /\ ~CloseWindow
  BY DEF DeleteAllForUser, CloseWindow, Ready
<1>4. ~Fault
  BY <1>0, <1>1 DEF Fault
<1>5. Ready /\ (Tick \/ silent' = silent)
  <2>1. CASE Tick
    BY <1>1, <2>1 DEF Tick, Ready
  <2>2. CASE ~Tick
    <3>1. silent' = silent /\ heard' = heard
      BY <1>2, <2>2, SilentOf DEF Ready
    <3>2. quiet' = quiet
      <4>1. CASE \/ ReporterNext
                 \/ DeleteMonitor
                 \/ SendHeartbeatFCM
                 \/ OnPhoneHeartbeatOffline
                 \/ Duplicate
                 \/ UNCHANGED vars
        BY <4>1 DEF ReporterNext, LoadForHeartbeat,
                    HandleHeartbeatWhenPhoneWasOffline, DeleteMonitor,
                    SendHeartbeatFCM, OnPhoneHeartbeatOffline, Duplicate, vars,
                    world
      <4>2. ASSUME NEW w \in Workers,
                   \/ PhoneUpdated(w)
                   \/ UpdateNext(w)
                   \/ CheckNext(w)
            PROVE  quiet' = quiet
        BY <4>2 DEF PhoneUpdated, UpdateNext, StoreMonitor, StartChecks,
                    CheckNext, LoadMonitor, RemoveCheck, ScheduleFails,
                    MonitorQuiet, Monitor, MonitorUnread, world
      <4> QED
        BY <1>2, <1>3, <2>2, <4>1, <4>2 DEF Next
    <3> QED
      BY <1>1, <3>1, <3>2 DEF Ready
  <2> QED
    BY <2>1, <2>2
<1>6. ASSUME NEW w \in Workers,
             PhoneUpdated(w) \/ UpdateNext(w) \/ CheckNext(w)
      PROVE  \/ Monitor(w)
             \/ LoadsReady(w)
             \/ PhoneUpdated(w)
  <2>1. ~StartChecks(w) /\ ~StoreMonitor(w)
    <3> SUFFICES ASSUME silence' = [silence EXCEPT !.started = TRUE] PROVE FALSE
      BY DEF StartChecks, StoreMonitor
    <3>1. silence'.started
      BY BaseFacts, Noted
    <3> QED
      BY <3>1 DEF Ready
  <2>2. /\ ~RemoveCheck(w) /\ ~ScheduleFails(w) /\ ~MonitorQuiet(w)
        /\ ~MonitorUnread(w)
    BY <1>4, <1>5 DEF RemoveCheck, ScheduleFails, MonitorQuiet, MonitorUnread, Ready
  <2>3. ASSUME LoadMonitor(w) PROVE LoadsReady(w)
    <3>1. PICK id \in MonitorIDs :
             /\ checks[id][0] > 0
             /\ LoadsIt(w, id) \/ EndsIt(w, id) \/ RepeatsIt(w, id)
      BY <2>3, LoadMonitorEffect
    <3>2. ~RepeatsIt(w, id)
      BY <1>0, <1>1 DEF RepeatsIt
    <3> QED
      BY <2>3, <3>1, <3>2 DEF LoadsReady
  <2> QED
    BY <1>6, <2>1, <2>2, <2>3 DEF UpdateNext, CheckNext
<1>7. ~Duplicate
  BY <1>4 DEF Duplicate
<1> QED
  BY <1>2, <1>3, <1>5, <1>6, <1>7 DEF Next, ReporterNext

----------------------------------------------------------------------------
(* The phone was asked. *)

\* A check on its way was scheduled by one that found the phone silent for
\* silent - (CheckInterval - d).  If that was late, it left a probe that is due
\* together with the new check; if the one before it had been late as well, the
\* probe of that one was due at the same time as the check.
AskedInv ==
    Ready =>
        /\ \A id \in MonitorIDs, d \in Delays :
               checks[id][d] > 0 =>
                   /\ silent + d > 2 * CheckInterval
                      => silence.tried \/ d \in probes
                   /\ silent + d > 3 * CheckInterval
                      => silence.tried \/ (d = CheckInterval /\ 0 \in probes)
        /\ \A w \in Workers :
               worker[w].step = "check" =>
                   /\ silent > 2 * CheckInterval
                      => silence.tried \/ 0 \in probes
                   /\ silent > 3 * CheckInterval => silence.tried

LEMMA AskedStays ==
    ASSUME AskedInv, Ready, silent' = silent, probes' = probes,
           silence.tried => silence'.tried,
           \A id \in MonitorIDs, d \in Delays :
               checks'[id][d] > 0 => checks[id][d] > 0,
           \A w \in Workers :
               worker'[w].step = "check" => worker[w].step = "check"
    PROVE  AskedInv'
  BY DEF AskedInv

LEMMA AskedIsKept == Base /\ AskedInv /\ [Next]_vars => AskedInv'
<1> SUFFICES ASSUME Base, AskedInv, [Next]_vars, Ready' PROVE AskedInv'
  BY DEF AskedInv
<1>0. /\ silent \in Nat /\ silent <= Forever
      /\ \A id \in MonitorIDs, d \in Delays : checks[id][d] \in Nat
      /\ \A d \in Delays : d \in Nat /\ d <= CheckInterval
  BY BaseFacts, IntervalFacts DEF Queues, Delays, Ages
<1>1. CASE silent' = 0
  BY <1>0, <1>1, IntervalFacts DEF AskedInv
<1>2. CASE Ready /\ Tick
  <2>1. /\ silence' = silence /\ ~(0 \in probes)
        /\ probes' = { d - 1 : d \in probes }
        /\ silent' = Older(silent)
    BY <1>2 DEF Tick, Busy
  <2>2. silent' \in Nat /\ silent' <= silent + 1
    BY <1>0, <2>1, IntervalFacts DEF Older
  <2>3. \A w \in Workers : worker'[w].step # "check"
    BY <1>2, TickEffect, IdleSteps
  <2>4. ASSUME NEW id \in MonitorIDs, NEW d \in Delays, checks'[id][d] > 0
        PROVE  /\ silent' + d > 2 * CheckInterval
                  => silence.tried \/ d \in probes'
               /\ silent' + d > 3 * CheckInterval => silence.tried
    <3>1. d + 1 \in Delays /\ checks[id][d + 1] > 0
      BY <1>2, <2>4, TickEffect
    <3>2. /\ silent + (d + 1) > 2 * CheckInterval
             => silence.tried \/ d + 1 \in probes
          /\ silent + (d + 1) > 3 * CheckInterval => silence.tried
      BY <1>2, <2>1, <3>1 DEF AskedInv
    <3>3. d + 1 \in probes => d \in probes'
      <4>1. (d + 1) - 1 = d
        BY <1>0
      <4> QED
        BY <2>1, <4>1
    <3>4. silent + (d + 1) >= silent' + d
      BY <1>0, <2>2
    <3> QED
      BY <1>0, <2>2, <3>2, <3>3, <3>4, IntervalFacts
  <2> QED
    BY <2>1, <2>3, <2>4 DEF AskedInv
<1>00. ASSUME silent' # 0
       PROVE  silence.tried => silence'.tried
  BY <1>00, SilenceGrows DEF Remembers
<1>3. ASSUME Ready, silent' = silent, silent' # 0, NEW w \in Workers, Monitor(w)
      PROVE  AskedInv'
  <2>1. /\ worker[w].step = "check"
        /\ probes' = IF IsMissed(silent) THEN probes \cup {CheckInterval}
                     ELSE probes
    BY <1>3 DEF Monitor, React
  <2>2. silence.tried => silence'.tried
    BY <1>3, <1>00
  <2>3. /\ \A id \in MonitorIDs, d \in Delays :
               checks'[id][d] > 0 => checks[id][d] > 0 \/ d = CheckInterval
        /\ \A v \in Workers :
               worker'[v].step = "check" => worker[v].step = "check"
    <3>1. /\ \A id \in MonitorIDs, d \in Delays :
                checks'[id][d] = IF id = worker[w].id /\ d = CheckInterval
                                 THEN checks[id][d] + 1 ELSE checks[id][d]
          /\ worker'[w] = Idle
          /\ \A v \in Workers : v # w => worker'[v] = worker[v]
      BY <1>3, SchedulesEffect DEF Schedules
    <3>2. worker'[w].step # "check"
      BY <3>1 DEF Idle
    <3> QED
      BY <3>1, <3>2
  <2>4. /\ silent > 2 * CheckInterval => silence.tried \/ 0 \in probes
        /\ silent > 3 * CheckInterval => silence.tried
    BY <1>3, <2>1 DEF AskedInv
  <2>5. probes \subseteq probes'
    BY <2>1
  <2>6. silent > CheckInterval => silence.tried \/ CheckInterval \in probes'
    <3>1. CASE silent < 5 * CheckInterval
      BY <2>1, <3>1 DEF IsMissed
    <3>2. CASE ~(silent < 5 * CheckInterval)
      BY <1>0, <2>4, <3>2, IntervalFacts
    <3> QED
      BY <3>1, <3>2
  <2>7. ASSUME NEW id \in MonitorIDs, NEW d \in Delays, checks'[id][d] > 0
        PROVE  /\ silent + d > 2 * CheckInterval
                  => silence.tried \/ d \in probes'
               /\ silent + d > 3 * CheckInterval
                  => silence.tried \/ (d = CheckInterval /\ 0 \in probes')
    <3>1. CASE checks[id][d] > 0
      BY <1>3, <2>5, <3>1 DEF AskedInv
    <3>2. CASE d = CheckInterval
      BY <1>0, <2>4, <2>5, <2>6, <3>2, IntervalFacts
    <3> QED
      BY <2>3, <2>7, <3>1, <3>2
  <2>8. ASSUME NEW v \in Workers, worker'[v].step = "check"
        PROVE  /\ silent > 2 * CheckInterval => silence.tried \/ 0 \in probes'
               /\ silent > 3 * CheckInterval => silence.tried
    BY <1>3, <2>3, <2>5, <2>8 DEF AskedInv
  <2> QED
    BY <1>3, <2>2, <2>7, <2>8 DEF AskedInv
<1>4. ASSUME Ready, silent' = silent, silent' # 0, NEW w \in Workers, LoadsReady(w)
      PROVE  AskedInv'
  <2>1. PICK id \in MonitorIDs :
           checks[id][0] > 0 /\ (LoadsIt(w, id) \/ EndsIt(w, id))
    BY <1>4 DEF LoadsReady
  <2>2. /\ probes' = probes
        /\ \A v \in Workers : v # w => worker'[v] = worker[v]
    BY <1>4, LoadMonitorEffect DEF LoadsReady
  <2>3. ASSUME NEW i \in MonitorIDs, NEW d \in Delays, checks'[i][d] > 0
        PROVE  checks[i][d] > 0
    <3>1. checks'[i][d] = IF i = id /\ d = 0 THEN checks[i][d] - 1
                          ELSE checks[i][d]
      BY <2>1 DEF LoadsIt, EndsIt
    <3>2. checks[i][d] \in Nat
      BY <1>0
    <3> QED
      BY <2>3, <3>1, <3>2
  <2>4. /\ silent + 0 > 2 * CheckInterval => silence.tried \/ 0 \in probes
        /\ silent + 0 > 3 * CheckInterval => silence.tried
    BY <1>4, <2>1, IntervalIsDelay, IntervalFacts DEF AskedInv
  <2>5. ASSUME NEW v \in Workers, worker'[v].step = "check"
        PROVE  /\ silent > 2 * CheckInterval => silence.tried \/ 0 \in probes
               /\ silent > 3 * CheckInterval => silence.tried
    <3>1. CASE v = w
      BY <1>0, <2>4
    <3>2. CASE v # w
      BY <1>4, <2>2, <2>5, <3>2 DEF AskedInv
    <3> QED
      BY <3>1, <3>2
  <2>6. ASSUME NEW i \in MonitorIDs, NEW d \in Delays, checks'[i][d] > 0
        PROVE  /\ silent + d > 2 * CheckInterval
                  => silence.tried \/ d \in probes
               /\ silent + d > 3 * CheckInterval
                  => silence.tried \/ (d = CheckInterval /\ 0 \in probes)
    BY <1>4, <2>3, <2>6 DEF AskedInv
  <2> QED
    BY <1>4, <1>00, <2>2, <2>5, <2>6 DEF AskedInv
<1>5. ASSUME Ready, silent' = silent, silent' # 0, NEW w \in Workers,
             PhoneUpdated(w)
      PROVE  AskedInv'
  <2>1. probes' = probes /\ checks' = checks
    BY <1>5 DEF PhoneUpdated, queue
  <2>2. \A v \in Workers : v # w => worker'[v] = worker[v]
    BY <1>5, WorkerEffect DEF PhoneUpdated
  <2>3. worker'[w].step # "check"
    BY <1>5, WorkerEffect DEF PhoneUpdated, Task, Idle
  <2> QED
    BY <1>5, <1>00, <2>1, <2>2, <2>3, AskedStays
<1>6. ASSUME Ready, silent' = silent, SendHeartbeatFCM
      PROVE  AskedInv'
  <2>1. silence' = [silence EXCEPT !.tried = TRUE]
    BY <1>6 DEF SendHeartbeatFCM, Ready
  <2>2. silence'.tried
    BY <2>1, BaseFacts, Noted
  <2> QED
    BY <2>2 DEF AskedInv
<1>7. ASSUME Ready, silent' = silent, silent' # 0,
             \/ LoadForHeartbeat
             \/ HandleHeartbeatWhenPhoneWasOffline
             \/ DeleteMonitor
             \/ OnPhoneHeartbeatOffline
             \/ UNCHANGED vars
      PROVE  AskedInv'
  <2>1. probes' = probes /\ checks' = checks /\ worker' = worker
    BY <1>7 DEF LoadForHeartbeat, HandleHeartbeatWhenPhoneWasOffline,
                DeleteMonitor, OnPhoneHeartbeatOffline, vars, queue
  <2> QED
    BY <1>7, <1>00, <2>1, AskedStays
<1> QED
  BY <1>1, <1>2, <1>3, <1>4, <1>5, <1>6, <1>7, ReadySteps

LEMMA ProbedIsKept ==
    Base /\ AskedInv /\ ProbedBeforeAlarm /\ [Next]_vars => ProbedBeforeAlarm'
<1> SUFFICES ASSUME Base, AskedInv, ProbedBeforeAlarm, [Next]_vars,
                    silence'.alarms > 0, ~silence'.started, ~(faults' > 0)
             PROVE  silence'.tried
  BY DEF ProbedBeforeAlarm
<1>0. faults \in Nat /\ faults' \in Nat /\ silence.alarms \in Nat
  BY BaseIsInductive DEF Base, TypeOK, Silences
<1>1. silence' # NewSilence
  BY DEF NewSilence
<1>2. Remembers
  BY <1>1, SilenceGrows
<1>3. faults = 0 /\ ~silence.started
  BY <1>0, <1>2 DEF Remembers
<1>4. CASE silence'.alarms = silence.alarms
  BY <1>0, <1>2, <1>3, <1>4 DEF ProbedBeforeAlarm, Remembers
<1>5. CASE \E w \in Workers :
              Monitor(w) /\ IsFailed(silent, worker[w].PhoneOnline)
  <2>1. PICK w \in Workers :
           Monitor(w) /\ IsFailed(silent, worker[w].PhoneOnline)
    BY <1>5
  <2>2. Ready /\ worker[w].step = "check"
    BY <1>3, <2>1 DEF Monitor, Ready
  <2>3. silent > 3 * CheckInterval
    BY <2>1, BaseFacts, IntervalFacts DEF IsFailed
  <2>4. silence.tried
    BY <2>2, <2>3 DEF AskedInv
  <2> QED
    BY <1>2, <2>4 DEF Remembers
<1> QED
  BY <1>1, <1>4, <1>5, AlarmsOf

\* No alarm is raised in a silence, begun and watched without a fault or a new
\* chain, in which the phone was not asked for a heartbeat, or asking it was not
\* tried.
THEOREM ProbedFirst == Spec => []ProbedBeforeAlarm
<1>1. Init => Base /\ AskedInv /\ ProbedBeforeAlarm
  <2> SUFFICES ASSUME Init PROVE AskedInv /\ ProbedBeforeAlarm
    BY InitBase
  <2>1. ~heard /\ silence.alarms = 0
    BY DEF Init, NewSilence
  <2> QED
    BY <2>1 DEF AskedInv, Ready, ProbedBeforeAlarm
<1>2. Base /\ AskedInv /\ ProbedBeforeAlarm /\ [Next]_vars
      => (Base /\ AskedInv /\ ProbedBeforeAlarm)'
  BY BaseIsInductive, AskedIsKept, ProbedIsKept
<1> QED
  BY <1>1, <1>2, PTL DEF Spec

----------------------------------------------------------------------------
(* The silence is noticed. *)

\* The row that a check finds says that the phone is offline.
OfflineFirst == \A m \in monitors : First(monitors, m) => ~m.PhoneOnline
Starting == \E w \in Workers : worker[w].step = "start"
Seen ==
    \/ silence.alarms > 0
    \/ silence.aligned
    \/ Starting
    \/ OfflineFirst

\* A check that will find the phone silent for five intervals was scheduled by
\* one that found it silent for four, and so could raise the alarm.
NoticedInv ==
    Ready =>
        /\ \A id \in MonitorIDs, d \in Delays :
               checks[id][d] > 0 /\ silent + d >= 5 * CheckInterval => Seen
        /\ \A w \in Workers :
               worker[w].step = "check" =>
                   /\ silent >= 5 * CheckInterval => Seen
                   /\ silent > 0 /\ ~worker[w].PhoneOnline
                      => Starting \/ OfflineFirst

\* A heartbeat that is being handled has just ended the silence.
StoringInv == reporter.step # "idle" => silent = 0 \/ ~heard

LEMMA StoringIsKept == Base /\ StoringInv /\ [Next]_vars => StoringInv'
<1> SUFFICES ASSUME Base, StoringInv, [Next]_vars, silent' # 0, heard',
                    reporter'.step # "idle"
             PROVE  FALSE
  BY DEF StoringInv
<1>1. CASE Tick
  BY <1>1 DEF Tick, Busy, Idle
<1>2. CASE ~Tick
  <2>1. silent' = silent /\ heard' = heard
    BY <1>2, SilentOf
  <2>2. ~StoreHeartbeat /\ ~OpenWindow
    BY DEF StoreHeartbeat, OpenWindow
  <2>3. CASE LoadForHeartbeat
    BY <2>1, <2>3 DEF LoadForHeartbeat, StoringInv
  <2>4. CASE HandleHeartbeatWhenPhoneWasOffline
    BY <2>4 DEF HandleHeartbeatWhenPhoneWasOffline, Idle
  <2>5. CASE \/ CloseWindow
             \/ DeleteMonitor
             \/ DeleteAllForUser
             \/ SendHeartbeatFCM
             \/ OnPhoneHeartbeatOffline
             \/ Duplicate
             \/ UNCHANGED vars
    <3>1. reporter' = reporter
      BY <2>5 DEF CloseWindow, DeleteMonitor, DeleteAllForUser,
                  SendHeartbeatFCM, OnPhoneHeartbeatOffline, Duplicate, vars
    <3> QED
      BY <2>1, <3>1 DEF StoringInv
  <2>6. ASSUME NEW w \in Workers,
               PhoneUpdated(w) \/ UpdateNext(w) \/ CheckNext(w)
        PROVE  FALSE
    <3>1. reporter' = reporter
      BY <2>6 DEF PhoneUpdated, UpdateNext, StoreMonitor, StartChecks,
                  CheckNext, LoadMonitor, RemoveCheck, ScheduleFails,
                  MonitorQuiet, Monitor, MonitorUnread
    <3> QED
      BY <2>1, <3>1 DEF StoringInv
  <2> QED
    BY <1>2, <2>2, <2>3, <2>4, <2>5, <2>6 DEF Next, ReporterNext
<1> QED
  BY <1>1, <1>2

\* Where each row was edited, and none was put online, the first is offline still.
LEMMA OfflineStays ==
    ASSUME Edited(monitors, monitors'), OfflineFirst,
           \A n \in monitors' : \E m \in monitors :
               n.id = m.id /\ (n.PhoneOnline => m.PhoneOnline)
    PROVE  OfflineFirst'
<1> SUFFICES ASSUME NEW n \in monitors', First(monitors', n)
             PROVE  ~n.PhoneOnline
  BY DEF OfflineFirst
<1>1. PICK m \in monitors : n.id = m.id /\ (n.PhoneOnline => m.PhoneOnline)
  OBVIOUS
<1>2. First(monitors, m)
  BY <1>1, FirstIsKept
<1> QED
  BY <1>1, <1>2 DEF OfflineFirst

\* Scheduling a check puts no row online.
LEMMA ScheduleKeepsOffline ==
    ASSUME Base, NEW id \in MonitorIDs, ScheduleHeartbeatCheck(checks, id),
           OfflineFirst
    PROVE  OfflineFirst'
<1>1. CASE monitors' = Touched(monitors, id)
  <2>1. /\ Edited(monitors, monitors')
        /\ \A n \in monitors' : \E m \in monitors :
               n.id = m.id /\ n.PhoneOnline = m.PhoneOnline
    <3>1. monitors \in SUBSET Monitors
      BY BaseFacts
    <3>2. /\ Edits(monitors, Touched(monitors, id))
          /\ \A n \in Touched(monitors, id) : \E m \in monitors :
                 /\ n.id = m.id /\ n.PhoneOnline = m.PhoneOnline
                 /\ n.UpdatedAt = IF m.id = id THEN 0 ELSE m.UpdatedAt
      BY <3>1, TouchedRows
    <3> QED
      BY <1>1, <3>2 DEF Edits
  <2> QED
    BY <2>1, OfflineStays
<1>2. CASE monitors' = monitors
  BY <1>2 DEF OfflineFirst, First
<1> QED
  BY <1>1, <1>2 DEF ScheduleHeartbeatCheck

\* A silence that was seen stays seen.
LEMMA SeenStays ==
    ASSUME Base, [Next]_vars, silent' # 0, Seen,
           Starting => Starting', OfflineFirst => OfflineFirst' \/ Starting'
    PROVE  Seen'
<1>1. Remembers
  BY SilenceGrows
<1>2. silence.alarms > 0 => silence'.alarms > 0
  <2>1. silence.alarms \in Nat
    BY BaseFacts DEF Silences
  <2> QED
    BY <2>1, AlarmsOf
<1> QED
  BY <1>1, <1>2 DEF Seen, Remembers

\* What was to be seen is seen where the checks and their handlers are the same.
LEMMA NoticedStays ==
    ASSUME Base, [Next]_vars, NoticedInv, Ready, silent' = silent, silent' # 0,
           checks' = checks,
           \A w \in Workers : worker'[w].step = "check" => worker'[w] = worker[w],
           Starting => Starting', OfflineFirst => OfflineFirst' \/ Starting'
    PROVE  NoticedInv'
<1>1. Seen => Seen'
  BY SeenStays
<1> QED
  BY <1>1 DEF NoticedInv

LEMMA NoticedIsKept == Base /\ StoringInv /\ NoticedInv /\ [Next]_vars => NoticedInv'
<1> SUFFICES ASSUME Base, StoringInv, NoticedInv, [Next]_vars, Ready'
             PROVE  NoticedInv'
  BY DEF NoticedInv
<1>0. /\ silent \in Nat /\ silent <= Forever
      /\ \A d \in Delays : d \in Nat /\ d <= CheckInterval
  BY BaseFacts, IntervalFacts DEF Delays, Ages
<1>1. CASE silent' = 0
  BY <1>0, <1>1, IntervalFacts DEF NoticedInv
<1>2. ASSUME Ready, Tick, silent' # 0 PROVE NoticedInv'
  <2>1. silence' = silence /\ silent' = Older(silent)
    BY <1>2 DEF Tick
  <2>2. silent' \in Nat /\ silent' <= silent + 1
    BY <1>0, <2>1, IntervalFacts DEF Older
  <2>3. \A w \in Workers : worker'[w].step = "idle"
    BY <1>2, TickEffect, IdleSteps
  <2>4. OfflineFirst => OfflineFirst'
    BY <1>2, BaseFacts, OlderRows, OfflineStays DEF Edits
  <2>5. Starting => Starting'
    BY <1>2, TickEffect DEF Starting
  <2>6. Seen => Seen'
    BY <1>2, <2>4, <2>5, SeenStays
  <2>7. ASSUME NEW id \in MonitorIDs, NEW d \in Delays, checks'[id][d] > 0,
               silent' + d >= 5 * CheckInterval
        PROVE  Seen'
    <3>1. d + 1 \in Delays /\ checks[id][d + 1] > 0
      BY <1>2, <2>7, TickEffect
    <3>2. silent + (d + 1) >= 5 * CheckInterval
      BY <1>0, <2>2, <2>7, IntervalFacts
    <3> QED
      BY <1>2, <2>6, <3>1, <3>2 DEF NoticedInv
  <2> QED
    BY <2>3, <2>7 DEF NoticedInv
<1>3. ASSUME Ready, silent' = silent, silent' # 0, NEW w \in Workers, Monitor(w)
      PROVE  NoticedInv'
  <2>1. /\ worker[w].step = "check"
        /\ worker[w].id \in MonitorIDs
        /\ ScheduleHeartbeatCheck(checks, worker[w].id)
    BY <1>3, SchedulesEffect DEF Monitor, Schedules
  <2>2. /\ \A id \in MonitorIDs, d \in Delays :
               checks'[id][d] = IF id = worker[w].id /\ d = CheckInterval
                                THEN checks[id][d] + 1 ELSE checks[id][d]
        /\ worker'[w] = Idle
        /\ \A v \in Workers : v # w => worker'[v] = worker[v]
    BY <1>3, SchedulesEffect DEF Schedules
  <2>3. OfflineFirst => OfflineFirst'
    BY <2>1, ScheduleKeepsOffline
  <2>4. Starting => Starting'
    <3> SUFFICES ASSUME NEW v \in Workers, worker[v].step = "start"
                 PROVE  Starting'
      BY DEF Starting
    <3>1. v # w
      BY <2>1
    <3> QED
      BY <2>2, <3>1 DEF Starting
  <2>5. Seen => Seen'
    BY <1>3, <2>3, <2>4, SeenStays
  <2>6. silent >= 4 * CheckInterval => Seen'
    <3>0. /\ IsFailed(silent, worker[w].PhoneOnline) => silence'.alarms > 0
          /\ silent = 4 * CheckInterval => silence'.aligned \/ silence'.alarms > 0
      BY <1>0, <1>3, <2>1, BaseFacts, ReactEffect DEF Monitor
    <3>1. CASE IsFailed(silent, worker[w].PhoneOnline)
      BY <3>0, <3>1 DEF Seen
    <3>2. CASE silent = 4 * CheckInterval
      BY <3>0, <3>2 DEF Seen
    <3>3. CASE silent >= 5 * CheckInterval
      BY <1>3, <2>1, <2>5, <3>3 DEF NoticedInv
    <3>4. CASE /\ silent > 4 * CheckInterval
               /\ silent < 5 * CheckInterval
               /\ ~IsFailed(silent, worker[w].PhoneOnline)
      <4>1. ~worker[w].PhoneOnline
        BY <3>4 DEF IsFailed
      <4>2. Starting \/ OfflineFirst
        BY <1>0, <1>3, <2>1, <4>1 DEF NoticedInv
      <4> QED
        BY <2>3, <2>4, <4>2 DEF Seen
    <3> QED
      BY <1>0, <3>1, <3>2, <3>3, <3>4, IntervalFacts
  <2>7. ASSUME NEW id \in MonitorIDs, NEW d \in Delays, checks'[id][d] > 0,
               silent + d >= 5 * CheckInterval
        PROVE  Seen'
    <3>1. CASE checks[id][d] > 0
      BY <1>3, <2>5, <2>7, <3>1 DEF NoticedInv
    <3>2. CASE d = CheckInterval
      BY <1>0, <2>6, <2>7, <3>2, IntervalFacts
    <3>3. checks'[id][d] = IF id = worker[w].id /\ d = CheckInterval
                           THEN checks[id][d] + 1 ELSE checks[id][d]
      BY <2>2
    <3> QED
      BY <2>7, <3>1, <3>2, <3>3
  <2>8. ASSUME NEW v \in Workers, worker'[v].step = "check"
        PROVE  /\ silent >= 5 * CheckInterval => Seen'
               /\ silent > 0 /\ ~worker'[v].PhoneOnline
                  => Starting' \/ OfflineFirst'
    <3>1. v # w /\ worker'[v] = worker[v]
      BY <2>2, <2>8 DEF Idle
    <3> QED
      BY <1>3, <2>3, <2>4, <2>5, <2>8, <3>1 DEF NoticedInv
  <2> QED
    BY <1>3, <2>7, <2>8 DEF NoticedInv
<1>4. ASSUME Ready, silent' = silent, silent' # 0, NEW w \in Workers, LoadsReady(w)
      PROVE  NoticedInv'
  <2>1. PICK id \in MonitorIDs :
           checks[id][0] > 0 /\ (LoadsIt(w, id) \/ EndsIt(w, id))
    BY <1>4 DEF LoadsReady
  <2>2. /\ monitors' = monitors
        /\ worker[w].step = "idle"
        /\ \A v \in Workers : v # w => worker'[v] = worker[v]
    BY <1>4, <2>1, LoadMonitorEffect, IdleSteps DEF LoadsReady, LoadsIt, EndsIt
  <2>3. OfflineFirst => OfflineFirst'
    BY <2>2 DEF OfflineFirst, First
  <2>4. Starting => Starting'
    <3> SUFFICES ASSUME NEW v \in Workers, worker[v].step = "start"
                 PROVE  Starting'
      BY DEF Starting
    <3>1. v # w
      BY <2>2
    <3> QED
      BY <2>2, <3>1 DEF Starting
  <2>5. Seen => Seen'
    BY <1>4, <2>3, <2>4, SeenStays
  <2>6. ASSUME NEW i \in MonitorIDs, NEW d \in Delays, checks'[i][d] > 0,
               silent + d >= 5 * CheckInterval
        PROVE  Seen'
    <3>1. checks'[i][d] = IF i = id /\ d = 0 THEN checks[i][d] - 1
                          ELSE checks[i][d]
      BY <2>1 DEF LoadsIt, EndsIt
    <3>2. checks[i][d] \in Nat
      BY BaseFacts DEF Queues
    <3>3. checks[i][d] > 0
      BY <2>6, <3>1, <3>2
    <3> QED
      BY <1>4, <2>5, <2>6, <3>3 DEF NoticedInv
  <2>7. silent >= 5 * CheckInterval => Seen'
    <3>1. silent + 0 >= 5 * CheckInterval => Seen
      BY <1>4, <2>1, IntervalIsDelay DEF NoticedInv
    <3> QED
      BY <1>0, <2>5, <3>1
  <2>8. ASSUME NEW v \in Workers, worker'[v].step = "check", silent > 0,
               ~worker'[v].PhoneOnline
        PROVE  Starting' \/ OfflineFirst'
    <3>1. CASE v # w
      BY <1>4, <2>2, <2>3, <2>4, <2>8, <3>1 DEF NoticedInv
    <3>2. CASE v = w
      <4>1. LoadsIt(w, id)
        BY <2>1, <2>8, <3>2 DEF EndsIt, Idle
      <4>2. ~Loaded.PhoneOnline
        BY <2>8, <3>2, <4>1 DEF LoadsIt
      <4>3. OfflineFirst
        BY <4>2, BaseFacts, FirstIsLoaded DEF OfflineFirst, Base
      <4> QED
        BY <2>3, <4>3
    <3> QED
      BY <3>1, <3>2
  <2> QED
    BY <1>4, <2>6, <2>7, <2>8 DEF NoticedInv
<1>6. ASSUME Ready, silent' = silent, silent' # 0, NEW w \in Workers, PhoneUpdated(w)
      PROVE  NoticedInv'
  <2>1. /\ checks' = checks /\ monitors' = monitors
        /\ worker[w].step = "idle"
    BY <1>6, IdleSteps DEF PhoneUpdated, queue
  <2>2. \A v \in Workers : v # w => worker'[v] = worker[v]
    BY <1>6, WorkerEffect DEF PhoneUpdated
  <2>3. worker'[w].step # "check"
    BY <1>6, WorkerEffect DEF PhoneUpdated, Task, Idle
  <2>4. Starting => Starting'
    <3> SUFFICES ASSUME NEW v \in Workers, worker[v].step = "start"
                 PROVE  Starting'
      BY DEF Starting
    <3>1. v # w
      BY <2>1
    <3> QED
      BY <2>2, <3>1 DEF Starting
  <2>5. OfflineFirst => OfflineFirst'
    BY <2>1 DEF OfflineFirst, First
  <2> QED
    BY <1>6, <2>1, <2>2, <2>3, <2>4, <2>5, NoticedStays
<1>7. ASSUME Ready, silent' = silent, silent' # 0,
             \/ SendHeartbeatFCM
             \/ LoadForHeartbeat
             \/ DeleteMonitor
             \/ OnPhoneHeartbeatOffline
             \/ UNCHANGED vars
      PROVE  NoticedInv'
  <2>1. checks' = checks /\ worker' = worker
    BY <1>7 DEF SendHeartbeatFCM, LoadForHeartbeat, DeleteMonitor,
                OnPhoneHeartbeatOffline, vars, queue
  <2>2. Starting => Starting'
    BY <2>1 DEF Starting
  <2>3. ASSUME OfflineFirst PROVE OfflineFirst'
    <3>1. CASE DeleteMonitor
      BY <3>1 DEF DeleteMonitor, OfflineFirst
    <3>2. CASE OnPhoneHeartbeatOffline
      <4>1. PICK id \in MonitorIDs, online \in BOOLEAN :
               online = FALSE /\ UpdatePhoneOnline(id, online)
        BY <3>2 DEF OnPhoneHeartbeatOffline
      <4>2. /\ Edited(monitors, monitors')
            /\ \A n \in monitors' : \E m \in monitors :
                   /\ n.id = m.id
                   /\ n.PhoneOnline = IF m.id = id THEN online ELSE m.PhoneOnline
        BY <4>1, BaseFacts, OnlineRows DEF Edits
      <4>3. \A n \in monitors' : \E m \in monitors :
               n.id = m.id /\ (n.PhoneOnline => m.PhoneOnline)
        BY <4>1, <4>2
      <4> QED
        BY <2>3, <4>2, <4>3, OfflineStays
    <3>3. CASE SendHeartbeatFCM \/ LoadForHeartbeat \/ UNCHANGED vars
      <4>1. monitors' = monitors
        BY <3>3 DEF SendHeartbeatFCM, LoadForHeartbeat, vars
      <4> QED
        BY <2>3, <4>1 DEF OfflineFirst, First
    <3> QED
      BY <1>7, <3>1, <3>2, <3>3
  <2> QED
    BY <1>7, <2>1, <2>2, <2>3, NoticedStays
<1>8. ASSUME Ready, silent' = silent, silent' # 0
      PROVE  ~HandleHeartbeatWhenPhoneWasOffline
  BY <1>8 DEF HandleHeartbeatWhenPhoneWasOffline, StoringInv, Ready
<1> QED
  BY <1>1, <1>2, <1>3, <1>4, <1>6, <1>7, <1>8, ReadySteps

\* A phone that stays silent through a window, without a fault and without a new
\* chain, is noticed: an alarm was raised, or the row says that the phone is
\* offline already, or a check came at the very minute that is neither yet late
\* enough for an alarm nor, at the next one, still early enough.
THEOREM SilenceNoticed == Spec => []SilenceIsNoticed
<1>1. Init => Base /\ StoringInv /\ NoticedInv
  <2> SUFFICES ASSUME Init PROVE StoringInv /\ NoticedInv
    BY InitBase
  <2> QED
    BY DEF Init, StoringInv, NoticedInv, Ready
<1>2. Base /\ StoringInv /\ NoticedInv /\ [Next]_vars
      => (Base /\ StoringInv /\ NoticedInv)'
  BY BaseIsInductive, StoringIsKept, NoticedIsKept
<1>3. Base /\ NoticedInv => SilenceIsNoticed
  <2> SUFFICES ASSUME Base, NoticedInv, heard, ~quiet,
                      silent >= 5 * CheckInterval, monitors # {},
                      Watched, ~silence.started, ~Busy, faults = 0
               PROVE  silence.alarms > 0 \/ silence.aligned \/ ~Loaded.PhoneOnline
    BY DEF SilenceIsNoticed
  <2>1. \A w \in Workers : worker[w].step = "idle"
    BY IdleSteps DEF Busy
  <2>2. PICK id \in MonitorIDs, d \in Delays : checks[id][d] > 0
    BY <2>1 DEF Watched
  <2>3. silent + d >= 5 * CheckInterval
    BY BaseFacts, IntervalFacts DEF Delays
  <2>4. Seen
    BY <2>2, <2>3 DEF NoticedInv, Ready
  <2>5. ~Starting
    BY <2>1 DEF Starting
  <2>6. Loaded \in monitors /\ First(monitors, Loaded)
    BY BaseFacts, LoadedIsFirst
  <2> QED
    BY <2>4, <2>5, <2>6 DEF Seen, OfflineFirst
<1> QED
  BY <1>1, <1>2, <1>3, PTL DEF Spec

----------------------------------------------------------------------------
(* No chain beside a live one. *)

\* The row that is found is as young as the last check that was scheduled, or as
\* the row itself: whoever is about to touch a row touches that one, or it was
\* inserted since, and no time has passed.
RecentInv ==
    faults = 0 =>
        /\ \A id \in MonitorIDs, d \in Delays :
               checks[id][d] > 0 =>
                   \A m \in monitors :
                       First(monitors, m) => m.UpdatedAt + d <= CheckInterval
        /\ \A w \in Workers :
               /\ worker[w].step \in {"start", "check"} =>
                      \A m \in monitors :
                          First(monitors, m)
                          => m.id = worker[w].id \/ m.UpdatedAt = 0
               /\ worker[w].step = "check" =>
                      \A m \in monitors :
                          First(monitors, m) => m.UpdatedAt <= CheckInterval
               /\ worker[w].step = "insert" =>
                      \A m \in monitors : m.UpdatedAt = 0

\* What is edited is not older than it was.
LEMMA RecentStays ==
    ASSUME Base, RecentInv, faults = 0, Edited(monitors, monitors'),
           \A n \in monitors' : \E m \in monitors :
               n.id = m.id /\ (n.UpdatedAt = m.UpdatedAt \/ n.UpdatedAt = 0),
           \A id \in MonitorIDs, d \in Delays :
               checks'[id][d] > 0 => checks[id][d] > 0,
           \A w \in Workers :
               worker'[w] = worker[w] \/ worker'[w].step = "idle"
    PROVE  RecentInv'
<1>1. ASSUME NEW n \in monitors', First(monitors', n)
      PROVE  \E m \in monitors :
                 /\ n.id = m.id
                 /\ n.UpdatedAt = m.UpdatedAt \/ n.UpdatedAt = 0
                 /\ First(monitors, m)
  BY <1>1, FirstIsKept
<1>2. ASSUME NEW id \in MonitorIDs, NEW d \in Delays, checks'[id][d] > 0,
             NEW n \in monitors', First(monitors', n)
      PROVE  n.UpdatedAt + d <= CheckInterval
  <2>1. PICK m \in monitors :
           /\ n.UpdatedAt = m.UpdatedAt \/ n.UpdatedAt = 0
           /\ First(monitors, m)
    BY <1>1, <1>2
  <2>2. m.UpdatedAt + d <= CheckInterval
    BY <1>2, <2>1 DEF RecentInv
  <2>3. d \in Nat /\ d <= CheckInterval
    BY DEF Delays
  <2> QED
    BY <2>1, <2>2, <2>3
<1>3. ASSUME NEW w \in Workers, worker'[w].step \in {"start", "check"},
             NEW n \in monitors', First(monitors', n)
      PROVE  /\ n.id = worker'[w].id \/ n.UpdatedAt = 0
             /\ worker'[w].step = "check" => n.UpdatedAt <= CheckInterval
  <2>1. worker'[w] = worker[w]
    BY <1>3
  <2>2. PICK m \in monitors :
           /\ n.id = m.id
           /\ n.UpdatedAt = m.UpdatedAt \/ n.UpdatedAt = 0
           /\ First(monitors, m)
    BY <1>1, <1>3
  <2> QED
    BY <1>3, <2>1, <2>2, IntervalFacts DEF RecentInv
<1>4. ASSUME NEW w \in Workers, worker'[w].step = "insert", NEW n \in monitors'
      PROVE  n.UpdatedAt = 0
  BY <1>4 DEF RecentInv
<1> QED
  BY <1>2, <1>3, <1>4 DEF RecentInv

LEMMA RecentIsKept == Base /\ RecentInv /\ [Next]_vars => RecentInv'
<1> SUFFICES ASSUME Base, RecentInv, [Next]_vars, faults' = 0 PROVE RecentInv'
  BY DEF RecentInv
<1>0. faults \in Nat /\ (faults' = faults \/ faults' >= faults)
  BY BaseFacts, SilenceGrows DEF Remembers
<1>1. faults = 0 /\ ~Fault
  BY <1>0 DEF Fault
<1>2. CASE Tick
  <2>1. \A w \in Workers : worker'[w].step = "idle"
    BY <1>2, TickEffect, IdleSteps
  <2>2. ASSUME NEW id \in MonitorIDs, NEW d \in Delays, checks'[id][d] > 0,
               NEW n \in monitors', First(monitors', n)
        PROVE  n.UpdatedAt + d <= CheckInterval
    <3>1. d + 1 \in Delays /\ checks[id][d + 1] > 0
      BY <1>2, <2>2, TickEffect
    <3>2. /\ Edited(monitors, monitors')
          /\ \E m \in monitors :
                 n.id = m.id /\ n.UpdatedAt = Older(m.UpdatedAt)
      BY <1>2, <2>2, BaseFacts, OlderRows DEF Edits
    <3>3. PICK m \in monitors :
             n.id = m.id /\ n.UpdatedAt = Older(m.UpdatedAt)
      BY <3>2
    <3>4. First(monitors, m)
      BY <2>2, <3>2, <3>3, FirstIsKept
    <3>5. m.UpdatedAt + (d + 1) <= CheckInterval
      BY <1>1, <3>1, <3>4 DEF RecentInv
    <3>6. m.UpdatedAt \in Nat /\ d \in Nat
      BY BaseFacts DEF Monitors, Delays
    <3>7. n.UpdatedAt <= m.UpdatedAt + 1 /\ n.UpdatedAt \in Nat
      BY <3>3, <3>6 DEF Older
    <3> QED
      BY <3>5, <3>6, <3>7, IntervalFacts
  <2> QED
    BY <2>1, <2>2 DEF RecentInv
<1>3. CASE HandleHeartbeatWhenPhoneWasOffline \/ OnPhoneHeartbeatOffline
  <2>1. PICK id \in MonitorIDs, online \in BOOLEAN : UpdatePhoneOnline(id, online)
    <3>1. CASE HandleHeartbeatWhenPhoneWasOffline
      <4>1. reporter.id \in MonitorIDs /\ UpdatePhoneOnline(reporter.id, TRUE)
        BY <3>1 DEF HandleHeartbeatWhenPhoneWasOffline, Base, RowsInv
      <4> QED
        BY <4>1
    <3>2. CASE OnPhoneHeartbeatOffline
      BY <3>2 DEF OnPhoneHeartbeatOffline
    <3> QED
      BY <1>3, <3>1, <3>2
  <2>2. checks' = checks /\ worker' = worker
    BY <1>3 DEF HandleHeartbeatWhenPhoneWasOffline, OnPhoneHeartbeatOffline, queue
  <2>3. /\ Edited(monitors, monitors')
        /\ \A n \in monitors' : \E m \in monitors :
               /\ n.id = m.id
               /\ n.UpdatedAt = IF m.id = id THEN 0 ELSE m.UpdatedAt
    BY <2>1, BaseFacts, OnlineRows DEF Edits
  <2>4. \A n \in monitors' : \E m \in monitors :
           n.id = m.id /\ (n.UpdatedAt = m.UpdatedAt \/ n.UpdatedAt = 0)
    BY <2>3
  <2> QED
    BY <1>1, <2>2, <2>3, <2>4, RecentStays
<1>4. CASE \/ OpenWindow
           \/ CloseWindow
           \/ StoreHeartbeat
           \/ LoadForHeartbeat
           \/ SendHeartbeatFCM
           \/ UNCHANGED vars
  <2>1. UNCHANGED <<monitors, checks, worker>>
    BY <1>4 DEF OpenWindow, CloseWindow, StoreHeartbeat, LoadForHeartbeat,
                SendHeartbeatFCM, vars, queue
  <2> QED
    BY <1>1, <2>1 DEF RecentInv, First
<1>5. CASE DeleteMonitor \/ DeleteAllForUser
  <2>1. monitors' = {}
    BY <1>1, <1>5 DEF DeleteMonitor, DeleteAllForUser
  <2> QED
    BY <2>1 DEF RecentInv
<1>6. ASSUME NEW w \in Workers, PhoneUpdated(w) PROVE RecentInv'
  <2>1. /\ checks' = checks /\ monitors' = monitors
        /\ \A v \in Workers : v # w => worker'[v] = worker[v]
    BY <1>6, WorkerEffect DEF PhoneUpdated, queue
  <2>2. CASE monitors = {}
    BY <2>1, <2>2 DEF RecentInv
  <2>3. CASE monitors # {}
    <3>1. \/ worker'[w] = Idle
          \/ worker'[w].step = "start" /\ worker'[w].id = Loaded.id
      <4>1. CASE RequiresCheck(Loaded)
        <5>1. worker' = [worker EXCEPT ![w] = Task("start", Loaded.id, TRUE)]
          BY <1>6, <2>3, <4>1 DEF PhoneUpdated
        <5>2. worker'[w] = Task("start", Loaded.id, TRUE)
          BY <5>1, WorkerEffect
        <5> QED
          BY <5>2 DEF Task
      <4>2. CASE ~RequiresCheck(Loaded)
        <5>1. worker' = [worker EXCEPT ![w] = Idle]
          BY <1>6, <2>3, <4>2 DEF PhoneUpdated
        <5> QED
          BY <5>1, WorkerEffect
      <4> QED
        BY <4>1, <4>2
    <3>2. worker'[w].step \in {"idle", "start"}
      BY <3>1 DEF Idle
    <3>3. \A m \in monitors : First(monitors, m) => m.id = Loaded.id
      BY BaseFacts, FirstIsLoaded DEF Base
    <3>4. worker'[w].step = "start"
          => \A m \in monitors : First(monitors, m) => m.id = worker'[w].id
      BY <3>1, <3>3 DEF Idle
    <3> QED
      BY <1>1, <2>1, <3>2, <3>4 DEF RecentInv, First
  <2> QED
    BY <2>2, <2>3
<1>7. ASSUME NEW w \in Workers, RemoveCheck(w) PROVE RecentInv'
  <2>1. UNCHANGED <<monitors, checks>>
    BY <1>7 DEF RemoveCheck, queue
  <2>2. /\ worker'[w].step = "idle"
        /\ \A v \in Workers : v # w => worker'[v] = worker[v]
    <3>1. /\ worker'[w] = Idle
          /\ \A v \in Workers : v # w => worker'[v] = worker[v]
      BY <1>7, WorkerEffect DEF RemoveCheck
    <3> QED
      BY <3>1 DEF Idle
  <2> QED
    BY <1>1, <2>1, <2>2 DEF RecentInv, First
<1>8. ASSUME NEW w \in Workers, StoreMonitor(w) PROVE RecentInv'
  <2>1. PICK id \in MonitorIDs :
           /\ monitors' = monitors \cup
                 {[id |-> id, PhoneOnline |-> TRUE, UpdatedAt |-> 0]}
           /\ worker' = [worker EXCEPT ![w] = Task("start", id, TRUE)]
           /\ checks' = checks
           /\ worker[w].step = "insert"
    BY <1>8 DEF StoreMonitor, queue
  <2>2. /\ worker'[w] = Task("start", id, TRUE)
        /\ \A v \in Workers : v # w => worker'[v] = worker[v]
    BY <2>1, WorkerEffect
  <2>3. worker'[w].step = "start" /\ worker'[w].id = id
    BY <2>2 DEF Task
  <2>4. \A n \in monitors' : n \in monitors \/ (n.id = id /\ n.UpdatedAt = 0)
    BY <2>1
  <2>5. \A n \in monitors' : First(monitors', n) /\ n \in monitors
                            => First(monitors, n)
    BY <2>1 DEF First
  <2>6. \A n \in monitors : n.UpdatedAt = 0
    BY <1>1, <2>1 DEF RecentInv
  <2>7. \A n \in monitors' : n.UpdatedAt = 0
    BY <2>4, <2>6
  <2>8. \A d \in Delays : 0 + d <= CheckInterval
    BY IntervalFacts DEF Delays
  <2> QED
    BY <2>7, <2>8, IntervalFacts DEF RecentInv
<1>9. ASSUME NEW w \in Workers, Schedules(w) PROVE RecentInv'
  <2>1. /\ monitors' = Touched(monitors, worker[w].id)
        /\ worker[w].step \in {"start", "check"}
    BY <1>1, <1>9 DEF Schedules, StartChecks, MonitorQuiet, Monitor,
                      MonitorUnread, ScheduleHeartbeatCheck
  <2>2. /\ \A i \in MonitorIDs, d \in Delays :
               checks'[i][d] = IF i = worker[w].id /\ d = CheckInterval
                               THEN checks[i][d] + 1 ELSE checks[i][d]
        /\ worker'[w] = Idle
        /\ \A v \in Workers : v # w => worker'[v] = worker[v]
    BY <1>9, SchedulesEffect
  <2>3. worker'[w].step = "idle"
    BY <2>2 DEF Idle
  <2>4. /\ Edited(monitors, monitors')
        /\ \A n \in monitors' : \E m \in monitors :
               /\ n.id = m.id
               /\ n.UpdatedAt = IF m.id = worker[w].id THEN 0 ELSE m.UpdatedAt
    <3>1. /\ Edits(monitors, Touched(monitors, worker[w].id))
          /\ \A n \in Touched(monitors, worker[w].id) : \E m \in monitors :
                 /\ n.id = m.id /\ n.PhoneOnline = m.PhoneOnline
                 /\ n.UpdatedAt = IF m.id = worker[w].id THEN 0
                                  ELSE m.UpdatedAt
      <4>1. monitors \in SUBSET Monitors
        BY BaseFacts
      <4> QED
        BY <4>1, TouchedRows
    <3> QED
      BY <2>1, <3>1 DEF Edits
  <2>5. ASSUME NEW n \in monitors', First(monitors', n) PROVE n.UpdatedAt = 0
    <3>1. PICK m \in monitors :
             /\ n.id = m.id
             /\ n.UpdatedAt = IF m.id = worker[w].id THEN 0 ELSE m.UpdatedAt
      BY <2>4
    <3>2. First(monitors, m)
      BY <2>4, <2>5, <3>1, FirstIsKept
    <3>3. m.id = worker[w].id \/ m.UpdatedAt = 0
      BY <1>1, <2>1, <3>2 DEF RecentInv
    <3> QED
      BY <3>1, <3>3
  <2>6. \A d \in Delays : 0 + d <= CheckInterval
    BY IntervalFacts DEF Delays
  <2>7. ASSUME NEW v \in Workers, worker'[v].step = "insert", NEW n \in monitors'
        PROVE  n.UpdatedAt = 0
    <3>1. worker'[v] = worker[v]
      BY <2>2, <2>3, <2>7
    <3>2. \A m \in monitors : m.UpdatedAt = 0
      BY <1>1, <2>7, <3>1 DEF RecentInv
    <3> QED
      BY <2>4, <3>2
  <2> QED
    BY <2>5, <2>6, <2>7, IntervalFacts DEF RecentInv
<1>10. ASSUME NEW w \in Workers, LoadMonitor(w) PROVE RecentInv'
  <2>1. PICK id \in MonitorIDs :
           /\ checks[id][0] > 0
           /\ LoadsIt(w, id) \/ EndsIt(w, id)
    BY <1>0, <1>1, <1>10, LoadMonitorEffect DEF RepeatsIt
  <2>2. \A v \in Workers : v # w => worker'[v] = worker[v]
    BY <1>10, LoadMonitorEffect
  <2>3. CASE EndsIt(w, id)
    BY <2>3 DEF EndsIt, RecentInv
  <2>4. CASE LoadsIt(w, id)
    <3>1. monitors' = monitors /\ worker'[w].step = "check"
          /\ worker'[w].id = Loaded.id
      BY <2>4 DEF LoadsIt
    <3>2. ASSUME NEW m \in monitors, First(monitors, m)
          PROVE  m.id = Loaded.id /\ m.UpdatedAt <= CheckInterval
      <4>1. m.id = Loaded.id
        BY <3>2, BaseFacts, FirstIsLoaded DEF Base
      <4>2. m.UpdatedAt + 0 <= CheckInterval
        BY <1>1, <2>1, <3>2, IntervalIsDelay DEF RecentInv
      <4>3. m.UpdatedAt \in Nat
        BY BaseFacts DEF Monitors
      <4> QED
        BY <4>1, <4>2, <4>3
    <3>3. ASSUME NEW i \in MonitorIDs, NEW d \in Delays, checks'[i][d] > 0
          PROVE  checks[i][d] > 0
      <4>1. checks'[i][d] = IF i = id /\ d = 0 THEN checks[i][d] - 1
                            ELSE checks[i][d]
        BY <2>4 DEF LoadsIt
      <4>2. checks[i][d] \in Nat
        BY BaseFacts DEF Queues
      <4> QED
        BY <3>3, <4>1, <4>2
    <3> QED
      BY <1>1, <2>2, <3>1, <3>2, <3>3 DEF RecentInv, First
  <2> QED
    BY <2>1, <2>3, <2>4
<1>11. ~Duplicate /\ \A w \in Workers : ~ScheduleFails(w)
  BY <1>1 DEF Duplicate, ScheduleFails
<1>12. ASSUME NEW w \in Workers,
              PhoneUpdated(w) \/ UpdateNext(w) \/ CheckNext(w)
       PROVE  RecentInv'
  BY <1>6, <1>7, <1>8, <1>9, <1>10, <1>11, <1>12
     DEF UpdateNext, CheckNext, Schedules
<1> QED
  BY <1>2, <1>3, <1>4, <1>5, <1>11, <1>12 DEF Next, ReporterNext

LEMMA NotRestarted ==
    ASSUME Base, RecentInv, faults = 0, monitors # {},
           \/ \E id \in MonitorIDs, d \in Delays : checks[id][d] > 0
           \/ \E w \in Workers : worker[w].step = "check"
    PROVE  ~RequiresCheck(Loaded)
<1>1. Loaded \in monitors /\ First(monitors, Loaded)
  BY BaseFacts, LoadedIsFirst
<1>2. Loaded.UpdatedAt \in Nat
  BY <1>1, BaseFacts DEF Monitors
<1>3. Loaded.UpdatedAt <= CheckInterval
  <2>1. CASE \E id \in MonitorIDs, d \in Delays : checks[id][d] > 0
    <3>1. PICK id \in MonitorIDs, d \in Delays : checks[id][d] > 0
      BY <2>1
    <3>2. Loaded.UpdatedAt + d <= CheckInterval
      BY <1>1, <3>1 DEF RecentInv
    <3> QED
      BY <1>2, <3>2, IntervalFacts DEF Delays
  <2>2. CASE \E w \in Workers : worker[w].step = "check"
    BY <1>1, <2>2 DEF RecentInv
  <2> QED
    BY <2>1, <2>2
<1> QED
  BY <1>2, <1>3, IntervalFacts DEF RequiresCheck

\* No monitor is taken for dead whose checks go on: while some check is on its
\* way or in hand, and nothing has gone wrong, phone.updated finds a row that asks
\* for no new chain, whatever rows were deleted and inserted meanwhile.
THEOREM LiveIsNotRestarted ==
    Spec => [](/\ faults = 0 /\ monitors # {}
               /\ \/ \E id \in MonitorIDs, d \in Delays : checks[id][d] > 0
                  \/ \E w \in Workers : worker[w].step = "check"
               => ~RequiresCheck(Loaded))
<1> DEFINE P ==
       /\ faults = 0 /\ monitors # {}
       /\ \/ \E id \in MonitorIDs, d \in Delays : checks[id][d] > 0
          \/ \E w \in Workers : worker[w].step = "check"
       => ~RequiresCheck(Loaded)
<1>1. Init => Base /\ RecentInv
  BY InitBase DEF Init, RecentInv
<1>2. Base /\ RecentInv /\ [Next]_vars => (Base /\ RecentInv)'
  BY BaseIsInductive, RecentIsKept
<1>3. Base /\ RecentInv => P
  BY NotRestarted
<1> QED
  BY <1>1, <1>2, <1>3, PTL DEF Spec

----------------------------------------------------------------------------
(* The checks and their handlers, counted. *)

Total(cs) == SumOn([id \in MonitorIDs |-> SumOn(cs[id], Delays)], MonitorIDs)

InStep(work, S) == { w \in Workers : work[w].step \in S }
InHand(work)    == Cardinality(InStep(work, {"check"}))
ToStart(work) == Cardinality(InStep(work, {"insert", "start"}))

LEMMA ChainsAreCounted ==
    ASSUME checks \in Queues
    PROVE  /\ Live = Total(checks) + InHand(worker)
           /\ Chains = Total(checks) + InHand(worker) + ToStart(worker)
<1>1. \A id \in MonitorIDs : DOMAIN checks[id] = Delays
  BY DEF Queues
<1>2. SumFunction([id \in MonitorIDs |-> SumFunction(checks[id])]) = Total(checks)
  <2>1. \A f, D : DOMAIN f = D => SumFunction(f) = SumOn(f, D)
    BY DEF SumFunction, SumFunctionOnSet, SumOn
  <2>2. \A id \in MonitorIDs : SumFunction(checks[id]) = SumOn(checks[id], Delays)
    BY <1>1, <2>1
  <2>3. [id \in MonitorIDs |-> SumFunction(checks[id])]
            = [id \in MonitorIDs |-> SumOn(checks[id], Delays)]
    BY <2>2
  <2>4. DOMAIN [id \in MonitorIDs |-> SumOn(checks[id], Delays)] = MonitorIDs
    OBVIOUS
  <2> QED
    BY <2>1, <2>3, <2>4 DEF Total
<1>3. /\ { w \in Workers : worker[w].step = "check" } = InStep(worker, {"check"})
      /\ { w \in Workers : worker[w].step \in {"insert", "start"} }
             = InStep(worker, {"insert", "start"})
  BY DEF InStep
<1> QED
  BY <1>2, <1>3 DEF Live, Chains, InHand, ToStart

LEMMA TotalIsNat ==
    ASSUME NEW cs \in Queues
    PROVE  /\ \A id \in MonitorIDs : SumOn(cs[id], Delays) \in Nat
           /\ Total(cs) \in Nat
<1>1. ASSUME NEW id \in MonitorIDs PROVE SumOn(cs[id], Delays) \in Nat
  <2>1. IsFiniteSet(Delays) /\ \A d \in Delays : cs[id][d] \in Nat
    BY FS_Interval DEF Delays, Queues
  <2> QED
    BY <2>1, SumIsNat
<1> DEFINE f == [id \in MonitorIDs |-> SumOn(cs[id], Delays)]
<1>2. \A id \in MonitorIDs : f[id] \in Nat
  BY <1>1
<1>3. SumOn(f, MonitorIDs) \in Nat
  <2> HIDE DEF f
  <2> QED
    BY <1>2, SumIsNat
<1> QED
  BY <1>1, <1>3 DEF Total

LEMMA MonitorsSum ==
    ASSUME NEW f, NEW h, NEW id \in MonitorIDs,
           \A i \in MonitorIDs :
               f[i] \in Nat /\ h[i] \in Nat /\ (i # id => h[i] = f[i])
    PROVE  SumOn(h, MonitorIDs) = SumOn(f, MonitorIDs) - f[id] + h[id]
<1>1. IsFiniteSet(MonitorIDs)
  OBVIOUS
<1> HIDE MonitorAssumption
<1> QED
  BY <1>1, SumChanges

\* One number of the checks is changed.
LEMMA TotalChanges ==
    ASSUME NEW cs \in Queues, NEW ds \in Queues, NEW id \in MonitorIDs,
           NEW d \in Delays,
           \A i \in MonitorIDs, e \in Delays :
               i # id \/ e # d => ds[i][e] = cs[i][e]
    PROVE  Total(ds) = Total(cs) - cs[id][d] + ds[id][d]
<1> DEFINE f == [i \in MonitorIDs |-> SumOn(cs[i], Delays)]
           h == [i \in MonitorIDs |-> SumOn(ds[i], Delays)]
<1>1. IsFiniteSet(Delays)
  BY FS_Interval DEF Delays
<1>2. \A i \in MonitorIDs, e \in Delays : cs[i][e] \in Nat /\ ds[i][e] \in Nat
  BY DEF Queues
<1>3. \A i \in MonitorIDs : f[i] \in Nat /\ h[i] \in Nat
  BY TotalIsNat
<1>4. ASSUME NEW i \in MonitorIDs, i # id PROVE h[i] = f[i]
  <2>1. \A e \in Delays : cs[i][e] \in Nat /\ ds[i][e] = cs[i][e]
    BY <1>2, <1>4
  <2>2. SumOn(ds[i], Delays) = SumOn(cs[i], Delays)
    BY <1>1, <2>1, SumSame
  <2> QED
    BY <2>2
<1>5. h[id] = f[id] - cs[id][d] + ds[id][d]
  <2>1. \A e \in Delays : /\ cs[id][e] \in Nat /\ ds[id][e] \in Nat
                          /\ e # d => ds[id][e] = cs[id][e]
    BY <1>2
  <2>2. SumOn(ds[id], Delays) = SumOn(cs[id], Delays) - cs[id][d] + ds[id][d]
    BY <1>1, <2>1, SumChanges
  <2> QED
    BY <2>2
<1>6. SumOn(h, MonitorIDs) = SumOn(f, MonitorIDs) - f[id] + h[id]
  <2> HIDE DEF f, h
  <2>1. \A i \in MonitorIDs : f[i] \in Nat /\ h[i] \in Nat /\ (i # id => h[i] = f[i])
    BY <1>3, <1>4
  <2> QED
    BY <2>1, MonitorsSum
<1>7. SumOn(h, MonitorIDs) = Total(ds) /\ SumOn(f, MonitorIDs) = Total(cs)
  BY DEF Total
<1> HIDE DEF f, h
<1>8. Total(cs) \in Nat /\ f[id] \in Nat /\ cs[id][d] \in Nat /\ ds[id][d] \in Nat
  BY <1>2, <1>3, TotalIsNat
<1> QED
  BY <1>5, <1>6, <1>7, <1>8

LEMMA TotalOfZeros ==
    ASSUME NEW cs \in Queues, \A id \in MonitorIDs, d \in Delays : cs[id][d] = 0
    PROVE  Total(cs) = 0
<1> DEFINE f == [id \in MonitorIDs |-> SumOn(cs[id], Delays)]
<1>1. ASSUME NEW id \in MonitorIDs PROVE SumOn(cs[id], Delays) = 0
  <2>1. IsFiniteSet(Delays) /\ \A d \in Delays : cs[id][d] = 0
    BY FS_Interval DEF Delays
  <2> QED
    BY <2>1, SumOfZeros
<1>2. \A id \in MonitorIDs : f[id] = 0
  BY <1>1
<1>3. SumOn(f, MonitorIDs) = 0
  <2> HIDE DEF f
  <2> QED
    BY <1>2, SumOfZeros
<1> QED
  BY <1>3 DEF Total

\* With time the checks come nearer; none is lost and none is made.
LEMMA TotalOfTick ==
    ASSUME Base, Tick
    PROVE  Total(checks') = Total(checks)
<1> DEFINE f == [id \in MonitorIDs |-> SumOn(checks[id], Delays)]
           next == [id \in MonitorIDs |-> [d \in Delays |->
                       IF d < CheckInterval THEN checks[id][d + 1] ELSE 0]]
           h == [id \in MonitorIDs |-> SumOn(next[id], Delays)]
<1>1. checks \in Queues
  BY BaseFacts
<1>2. checks' = next
  BY DEF Tick
<1>3. ASSUME NEW id \in MonitorIDs
      PROVE  SumOn(next[id], Delays) = SumOn(checks[id], Delays)
  <2>1. checks[id] \in [0..CheckInterval -> Nat]
    BY <1>1 DEF Queues, Delays
  <2>2. checks[id][0] = 0
    <3>1. ~(checks[id][0] > 0)
      BY DEF Tick, Busy
    <3> QED
      BY <2>1, <3>1
  <2>3. next[id] = [d \in 0..CheckInterval |->
                       IF d < CheckInterval THEN checks[id][d + 1] ELSE 0]
    BY DEF Delays
  <2> HIDE DEF next
  <2>4. SumOn(next[id], 0..CheckInterval) = SumOn(checks[id], 0..CheckInterval)
    BY <2>1, <2>2, <2>3, SumShifts
  <2> QED
    BY <2>4 DEF Delays
<1>4. h = f
  <2> HIDE DEF next
  <2> QED
    BY <1>3
<1> QED
  BY <1>2, <1>4 DEF Total

\* One of the handlers goes to another step.
LEMMA HandsChange ==
    ASSUME NEW work \in [Workers -> Works], NEW next \in [Workers -> Works],
           NEW v \in Workers, \A w \in Workers : w # v => next[w] = work[w],
           NEW S
    PROVE  /\ Cardinality(InStep(work, S)) \in Nat
           /\ Cardinality(InStep(next, S))
                  = Cardinality(InStep(work, S))
                        - (IF work[v].step \in S THEN 1 ELSE 0)
                        + (IF next[v].step \in S THEN 1 ELSE 0)
<1> DEFINE A == InStep(work, S)
           B == InStep(next, S)
           R == { w \in Workers \ {v} : work[w].step \in S }
<1>1. IsFiniteSet(R)
  BY FS_Subset
<1>2. v \notin R
  OBVIOUS
<1>3. A = (IF work[v].step \in S THEN R \cup {v} ELSE R)
  BY DEF InStep
<1>4. B = (IF next[v].step \in S THEN R \cup {v} ELSE R)
  BY DEF InStep
<1> HIDE DEF A, B, R
<1>5. Cardinality(R \cup {v}) = Cardinality(R) + 1 /\ Cardinality(R) \in Nat
  BY <1>1, <1>2, FS_AddElement, FS_CardinalityType
<1>6. /\ Cardinality(A) = Cardinality(R) + (IF work[v].step \in S THEN 1 ELSE 0)
      /\ Cardinality(B) = Cardinality(R) + (IF next[v].step \in S THEN 1 ELSE 0)
  BY <1>3, <1>4, <1>5
<1> QED
  BY <1>5, <1>6 DEF A, B

\* A step of one handler, counted: how many checks it adds to the queue, and what
\* it takes in hand.
LEMMA StepIsCounted ==
    ASSUME Base, NEW w \in Workers, checks' \in Queues,
           worker' \in [Workers -> Works],
           \A v \in Workers : v # w => worker'[v] = worker[v],
           NEW k \in Int, Total(checks') = Total(checks) + k,
           k + (IF worker'[w].step \in {"check", "insert", "start"} THEN 1 ELSE 0)
               <= (IF worker[w].step \in {"check", "insert", "start"} THEN 1 ELSE 0)
    PROVE  ~(Chains' > Chains)
<1> DEFINE a == InHand(worker)    ax == InHand(worker')
           b == ToStart(worker)   bx == ToStart(worker')
           One(t) == IF t THEN 1 ELSE 0
           old == worker[w].step
           new == worker'[w].step
<1>1. worker \in [Workers -> Works] /\ checks \in Queues
  BY BaseFacts
<1>2. /\ a \in Nat
      /\ ax = a - One(old = "check") + One(new = "check")
  BY <1>1, HandsChange DEF InHand
<1>3. /\ b \in Nat
      /\ bx = b - One(old \in {"insert", "start"}) + One(new \in {"insert", "start"})
  BY <1>1, HandsChange DEF ToStart
<1>4. Chains = Total(checks) + a + b /\ Chains' = Total(checks') + ax + bx
  <2>1. Chains = Total(checks) + a + b
    BY <1>1, ChainsAreCounted
  <2>2. (checks \in Queues => Chains = Total(checks) + InHand(worker) + ToStart(worker))'
    BY ChainsAreCounted, PTL
  <2> QED
    BY <2>1, <2>2
<1>5. Total(checks) \in Nat
  BY <1>1, TotalIsNat
<1> QED
  BY <1>2, <1>3, <1>4, <1>5

\* No chain begins beside a live one, in a step without faults.
NoNewChain == faults' = 0 /\ monitors # {} /\ Chains' > Chains => Live = 0

LEMMA NoHandsNoChecks ==
    ASSUME Base, ~\E id \in MonitorIDs, d \in Delays : checks[id][d] > 0,
           ~\E w \in Workers : worker[w].step = "check"
    PROVE  Live = 0
<1>1. checks \in Queues
  BY BaseFacts
<1>2. \A id \in MonitorIDs, d \in Delays : checks[id][d] = 0
  BY <1>1 DEF Queues
<1>3. InStep(worker, {"check"}) = {}
  BY DEF InStep
<1>4. Total(checks) = 0 /\ InHand(worker) = 0
  BY <1>1, <1>2, <1>3, TotalOfZeros, FS_EmptySet DEF InHand
<1> QED
  BY <1>1, <1>4, ChainsAreCounted

\* As many checks, and the same work in hand.
LEMMA SameChains ==
    ASSUME Base, worker' = worker, checks' \in Queues, Total(checks') = Total(checks)
    PROVE  ~(Chains' > Chains)
<1>1. checks \in Queues
  BY BaseFacts
<1>2. Chains = Total(checks) + InHand(worker) + ToStart(worker)
  BY <1>1, ChainsAreCounted
<1>3. Chains' = Total(checks') + InHand(worker') + ToStart(worker')
  <2>1. (checks \in Queues
           => Chains = Total(checks) + InHand(worker) + ToStart(worker))'
    BY ChainsAreCounted, PTL
  <2> QED
    BY <2>1
<1>4. Total(checks) \in Nat
  BY <1>1, TotalIsNat
<1>5. InHand(worker) \in Nat /\ ToStart(worker) \in Nat
  BY FS_Subset, FS_CardinalityType DEF InHand, ToStart, InStep
<1>6. Chains' = Chains /\ Chains \in Nat
  BY <1>2, <1>3, <1>4, <1>5
<1> QED
  BY <1>6

LEMMA ChainsOfStep == Base /\ Base' /\ RecentInv /\ [Next]_vars => NoNewChain
<1> SUFFICES ASSUME Base, Base', RecentInv, [Next]_vars,
                    faults' = 0, monitors # {}, Chains' > Chains
             PROVE  Live = 0
  BY DEF NoNewChain
<1>1. checks \in Queues /\ worker \in [Workers -> Works] /\ faults \in Nat
  BY BaseFacts
<1>2. checks' \in Queues /\ worker' \in [Workers -> Works]
  BY DEF Base, TypeOK, Queues, Works
<1>3. ~Fault /\ Total(checks) \in Nat
  BY <1>1, TotalIsNat DEF Fault
<1>4. ~Tick
  BY <1>2, SameChains, TotalOfTick, TickEffect
<1>5. ~UNCHANGED <<checks, worker>>
  BY <1>1, SameChains
<1>6. ~Duplicate
  BY <1>3 DEF Duplicate
<1>7. PICK w \in Workers : PhoneUpdated(w) \/ UpdateNext(w) \/ CheckNext(w)
  <2>1. \/ OpenWindow \/ CloseWindow \/ StoreHeartbeat \/ LoadForHeartbeat
        \/ HandleHeartbeatWhenPhoneWasOffline \/ DeleteMonitor \/ DeleteAllForUser
        \/ SendHeartbeatFCM \/ OnPhoneHeartbeatOffline \/ UNCHANGED vars
        => UNCHANGED <<checks, worker>>
    BY DEF OpenWindow, CloseWindow, StoreHeartbeat, LoadForHeartbeat,
           HandleHeartbeatWhenPhoneWasOffline, DeleteMonitor, DeleteAllForUser,
           SendHeartbeatFCM, OnPhoneHeartbeatOffline, vars, queue
  <2> QED
    BY <1>4, <1>5, <1>6, <2>1 DEF Next, ReporterNext
<1>8. CASE PhoneUpdated(w)
  <2>1. \A v \in Workers : v # w => worker'[v] = worker[v]
    BY <1>8, WorkerEffect DEF PhoneUpdated
  <2>2. CASE RequiresCheck(Loaded)
    <3>1. faults = 0
      BY <1>8 DEF PhoneUpdated
    <3> QED
      BY <2>2, <3>1, NotRestarted, NoHandsNoChecks
  <2>3. CASE ~RequiresCheck(Loaded)
    <3>1. worker'[w] = Idle /\ worker[w] = Idle /\ checks' = checks
      BY <1>8, <2>3, WorkerEffect DEF PhoneUpdated, queue
    <3>2. worker'[w] = worker[w]
      BY <3>1
    <3>3. worker' = worker
      BY <1>1, <1>2, <2>1, <3>2
    <3> QED
      BY <1>5, <3>1, <3>3
  <2> QED
    BY <2>2, <2>3
<1>9. CASE StoreMonitor(w)
  <2>1. PICK id \in MonitorIDs : worker' = [worker EXCEPT ![w] = Task("start", id, TRUE)]
    BY <1>9 DEF StoreMonitor
  <2>2. worker'[w].step = "start" /\ worker[w].step = "insert" /\ checks' = checks
    <3>1. worker'[w] = Task("start", id, TRUE)
      BY <2>1, WorkerEffect
    <3>2. worker[w].step = "insert" /\ checks' = checks
      BY <1>9 DEF StoreMonitor, queue
    <3> QED
      BY <3>1, <3>2 DEF Task
  <2>3. \A v \in Workers : v # w => worker'[v] = worker[v]
    BY <2>1, WorkerEffect
  <2>4. Total(checks') = Total(checks) + 0
    BY <1>3, <2>2
  <2> QED
    BY <1>2, <2>2, <2>3, <2>4, StepIsCounted
<1>10. CASE Schedules(w)
  <2> DEFINE id == worker[w].id
  <2>1. /\ id \in MonitorIDs
        /\ checks'[id][CheckInterval] = checks[id][CheckInterval] + 1
        /\ \A i \in MonitorIDs, d \in Delays :
               i # id \/ d # CheckInterval => checks'[i][d] = checks[i][d]
    BY <1>10, SchedulesEffect, IntervalIsDelay
  <2>2. Total(checks') = Total(checks) + 1
    <3>1. checks[id][CheckInterval] \in Nat
      BY <1>1, <2>1, IntervalIsDelay DEF Queues
    <3>2. Total(checks') = Total(checks) - checks[id][CheckInterval]
                               + checks'[id][CheckInterval]
      BY <1>1, <1>2, <2>1, IntervalIsDelay, TotalChanges
    <3> QED
      BY <1>3, <2>1, <3>1, <3>2
  <2>3. worker'[w].step = "idle" /\ worker[w].step \in {"start", "check"}
    <3>1. worker'[w] = Idle
      BY <1>10, SchedulesEffect
    <3>2. worker[w].step \in {"start", "check"}
      BY <1>10 DEF Schedules, StartChecks, MonitorQuiet, Monitor, MonitorUnread
    <3> QED
      BY <3>1, <3>2 DEF Idle
  <2>4. \A v \in Workers : v # w => worker'[v] = worker[v]
    BY <1>10, SchedulesEffect
  <2> QED
    BY <1>2, <2>2, <2>3, <2>4, StepIsCounted
<1>11. CASE LoadMonitor(w)
  <2>1. PICK id \in MonitorIDs :
           checks[id][0] > 0 /\ (LoadsIt(w, id) \/ EndsIt(w, id) \/ RepeatsIt(w, id))
    BY <1>11, LoadMonitorEffect
  <2>2. LoadsIt(w, id)
    BY <1>1, <2>1 DEF EndsIt, RepeatsIt
  <2>3. worker'[w].step = "check" /\ worker[w].step = "idle"
    BY <1>11, <2>2, LoadMonitorEffect, IdleSteps DEF LoadsIt
  <2>4. Total(checks') = Total(checks) + (-1)
    <3>1. checks'[id][0] = checks[id][0] - 1 /\ checks[id][0] \in Nat
      BY <1>1, <2>2, IntervalIsDelay DEF LoadsIt, Queues
    <3>2. \A i \in MonitorIDs, d \in Delays : i # id \/ d # 0 => checks'[i][d] = checks[i][d]
      BY <2>2 DEF LoadsIt
    <3>3. Total(checks') = Total(checks) - checks[id][0] + checks'[id][0]
      BY <1>1, <1>2, <3>2, IntervalIsDelay, TotalChanges
    <3> QED
      BY <1>3, <3>1, <3>3
  <2>5. \A v \in Workers : v # w => worker'[v] = worker[v]
    BY <1>11, LoadMonitorEffect
  <2> QED
    BY <1>2, <2>3, <2>4, <2>5, StepIsCounted
<1>12. CASE RemoveCheck(w)
  <2>1. worker'[w] = Idle /\ checks' = checks /\ worker[w].step = "check"
    BY <1>12, WorkerEffect DEF RemoveCheck, queue
  <2>2. worker'[w].step = "idle"
    BY <2>1 DEF Idle
  <2>3. \A v \in Workers : v # w => worker'[v] = worker[v]
    BY <1>12, WorkerEffect DEF RemoveCheck
  <2>4. Total(checks') = Total(checks) + 0
    BY <1>3, <2>1
  <2> QED
    BY <1>2, <2>1, <2>2, <2>3, <2>4, StepIsCounted
<1>13. ~ScheduleFails(w)
  BY <1>3 DEF ScheduleFails
<1> QED
  BY <1>7, <1>8, <1>9, <1>10, <1>11, <1>12, <1>13
     DEF UpdateNext, CheckNext, Schedules

\* No chain of checks is started beside a live one, in any step without faults
\* while there is a monitor: a check leads to one check at most, time neither
\* makes nor loses any, and RequiresCheck asks for none where one is alive.
THEOREM OneChain == Spec => ChainsDoNotMultiply
<1>1. Init => Base /\ RecentInv
  BY InitBase DEF Init, RecentInv
<1>2. Base /\ RecentInv /\ [Next]_vars => (Base /\ RecentInv)'
  BY BaseIsInductive, RecentIsKept
<1>3. Base /\ Base' /\ RecentInv /\ [Next]_vars => [NoNewChain]_vars
  BY ChainsOfStep
<1>4. Spec => [][NoNewChain]_vars
  BY <1>1, <1>2, <1>3, PTL DEF Spec
<1> QED
  BY <1>4 DEF NoNewChain, ChainsDoNotMultiply
=============================================================================
