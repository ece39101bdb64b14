-------------------------- MODULE OaTimelineProofs --------------------------
(***************************************************************************)
(* Proofs about OaTimeline, for any sets of contexts and chunks, any       *)
(* window, period and width of the timestamps, and any number of reports:  *)
(* every context is kept as long as the timeline has a sample of it and    *)
(* every chunk as long as something points into it, the blocks of          *)
(* i915_perf_accumulate() find the contexts they expect, intervals are     *)
(* accumulated once and for the context that ran, and the timeline shows   *)
(* the time that contexts spent, in order and within the window.           *)
(***************************************************************************)
EXTENDS OaTimeline, FiniteSetsExt, Functions, WellFoundedInduction, FiniteSetTheorems,
        FunctionTheorems, SequenceTheorems, TLAPS

-----------------------------------------------------------------------------
(***************************************************************************)
(* Remainders and least elements.                                          *)
(***************************************************************************)

\* Quotient and remainder.
LEMMA DivMod ==
    ASSUME NEW n \in Nat \ {0}, NEW a \in Int
    PROVE  /\ a \div n \in Int
           /\ a % n \in 0..n - 1
           /\ a = n * (a \div n) + (a % n)
OBVIOUS

\* The remainder is the only one in its range.
LEMMA ModUnique ==
    ASSUME NEW n \in Nat \ {0}, NEW q \in Int, NEW r \in 0..n - 1
    PROVE  (n * q + r) % n = r
OBVIOUS

\* Numbers below n are their own remainders.
LEMMA ModSmall ==
    ASSUME NEW n \in Nat \ {0}, NEW a \in 0..n - 1
    PROVE  a % n = a
OBVIOUS

\* Adding multiples of n changes nothing.
LEMMA ModShift ==
    ASSUME NEW n \in Nat \ {0}, NEW a \in Int, NEW k \in Int
    PROVE  (a + n * k) % n = a % n
<1> DEFINE q == a \div n
           r == a % n
<1>1. q \in Int /\ r \in 0..n - 1 /\ a = n * q + r
  BY DivMod
<1> HIDE DEF q, r
<1>2. a + n * k = n * (q + k) + r /\ q + k \in Int
  BY <1>1
<1>3. (n * (q + k) + r) % n = r
  BY <1>1, <1>2, ModUnique
<1> QED
  BY <1>2, <1>3 DEF r

\* Numbers with the same remainder differ by a multiple of n.
LEMMA ModDiffer ==
    ASSUME NEW n \in Nat \ {0}, NEW a \in Int, NEW b \in Int, a % n = b % n
    PROVE  \E k \in Int : a = b + n * k
<1> DEFINE q == a \div n
           p == b \div n
<1>1. /\ q \in Int /\ p \in Int /\ a % n \in Int
      /\ a = n * q + (a % n) /\ b = n * p + (a % n)
  BY DivMod
<1> HIDE DEF q, p
<1>2. a = b + n * (q - p) /\ q - p \in Int
  BY <1>1
<1> QED
  BY <1>2

\* Equal remainders may replace each other in sums and differences.
LEMMA ModSame ==
    ASSUME NEW n \in Nat \ {0}, NEW a \in Int, NEW b \in Int, NEW c \in Int, a % n = b % n
    PROVE  /\ (a + c) % n = (b + c) % n
           /\ (a - c) % n = (b - c) % n
           /\ (c - a) % n = (c - b) % n
<1>1. PICK k \in Int : a = b + n * k
  BY ModDiffer
<1>2. (a + c) = (b + c) + n * k /\ (a - c) = (b - c) + n * k /\ (c - a) = (c - b) + n * (-k)
  BY <1>1
<1>3. /\ ((b + c) + n * k) % n = (b + c) % n
      /\ ((b - c) + n * k) % n = (b - c) % n
      /\ ((c - b) + n * (-k)) % n = (c - b) % n
  <2>1. b + c \in Int /\ b - c \in Int /\ c - b \in Int /\ -k \in Int
    OBVIOUS
  <2> QED
    BY <2>1, ModShift
<1> QED
  BY <1>2, <1>3

\* A remainder is its own remainder.
LEMMA ModTwice ==
    ASSUME NEW n \in Nat \ {0}, NEW a \in Int
    PROVE  a % n \in Int /\ (a % n) % n = a % n
<1> DEFINE r == a % n
<1>1. r \in 0..n - 1
  BY DivMod
<1> HIDE DEF r
<1>2. r \in Int /\ r % n = r
  BY <1>1, ModSmall
<1> QED
  BY <1>2 DEF r

\* Sums and differences of truncated numbers.
LEMMA ModMinus ==
    ASSUME NEW n \in Nat \ {0}, NEW a \in Int, NEW b \in Int
    PROVE  /\ ((a % n) - (b % n)) % n = (a - b) % n
           /\ ((a % n) + b) % n = (a + b) % n
<1> DEFINE r == a % n
           t == b % n
<1>1. r \in Int /\ r % n = a % n /\ t \in Int /\ t % n = b % n
  BY ModTwice
<1> HIDE DEF r, t
<1>2. (r - t) % n = (a - t) % n /\ (r + b) % n = (a + b) % n
  <2>1. (r - t) % n = (a - t) % n
    BY <1>1, ModSame, ZenonT(60)
  <2>2. (r + b) % n = (a + b) % n
    BY <1>1, ModSame, ZenonT(60)
  <2> QED
    BY <2>1, <2>2
<1>3. (a - t) % n = (a - b) % n
  BY <1>1, ModSame, ZenonT(60)
<1> QED
  BY <1>2, <1>3 DEF r, t

\* A set of numbers has a least element, and Min is it.
LEMMA LeastElement ==
    ASSUME NEW T \in SUBSET Nat, T # {}
    PROVE  Min(T) \in T /\ \A y \in T : Min(T) <= y
<1>1. PICK x \in T : \A y \in T : ~(<<y, x>> \in OpToRel(<, Nat))
  BY NatLessThanWellFounded, WFMin
<1>2. \A y \in T : x <= y
  <2>1. OpToRel(<, Nat) = {p \in Nat \X Nat : p[1] < p[2]}
    BY Zenon DEF OpToRel
  <2>2. ASSUME NEW y \in T, y < x
        PROVE  FALSE
    BY <1>1, <2>1, <2>2
  <2> QED
    BY <2>2
<1>3. \E m \in T : \A y \in T : m <= y
  BY <1>2
<1> QED
  BY <1>3 DEF Min

-----------------------------------------------------------------------------
(***************************************************************************)
(* Induction, stated for the set of those that have the property.          *)
(***************************************************************************)

\* A property of sets that the empty set has and that another element keeps.
LEMMA FiniteInduction ==
    ASSUME NEW U, IsFiniteSet(U), NEW F \in SUBSET (SUBSET U), {} \in F,
           \A S \in F : \A x \in U \ S : S \cup {x} \in F
    PROVE  \A S \in SUBSET U : S \in F
<1> DEFINE T == {n \in Nat : \E S \in (SUBSET U) \ F : Cardinality(S) = n}
<1> SUFFICES ASSUME NEW R \in SUBSET U, R \notin F
             PROVE  FALSE
  OBVIOUS
<1>1. \A S \in SUBSET U : IsFiniteSet(S) /\ Cardinality(S) \in Nat
  BY FS_Subset, FS_CardinalityType
<1>2. T \in SUBSET Nat /\ T # {}
  BY <1>1
<1> DEFINE m == Min(T)
<1>3. m \in T /\ \A y \in T : m <= y
  <2> HIDE DEF T
  <2> QED
    BY <1>2, LeastElement
<1>4. PICK S \in (SUBSET U) \ F : Cardinality(S) = m
  BY <1>3
<1> HIDE DEF m
<1>5. S # {}
  BY <1>4
<1>6. PICK x : x \in S
  BY <1>5
<1>7. IsFiniteSet(S) /\ S \ {x} \in SUBSET U /\ x \in U
  BY <1>1, <1>4, <1>6
<1>8. Cardinality(S \ {x}) = Cardinality(S) - 1
  BY <1>6, <1>7, FS_RemoveElement
<1>9. m \in Nat /\ Cardinality(S \ {x}) \in Nat /\ ~(m <= Cardinality(S \ {x}))
  BY <1>1, <1>3, <1>4, <1>7, <1>8
<1>10. S \ {x} \in F
  <2> SUFFICES ASSUME S \ {x} \notin F
               PROVE  FALSE
    OBVIOUS
  <2>1. Cardinality(S \ {x}) \in T
    BY <1>7, <1>9
  <2> QED
    BY <1>3, <1>9, <2>1
<1>11. (S \ {x}) \cup {x} \in F
  BY <1>7, <1>10
<1>12. (S \ {x}) \cup {x} = S
  BY <1>6
<1> QED
  BY <1>4, <1>11, <1>12

\* A property of numbers that 0 has and that the next number keeps.
LEMMA NumberInduction ==
    ASSUME NEW T \in SUBSET Nat, 0 \in T, \A n \in T : n + 1 \in T
    PROVE  \A n \in Nat : n \in T
<1> DEFINE R == Nat \ T
           m == Min(R)
<1> SUFFICES ASSUME R # {}
             PROVE  FALSE
  OBVIOUS
<1>1. R \in SUBSET Nat
  OBVIOUS
<1>2. m \in R /\ \A y \in R : m <= y
  <2> HIDE DEF R
  <2> QED
    BY <1>1, LeastElement
<1> HIDE DEF m
<1>3. m \in Nat /\ m # 0 /\ m - 1 \in Nat /\ m \notin T /\ ~(m <= m - 1)
  BY <1>2
<1>4. m - 1 \in T
  BY <1>2, <1>3
<1>5. (m - 1) + 1 \in T
  BY <1>4
<1> QED
  BY <1>3, <1>5

-----------------------------------------------------------------------------
(***************************************************************************)
(* Sums.  SumFunctionOnSet takes the elements of the set in an order of    *)
(* its own.                                                                *)
(***************************************************************************)

\* The element a sum takes next.
Some(s) == CHOOSE x \in s : TRUE

\* What a sum is if F has the sums of smaller sets.
SumStep(f, F, s) == IF s = {} THEN 0 ELSE f[Some(s)] + F[s \ {Some(s)}]

\* The function by which the sum is defined.
SumOf(f, U) == CHOOSE F : F = [s \in SUBSET U |-> SumStep(f, F, s)]

\* Sums are values of that function.
LEMMA SumDef ==
    ASSUME NEW f, NEW U
    PROVE  SumFunctionOnSet(f, U) = SumOf(f, U)[U]
BY Zenon DEF SumFunctionOnSet, FoldFunctionOnSet, MapThenFoldSet, SumOf, SumStep, Some

\* The next element is in the set, and the rest is smaller.
LEMMA SomeOf ==
    ASSUME NEW U, IsFiniteSet(U), NEW s \in SUBSET U
    PROVE  /\ IsFiniteSet(s) /\ Cardinality(s) \in Nat
           /\ Cardinality(s) = 0 <=> s = {}
           /\ s # {} => /\ Some(s) \in s /\ s \ {Some(s)} \in SUBSET U
                        /\ Cardinality(s \ {Some(s)}) = Cardinality(s) - 1
<1>1. IsFiniteSet(s)
  BY FS_Subset
<1>2. Cardinality(s) \in Nat /\ (Cardinality(s) = 0 <=> s = {})
  BY <1>1, FS_CardinalityType, FS_EmptySet
<1>3. s # {} => Some(s) \in s
  BY Zenon DEF Some
<1>4. s # {} => Cardinality(s \ {Some(s)}) = Cardinality(s) - 1
  BY <1>1, <1>3, FS_RemoveElement
<1> QED
  BY <1>1, <1>2, <1>3, <1>4

\* Two such functions agree, where the summands do.
LEMMA SumAgree ==
    ASSUME NEW U, IsFiniteSet(U), NEW f, NEW g, \A x \in U : f[x] = g[x], NEW F, NEW G,
           \A s \in SUBSET U : F[s] = SumStep(f, F, s),
           \A s \in SUBSET U : G[s] = SumStep(g, G, s)
    PROVE  \A s \in SUBSET U : F[s] = G[s]
<1> DEFINE T == {n \in Nat : \A s \in SUBSET U : Cardinality(s) = n => F[s] = G[s]}
<1>1. 0 \in T
  <2>1. ASSUME NEW s \in SUBSET U, Cardinality(s) = 0
        PROVE  F[s] = G[s]
    <3>1. s = {}
      BY <2>1, SomeOf
    <3> QED
      BY <3>1 DEF SumStep
  <2> QED
    BY <2>1
<1>2. ASSUME NEW n \in T
      PROVE  n + 1 \in T
  <2>1. ASSUME NEW s \in SUBSET U, Cardinality(s) = n + 1
        PROVE  F[s] = G[s]
    <3> DEFINE c == Some(s)
               r == s \ {c}
    <3>0. Cardinality(s) = 0 <=> s = {}
      BY SomeOf
    <3>1. s # {} /\ n \in Nat
      BY <2>1, <3>0
    <3>2. c \in s /\ r \in SUBSET U /\ Cardinality(r) = Cardinality(s) - 1
      BY <3>1, SomeOf
    <3>3. Cardinality(r) = n
      BY <2>1, <3>1, <3>2
    <3>4. F[r] = G[r] /\ f[c] = g[c]
      BY <3>2, <3>3
    <3>5. F[s] = f[c] + F[r] /\ G[s] = g[c] + G[r]
      BY <3>1 DEF SumStep
    <3> QED
      BY <3>4, <3>5
  <2> QED
    BY <2>1
<1>3. \A n \in Nat : n \in T
  <2>1. T \in SUBSET Nat
    OBVIOUS
  <2> HIDE DEF T
  <2> QED
    BY <1>1, <1>2, <2>1, NumberInduction
<1> SUFFICES ASSUME NEW s \in SUBSET U
             PROVE  F[s] = G[s]
  OBVIOUS
<1>4. Cardinality(s) \in Nat
  BY SomeOf
<1> QED
  BY <1>3, <1>4

\* There is such a function.
LEMMA SumExists ==
    ASSUME NEW U, IsFiniteSet(U), NEW f, \A x \in U : f[x] \in Int
    PROVE  /\ SumOf(f, U) \in [SUBSET U -> Int]
           /\ \A s \in SUBSET U : SumOf(f, U)[s] = SumStep(f, SumOf(f, U), s)
<1> DEFINE Upto(F, n) == \A s \in SUBSET U : Cardinality(s) <= n => F[s] = SumStep(f, F, s)
           T == {n \in Nat : \E F \in [SUBSET U -> Int] : Upto(F, n)}
<1>1. ASSUME NEW F \in [SUBSET U -> Int], NEW s \in SUBSET U
      PROVE  SumStep(f, F, s) \in Int
  <2>1. s # {} => Some(s) \in s /\ s \ {Some(s)} \in SUBSET U
    BY SomeOf
  <2>2. s # {} => f[Some(s)] \in Int /\ F[s \ {Some(s)}] \in Int
    BY <2>1
  <2> QED
    BY <2>2 DEF SumStep
<1>2. 0 \in T
  <2> DEFINE F == [s \in SUBSET U |-> 0]
  <2>1. F \in [SUBSET U -> Int]
    OBVIOUS
  <2>2. ASSUME NEW s \in SUBSET U, Cardinality(s) <= 0
        PROVE  F[s] = SumStep(f, F, s)
    <3>0. Cardinality(s) \in Nat /\ (Cardinality(s) = 0 <=> s = {})
      BY SomeOf
    <3>1. s = {}
      BY <2>2, <3>0
    <3> QED
      BY <3>1 DEF SumStep
  <2>3. Upto(F, 0)
    BY <2>2
  <2> QED
    BY <2>1, <2>3
<1>3. ASSUME NEW n \in T
      PROVE  n + 1 \in T
  <2>1. PICK F \in [SUBSET U -> Int] : Upto(F, n)
    OBVIOUS
  <2> DEFINE G == [s \in SUBSET U |-> SumStep(f, F, s)]
  <2>2. G \in [SUBSET U -> Int]
    BY <1>1
  <2>3. ASSUME NEW s \in SUBSET U, Cardinality(s) <= n + 1
        PROVE  G[s] = SumStep(f, G, s)
    <3>1. CASE s = {}
      BY <3>1 DEF SumStep
    <3>2. CASE s # {}
      <4> DEFINE r == s \ {Some(s)}
      <4>1. r \in SUBSET U /\ Cardinality(r) <= n
        BY <2>3, <3>2, SomeOf
      <4>2. G[r] = F[r]
        BY <2>1, <4>1
      <4>3. G[s] = f[Some(s)] + F[r]
        BY <3>2 DEF SumStep
      <4> QED
        BY <3>2, <4>2, <4>3 DEF SumStep
    <3> QED
      BY <3>1, <3>2
  <2>4. Upto(G, n + 1)
    BY <2>3
  <2>5. n + 1 \in Nat
    OBVIOUS
  <2> HIDE DEF G
  <2> QED
    BY <2>2, <2>4, <2>5
<1>4. Cardinality(U) \in T
  <2>1. T \in SUBSET Nat
    OBVIOUS
  <2> HIDE DEF T
  <2>2. \A n \in Nat : n \in T
    BY <1>2, <1>3, <2>1, NumberInduction
  <2>3. Cardinality(U) \in Nat
    BY FS_CardinalityType
  <2> QED
    BY <2>2, <2>3
<1>5. PICK F \in [SUBSET U -> Int] : Upto(F, Cardinality(U))
  BY <1>4
<1>6. \A s \in SUBSET U : Cardinality(s) <= Cardinality(U)
  BY FS_Subset
<1>7. F = [s \in SUBSET U |-> SumStep(f, F, s)]
  <2>1. \A s \in SUBSET U : F[s] = SumStep(f, F, s)
    BY <1>5, <1>6
  <2>2. F = [s \in SUBSET U |-> F[s]]
    OBVIOUS
  <2> QED
    BY <2>1, <2>2
<1> DEFINE S == SumOf(f, U)
<1>8. S = [s \in SUBSET U |-> SumStep(f, S, s)]
  BY <1>7, Zenon DEF SumOf
<1> HIDE DEF S
<1>9. \A s \in SUBSET U : S[s] = SumStep(f, S, s)
  BY <1>8
<1>10. \A s \in SUBSET U : F[s] = SumStep(f, F, s)
  BY <1>5, <1>6
<1>11. \A s \in SUBSET U : S[s] = F[s]
  BY <1>9, <1>10, SumAgree
<1>12. S \in [SUBSET U -> Int]
  BY <1>8, <1>9, <1>11
<1> QED
  BY <1>9, <1>12 DEF S

\* The sum of no summands is 0.
LEMMA SumEmpty ==
    ASSUME NEW f
    PROVE  SumFunctionOnSet(f, {}) = 0
<1>1. IsFiniteSet({}) /\ {} \in SUBSET {} /\ \A x \in {} : f[x] \in Int
  BY FS_EmptySet
<1>2. SumOf(f, {})[{}] = SumStep(f, SumOf(f, {}), {})
  BY <1>1, SumExists
<1> QED
  BY <1>2, SumDef DEF SumStep

\* A sum over a part of a set is a value of the function for the whole.
LEMMA SumPart ==
    ASSUME NEW U, IsFiniteSet(U), NEW f, \A x \in U : f[x] \in Int, NEW S \in SUBSET U
    PROVE  SumFunctionOnSet(f, S) = SumOf(f, U)[S] /\ SumFunctionOnSet(f, S) \in Int
<1>1. IsFiniteSet(S) /\ \A x \in S : f[x] \in Int
  BY FS_Subset
<1>2. \A s \in SUBSET S : SumOf(f, S)[s] = SumStep(f, SumOf(f, S), s)
  BY <1>1, SumExists
<1>3. \A s \in SUBSET S : SumOf(f, U)[s] = SumStep(f, SumOf(f, U), s)
  <2>1. \A s \in SUBSET U : SumOf(f, U)[s] = SumStep(f, SumOf(f, U), s)
    BY SumExists
  <2> QED
    BY <2>1
<1>4. \A s \in SUBSET S : SumOf(f, S)[s] = SumOf(f, U)[s]
  BY <1>1, <1>2, <1>3, SumAgree
<1>5. SumOf(f, U) \in [SUBSET U -> Int]
  BY SumExists
<1>6. SumOf(f, S)[S] = SumOf(f, U)[S] /\ SumOf(f, U)[S] \in Int
  BY <1>4, <1>5
<1> QED
  BY <1>6, SumDef

\* Sums of the same summands are the same.
LEMMA SumSame ==
    ASSUME NEW S, IsFiniteSet(S), NEW f, NEW g, \A x \in S : f[x] \in Int /\ f[x] = g[x]
    PROVE  SumFunctionOnSet(f, S) = SumFunctionOnSet(g, S)
<1>1. \A s \in SUBSET S : SumOf(f, S)[s] = SumStep(f, SumOf(f, S), s)
  BY SumExists
<1>2. \A s \in SUBSET S : SumOf(g, S)[s] = SumStep(g, SumOf(g, S), s)
  BY SumExists
<1>3. \A s \in SUBSET S : SumOf(f, S)[s] = SumOf(g, S)[s]
  BY <1>1, <1>2, SumAgree
<1> QED
  BY <1>3, SumDef

\* Any summand can be taken out.
LEMMA SumRemove ==
    ASSUME NEW U, IsFiniteSet(U), NEW f, \A x \in U : f[x] \in Int, NEW x \in U
    PROVE  SumFunctionOnSet(f, U) = f[x] + SumFunctionOnSet(f, U \ {x})
<1> DEFINE S(s) == SumFunctionOnSet(f, s)
           T == {n \in Nat : \A s \in SUBSET U : Cardinality(s) = n =>
                                \A y \in s : S(s) = f[y] + S(s \ {y})}
<1>1. \A s \in SUBSET U : S(s) \in Int
  BY SumPart
<1>2. ASSUME NEW s \in SUBSET U, s # {}
      PROVE  Some(s) \in s /\ S(s) = f[Some(s)] + S(s \ {Some(s)})
  <2>1. Some(s) \in s /\ s \ {Some(s)} \in SUBSET U
    BY <1>2, SomeOf
  <2>2. S(s) = SumOf(f, U)[s] /\ S(s \ {Some(s)}) = SumOf(f, U)[s \ {Some(s)}]
    BY <2>1, SumPart
  <2>3. SumOf(f, U)[s] = SumStep(f, SumOf(f, U), s)
    BY SumExists
  <2> QED
    BY <1>2, <2>1, <2>2, <2>3 DEF SumStep
<1> HIDE DEF S
<1>3. 0 \in T
  <2>1. ASSUME NEW s \in SUBSET U, Cardinality(s) = 0
        PROVE  s = {}
    BY <2>1, SomeOf
  <2> QED
    BY <2>1
<1>4. ASSUME NEW n \in T
      PROVE  n + 1 \in T
  <2>1. ASSUME NEW s \in SUBSET U, Cardinality(s) = n + 1, NEW y \in s
        PROVE  S(s) = f[y] + S(s \ {y})
    <3> DEFINE c == Some(s)
    <3>1. c \in s /\ S(s) = f[c] + S(s \ {c})
      BY <1>2
    <3> HIDE DEF c
    <3>2. CASE y = c
      BY <3>1, <3>2
    <3>3. CASE y # c
      <4>1. IsFiniteSet(s) /\ n \in Nat
        BY SomeOf
      <4>2a. Cardinality(s \ {c}) = Cardinality(s) - 1 /\ Cardinality(s \ {y}) = Cardinality(s) - 1
        BY <3>1, <4>1, FS_RemoveElement
      <4>2. Cardinality(s \ {c}) = n /\ Cardinality(s \ {y}) = n
        BY <2>1, <4>1, <4>2a
      <4>3. /\ s \ {c} \in SUBSET U /\ y \in s \ {c}
            /\ s \ {y} \in SUBSET U /\ c \in s \ {y}
        BY <2>1, <3>1, <3>3
      <4>4. S(s \ {c}) = f[y] + S((s \ {c}) \ {y}) /\ S(s \ {y}) = f[c] + S((s \ {y}) \ {c})
        BY <4>2, <4>3
      <4>5. (s \ {c}) \ {y} = (s \ {y}) \ {c}
        OBVIOUS
      <4>6a. (s \ {c}) \ {y} \in SUBSET U /\ c \in U /\ y \in U
        BY <2>1, <3>1
      <4>6. f[c] \in Int /\ f[y] \in Int /\ S((s \ {c}) \ {y}) \in Int
        BY <1>1, <4>6a
      <4> DEFINE z == S((s \ {c}) \ {y})
      <4>7. S(s \ {c}) = f[y] + z /\ S(s \ {y}) = f[c] + z /\ z \in Int
        BY <4>4, <4>5, <4>6
      <4> HIDE DEF z
      <4> QED
        BY <3>1, <4>6, <4>7
    <3> QED
      BY <3>2, <3>3
  <2> QED
    BY <2>1
<1>5. \A n \in Nat : n \in T
  <2>1. T \in SUBSET Nat
    OBVIOUS
  <2> HIDE DEF T
  <2> QED
    BY <1>3, <1>4, <2>1, NumberInduction
<1>6. Cardinality(U) \in Nat
  BY FS_CardinalityType
<1>7. S(U) = f[x] + S(U \ {x})
  BY <1>5, <1>6
<1> QED
  BY <1>7 DEF S

\* One more summand.
LEMMA SumAdd ==
    ASSUME NEW S, IsFiniteSet(S), NEW x, x \notin S, NEW f, \A y \in S \cup {x} : f[y] \in Int
    PROVE  SumFunctionOnSet(f, S \cup {x}) = SumFunctionOnSet(f, S) + f[x]
<1>1. IsFiniteSet(S \cup {x}) /\ x \in S \cup {x} /\ (S \cup {x}) \ {x} = S
  BY FS_AddElement
<1>2. SumFunctionOnSet(f, S \cup {x}) = f[x] + SumFunctionOnSet(f, (S \cup {x}) \ {x})
  BY <1>1, SumRemove
<1>3. S \in SUBSET S /\ \A y \in S : f[y] \in Int
  OBVIOUS
<1>4. SumFunctionOnSet(f, S) \in Int /\ f[x] \in Int
  BY <1>3, SumPart
<1> DEFINE t == SumFunctionOnSet(f, S)
<1>5. SumFunctionOnSet(f, S \cup {x}) = f[x] + t /\ t \in Int /\ f[x] \in Int
  BY <1>1, <1>2, <1>4
<1> HIDE DEF t
<1>6. SumFunctionOnSet(f, S \cup {x}) = t + f[x]
  BY <1>5
<1> QED
  BY <1>6 DEF t

\* A sum of sums.
LEMMA SumPlus ==
    ASSUME NEW U, IsFiniteSet(U), NEW f, NEW g, NEW h,
           \A x \in U : f[x] \in Int /\ g[x] \in Int /\ h[x] = f[x] + g[x]
    PROVE  SumFunctionOnSet(h, U) = SumFunctionOnSet(f, U) + SumFunctionOnSet(g, U)
<1> DEFINE F == {S \in SUBSET U : SumFunctionOnSet(h, S)
                                     = SumFunctionOnSet(f, S) + SumFunctionOnSet(g, S)}
<1>1. {} \in F
  BY SumEmpty
<1>2. ASSUME NEW S \in F, NEW x \in U \ S
      PROVE  S \cup {x} \in F
  <2>1. IsFiniteSet(S) /\ x \notin S /\ S \cup {x} \in SUBSET U
    BY FS_Subset
  <2>2. \A y \in S \cup {x} : f[y] \in Int /\ g[y] \in Int /\ h[y] \in Int
    OBVIOUS
  <2>3. SumFunctionOnSet(h, S \cup {x}) = SumFunctionOnSet(h, S) + h[x]
    BY <2>1, <2>2, SumAdd
  <2>4. SumFunctionOnSet(f, S \cup {x}) = SumFunctionOnSet(f, S) + f[x]
    BY <2>1, <2>2, SumAdd
  <2>5. SumFunctionOnSet(g, S \cup {x}) = SumFunctionOnSet(g, S) + g[x]
    BY <2>1, <2>2, SumAdd
  <2>6. SumFunctionOnSet(f, S) \in Int /\ SumFunctionOnSet(g, S) \in Int
    BY SumPart
  <2> QED
    BY <2>1, <2>2, <2>3, <2>4, <2>5, <2>6
<1>3. F \in SUBSET (SUBSET U)
  OBVIOUS
<1> HIDE DEF F
<1>4. U \in F
  BY <1>1, <1>2, <1>3, FiniteInduction
<1> QED
  BY <1>4 DEF F

\* Summands of two sets.
LEMMA SumUnion ==
    ASSUME NEW U, IsFiniteSet(U), NEW A, IsFiniteSet(A), A \cap U = {},
           NEW f, \A x \in A \cup U : f[x] \in Int
    PROVE  SumFunctionOnSet(f, A \cup U) = SumFunctionOnSet(f, A) + SumFunctionOnSet(f, U)
<1> DEFINE F == {S \in SUBSET U : SumFunctionOnSet(f, A \cup S)
                                     = SumFunctionOnSet(f, A) + SumFunctionOnSet(f, S)}
<1>0. SumFunctionOnSet(f, A) \in Int
  <2>1. A \in SUBSET A /\ \A x \in A : f[x] \in Int
    OBVIOUS
  <2> QED
    BY <2>1, SumPart
<1>1. {} \in F
  <2>1. A \cup {} = A
    OBVIOUS
  <2> QED
    BY <1>0, <2>1, SumEmpty
<1>2. ASSUME NEW S \in F, NEW x \in U \ S
      PROVE  S \cup {x} \in F
  <2>1. IsFiniteSet(S) /\ x \notin S /\ S \cup {x} \in SUBSET U
    BY FS_Subset
  <2>2. IsFiniteSet(A \cup S) /\ x \notin A \cup S /\ A \cup (S \cup {x}) = (A \cup S) \cup {x}
    BY <2>1, FS_Union
  <2>3. \A y \in (A \cup S) \cup {x} : f[y] \in Int
    OBVIOUS
  <2>4. SumFunctionOnSet(f, S \cup {x}) = SumFunctionOnSet(f, S) + f[x]
    <3>1. \A y \in S \cup {x} : f[y] \in Int
      OBVIOUS
    <3> QED
      BY <2>1, <3>1, SumAdd
  <2>5. SumFunctionOnSet(f, (A \cup S) \cup {x}) = SumFunctionOnSet(f, A \cup S) + f[x]
    BY <2>2, <2>3, SumAdd
  <2>6. SumFunctionOnSet(f, S) \in Int /\ f[x] \in Int
    <3>1. S \in SUBSET U /\ \A y \in U : f[y] \in Int
      OBVIOUS
    <3> QED
      BY <3>1, SumPart
  <2> DEFINE a == SumFunctionOnSet(f, A)
             b == SumFunctionOnSet(f, S)
             c == SumFunctionOnSet(f, S \cup {x})
             d == SumFunctionOnSet(f, A \cup (S \cup {x}))
  <2>7. c = b + f[x] /\ d = (a + b) + f[x] /\ a \in Int /\ b \in Int /\ f[x] \in Int
    BY <1>0, <2>2, <2>4, <2>5, <2>6
  <2> HIDE DEF a, b, c, d
  <2>8. d = a + c
    BY <2>7
  <2> QED
    BY <2>1, <2>8 DEF a, c, d
<1>3. F \in SUBSET (SUBSET U)
  OBVIOUS
<1> HIDE DEF F
<1>4. U \in F
  BY <1>1, <1>2, <1>3, FiniteInduction
<1> QED
  BY <1>4 DEF F

\* Summands that are all 0.
LEMMA SumZero ==
    ASSUME NEW U, IsFiniteSet(U), NEW f, \A x \in U : f[x] = 0
    PROVE  SumFunctionOnSet(f, U) = 0
<1> DEFINE F == {S \in SUBSET U : SumFunctionOnSet(f, S) = 0}
<1>1. {} \in F
  BY SumEmpty
<1>2. ASSUME NEW S \in F, NEW x \in U \ S
      PROVE  S \cup {x} \in F
  <2>1. IsFiniteSet(S) /\ x \notin S /\ S \cup {x} \in SUBSET U
    BY FS_Subset
  <2>2. \A y \in S \cup {x} : f[y] \in Int
    OBVIOUS
  <2>3. SumFunctionOnSet(f, S \cup {x}) = SumFunctionOnSet(f, S) + f[x]
    BY <2>1, <2>2, SumAdd
  <2> QED
    BY <2>1, <2>3
<1>3. F \in SUBSET (SUBSET U)
  OBVIOUS
<1> HIDE DEF F
<1>4. U \in F
  BY <1>1, <1>2, <1>3, FiniteInduction
<1> QED
  BY <1>4 DEF F

\* An interval and the next number.
LEMMA NextInterval ==
    ASSUME NEW a \in Int, NEW b \in Int, a <= b + 1
    PROVE  a..b + 1 = (a..b) \cup {b + 1} /\ b + 1 \notin a..b
OBVIOUS

\* Summands that stand further on.
LEMMA SumShift ==
    ASSUME NEW n \in Nat, NEW m \in Nat, NEW f, NEW g,
           \A i \in 1..m : f[i] \in Int /\ f[i] = g[n + i]
    PROVE  SumFunctionOnSet(f, 1..m) = SumFunctionOnSet(g, n + 1..n + m)
<1> DEFINE T == {j \in Nat : j <= m => SumFunctionOnSet(f, 1..j) = SumFunctionOnSet(g, n + 1..n + j)}
<1>1. 0 \in T
  <2>1. 1..0 = {} /\ n + 1..n + 0 = {}
    OBVIOUS
  <2> QED
    BY <2>1, SumEmpty
<1>2. ASSUME NEW j \in T
      PROVE  j + 1 \in T
  <2> SUFFICES ASSUME j + 1 <= m
               PROVE  SumFunctionOnSet(f, 1..j + 1) = SumFunctionOnSet(g, n + 1..n + (j + 1))
    OBVIOUS
  <2>1. SumFunctionOnSet(f, 1..j) = SumFunctionOnSet(g, n + 1..n + j)
    OBVIOUS
  <2> DEFINE A == 1..j
             B == n + 1..n + j
             k == n + (j + 1)
  <2>2. /\ 1..j + 1 = A \cup {j + 1} /\ j + 1 \notin A /\ j + 1 \in 1..m
        /\ n + 1..k = B \cup {k} /\ k \notin B
    <3>1. /\ j \in Nat /\ n \in Nat /\ j + 1 \in 1..m /\ k = (n + j) + 1
          /\ n + 1 \in Int /\ n + j \in Int /\ n + 1 <= (n + j) + 1 /\ 1 <= j + 1
      OBVIOUS
    <3> HIDE DEF k
    <3>2. 1..j + 1 = A \cup {j + 1} /\ j + 1 \notin A
      BY <3>1, NextInterval
    <3>3. n + 1..(n + j) + 1 = B \cup {(n + j) + 1} /\ (n + j) + 1 \notin B
      BY <3>1, NextInterval
    <3> QED
      BY <3>1, <3>2, <3>3
  <2>3. IsFiniteSet(A) /\ IsFiniteSet(B)
    BY FS_Interval
  <2>4. \A i \in A \cup {j + 1} : f[i] \in Int
    OBVIOUS
  <2>5. \A i \in B \cup {k} : g[i] \in Int
    <3>1. \A i \in B \cup {k} : i - n \in 1..m /\ n + (i - n) = i
      OBVIOUS
    <3> HIDE DEF B, k
    <3>2. \A i \in B \cup {k} : g[n + (i - n)] \in Int
      BY <3>1
    <3> QED
      BY <3>1, <3>2
  <2>6. f[j + 1] = g[k]
    BY <2>2
  <2> DEFINE l == j + 1
  <2> HIDE DEF A, B, k, l
  <2>7. SumFunctionOnSet(f, A \cup {l}) = SumFunctionOnSet(f, A) + f[l]
    <3>1. IsFiniteSet(A) /\ l \notin A /\ \A i \in A \cup {l} : f[i] \in Int
      BY <2>2, <2>3, <2>4 DEF l
    <3> QED
      BY <3>1, SumAdd
  <2>8. SumFunctionOnSet(g, B \cup {k}) = SumFunctionOnSet(g, B) + g[k]
    BY <2>2, <2>3, <2>5, SumAdd, ZenonT(60)
  <2>9. SumFunctionOnSet(f, A) = SumFunctionOnSet(g, B)
    BY <2>1 DEF A, B
  <2>10. SumFunctionOnSet(f, 1..j + 1) = SumFunctionOnSet(g, n + 1..k)
    BY <2>2, <2>6, <2>7, <2>8, <2>9 DEF l
  <2> QED
    BY <2>10 DEF k
<1>3. T \in SUBSET Nat
  OBVIOUS
<1>4. m \in T
  <2> HIDE DEF T
  <2> QED
    BY <1>1, <1>2, <1>3, NumberInduction
<1> QED
  BY <1>4

\* The summands may be named otherwise.
LEMMA SumFunctionIs ==
    ASSUME NEW f
    PROVE  SumFunction(f) = SumFunctionOnSet(f, DOMAIN f)
BY Zenon DEF SumFunction, SumFunctionOnSet, FoldFunction

\* A sum over a part of a set, as one over the whole.
LEMMA SumExtend ==
    ASSUME NEW U, IsFiniteSet(U), NEW f, DOMAIN f \subseteq U, NEW g,
           \A x \in U : g[x] \in Int,
           \A x \in DOMAIN f : g[x] = f[x], \A x \in U : x \notin DOMAIN f => g[x] = 0
    PROVE  SumFunction(f) = SumFunctionOnSet(g, U)
<1> DEFINE K == DOMAIN f
           R == U \ K
<1>1. IsFiniteSet(K) /\ IsFiniteSet(R) /\ R \cap K = {} /\ R \cup K = U
  BY FS_Subset
<1>2. \A x \in R \cup K : g[x] \in Int
  BY <1>1
<1>3. \A x \in R : g[x] = 0
  OBVIOUS
<1>4. \A x \in K : f[x] \in Int /\ f[x] = g[x]
  OBVIOUS
<1>5. SumFunction(f) = SumFunctionOnSet(f, K)
  BY SumFunctionIs
<1> HIDE DEF R, K
<1>6. SumFunctionOnSet(g, R \cup K) = SumFunctionOnSet(g, R) + SumFunctionOnSet(g, K)
  BY ONLY <1>1, <1>2, SumUnion
<1>7. SumFunctionOnSet(g, R) = 0
  BY ONLY <1>1, <1>3, SumZero
<1>8. SumFunctionOnSet(f, K) = SumFunctionOnSet(g, K)
  BY ONLY <1>1, <1>4, SumSame
<1>9. SumFunctionOnSet(g, K) \in Int
  <2>1. K \in SUBSET K /\ \A x \in K : g[x] \in Int
    BY <1>2
  <2> QED
    BY <1>1, <2>1, SumPart
<1>10. SumFunctionOnSet(g, U) = SumFunctionOnSet(g, R \cup K)
  BY <1>1, Zenon
<1> QED
  BY <1>5, <1>6, <1>7, <1>8, <1>9, <1>10

\* A summand that changes.
LEMMA SumChange ==
    ASSUME NEW U, IsFiniteSet(U), NEW x \in U, NEW f, NEW g,
           \A y \in U : f[y] \in Int /\ g[y] \in Int,
           \A y \in U : y # x => g[y] = f[y]
    PROVE  SumFunctionOnSet(g, U) = SumFunctionOnSet(f, U) + (g[x] - f[x])
<1> DEFINE a == SumFunctionOnSet(f, U)
           b == SumFunctionOnSet(g, U)
           c == SumFunctionOnSet(f, U \ {x})
           d == SumFunctionOnSet(g, U \ {x})
<1>1. a = f[x] + c /\ b = g[x] + d
  BY SumRemove
<1>2. IsFiniteSet(U \ {x}) /\ U \ {x} \in SUBSET U
  BY FS_Subset
<1>3. c \in Int
  BY <1>2, SumPart
<1>4. \A y \in U \ {x} : f[y] \in Int /\ f[y] = g[y]
  OBVIOUS
<1>5. c = d
  BY <1>2, <1>4, SumSame
<1>6. f[x] \in Int /\ g[x] \in Int
  OBVIOUS
<1> HIDE DEF a, b, c, d
<1>7. b = a + (g[x] - f[x])
  BY <1>1, <1>3, <1>5, <1>6
<1> QED
  BY <1>7 DEF a, b

\* Counting is adding up ones.
LEMMA SumOnes ==
    ASSUME NEW U, IsFiniteSet(U), NEW f, \A x \in U : f[x] \in {0, 1}
    PROVE  SumFunctionOnSet(f, U) = Cardinality({x \in U : f[x] = 1})
<1> DEFINE C(S) == {x \in S : f[x] = 1}
           F == {S \in SUBSET U : SumFunctionOnSet(f, S) = Cardinality(C(S))}
<1>1. {} \in F
  <2>1. C({}) = {}
    OBVIOUS
  <2> QED
    BY <2>1, SumEmpty, FS_EmptySet
<1>2. ASSUME NEW S \in F, NEW x \in U \ S
      PROVE  S \cup {x} \in F
  <2>1. IsFiniteSet(S) /\ x \notin S /\ S \cup {x} \in SUBSET U /\ C(S) \in SUBSET S
    BY FS_Subset
  <2>2. \A y \in S \cup {x} : f[y] \in Int
    OBVIOUS
  <2>3. SumFunctionOnSet(f, S \cup {x}) = SumFunctionOnSet(f, S) + f[x]
    BY <2>1, <2>2, SumAdd
  <2>4. IsFiniteSet(C(S)) /\ Cardinality(C(S)) \in Nat /\ x \notin C(S)
    BY <2>1, FS_Subset, FS_CardinalityType
  <2>5. C(S \cup {x}) = IF f[x] = 1 THEN C(S) \cup {x} ELSE C(S)
    OBVIOUS
  <2>6. f[x] = 0 \/ f[x] = 1
    OBVIOUS
  <2>7. SumFunctionOnSet(f, S) = Cardinality(C(S))
    OBVIOUS
  <2> HIDE DEF C
  <2>8. Cardinality(C(S) \cup {x}) = Cardinality(C(S)) + 1
    BY <2>4, FS_AddElement
  <2>9. SumFunctionOnSet(f, S \cup {x}) = Cardinality(C(S \cup {x}))
    BY <2>3, <2>4, <2>5, <2>6, <2>7, <2>8
  <2> QED
    BY <2>1, <2>9
<1>3. F \in SUBSET (SUBSET U)
  OBVIOUS
<1> HIDE DEF F
<1>4. U \in F
  BY <1>1, <1>2, <1>3, FiniteInduction
<1> QED
  BY <1>4 DEF F

-----------------------------------------------------------------------------
(***************************************************************************)
(* What the elements of a sequence add up to.                              *)
(***************************************************************************)

\* A sequence that is cut in two.
LEMMA Cut ==
    ASSUME NEW S, NEW q \in Seq(S), NEW n \in 0..Len(q)
    PROVE  /\ SubSeq(q, 1, n) \in Seq(S) /\ Len(SubSeq(q, 1, n)) = n
           /\ \A i \in 1..n : SubSeq(q, 1, n)[i] = q[i]
           /\ SubSeq(q, n + 1, Len(q)) \in Seq(S)
           /\ Len(SubSeq(q, n + 1, Len(q))) = Len(q) - n
           /\ \A i \in 1..Len(q) - n : SubSeq(q, n + 1, Len(q))[i] = q[n + i]
<1>1. Len(q) \in Nat /\ n \in Nat /\ \A i \in 1..Len(q) : q[i] \in S
  BY LenProperties, ElementOfSeq
<1>2. /\ SubSeq(q, 1, n) \in Seq(S)
      /\ Len(SubSeq(q, 1, n)) = IF 1 <= n THEN n - 1 + 1 ELSE 0
      /\ \A i \in 1..n - 1 + 1 : SubSeq(q, 1, n)[i] = q[1 + i - 1]
  BY <1>1, SubSeqProperties
<1>3. /\ SubSeq(q, n + 1, Len(q)) \in Seq(S)
      /\ Len(SubSeq(q, n + 1, Len(q))) = IF n + 1 <= Len(q) THEN Len(q) - (n + 1) + 1 ELSE 0
      /\ \A i \in 1..Len(q) - (n + 1) + 1 : SubSeq(q, n + 1, Len(q))[i] = q[(n + 1) + i - 1]
  BY <1>1, SubSeqProperties
<1> QED
  BY <1>1, <1>2, <1>3

\* The values of the elements of a sequence, and their sum.
Values(v, q) == [i \in DOMAIN q |-> v[q[i]]]

Total(v, q) == SumFunction(Values(v, q))

LEMMA TotalIs ==
    ASSUME NEW S, NEW v \in [S -> Int], NEW q \in Seq(S)
    PROVE  /\ Len(q) \in Nat /\ IsFiniteSet(1..Len(q))
           /\ \A i \in 1..Len(q) : q[i] \in S /\ Values(v, q)[i] = v[q[i]] /\ v[q[i]] \in Int
           /\ Total(v, q) = SumFunctionOnSet(Values(v, q), 1..Len(q))
           /\ Total(v, q) \in Int
<1>1. Len(q) \in Nat /\ DOMAIN q = 1..Len(q)
  BY LenProperties
<1>2. IsFiniteSet(1..Len(q))
  BY <1>1, FS_Interval
<1>3. \A i \in 1..Len(q) : q[i] \in S
  BY <1>1, ElementOfSeq
<1>4. \A i \in 1..Len(q) : Values(v, q)[i] = v[q[i]] /\ v[q[i]] \in Int
  BY <1>1, <1>3 DEF Values
<1>5. DOMAIN Values(v, q) = 1..Len(q)
  BY <1>1 DEF Values
<1>6. Total(v, q) = SumFunctionOnSet(Values(v, q), 1..Len(q))
  BY <1>5, SumFunctionIs DEF Total
<1>7. SumFunctionOnSet(Values(v, q), 1..Len(q)) \in Int
  <2>1. 1..Len(q) \in SUBSET (1..Len(q)) /\ \A i \in 1..Len(q) : Values(v, q)[i] \in Int
    BY <1>4
  <2> QED
    BY <1>2, <2>1, SumPart
<1> QED
  BY <1>1, <1>2, <1>3, <1>4, <1>6, <1>7

\* Nothing.
LEMMA TotalEmpty ==
    ASSUME NEW v
    PROVE  Total(v, <<>>) = 0
<1> DEFINE f == Values(v, <<>>)
<1>1. DOMAIN f = {}
  BY DEF Values
<1> HIDE DEF f
<1>2. SumFunction(f) = 0
  BY <1>1, SumFunctionIs, SumEmpty
<1> QED
  BY <1>2 DEF Total, f

\* Another element.
LEMMA TotalAppend ==
    ASSUME NEW S, NEW v \in [S -> Int], NEW q \in Seq(S), NEW s \in S
    PROVE  /\ Append(q, s) \in Seq(S) /\ v[s] \in Int /\ Total(v, q) \in Int
           /\ Total(v, Append(q, s)) = Total(v, q) + v[s]
<1> DEFINE r == Append(q, s)
           n == Len(q) + 1
           f == Values(v, q)
           g == Values(v, r)
<1>1. /\ r \in Seq(S) /\ Len(r) = n /\ Len(q) \in Nat /\ r[n] = s
      /\ \A i \in 1..Len(q) : r[i] = q[i]
  BY AppendProperties, LenProperties
<1> HIDE DEF r
<1>2. /\ IsFiniteSet(1..Len(q)) /\ \A i \in 1..Len(q) : f[i] = v[q[i]] /\ v[q[i]] \in Int
      /\ Total(v, q) = SumFunctionOnSet(f, 1..Len(q)) /\ Total(v, q) \in Int
  BY TotalIs
<1>3. /\ \A i \in 1..n : g[i] = v[r[i]] /\ v[r[i]] \in Int
      /\ Total(v, r) = SumFunctionOnSet(g, 1..n)
  BY <1>1, TotalIs
<1> HIDE DEF f, g
<1>4. 1..n = (1..Len(q)) \cup {n} /\ n \notin 1..Len(q) /\ n \in 1..n
  BY <1>1
<1>5. SumFunctionOnSet(g, (1..Len(q)) \cup {n}) = SumFunctionOnSet(g, 1..Len(q)) + g[n]
  <2>1. \A i \in (1..Len(q)) \cup {n} : g[i] \in Int
    BY <1>3, <1>4
  <2> QED
    BY <1>2, <1>4, <2>1, SumAdd, ZenonT(60)
<1>6. SumFunctionOnSet(f, 1..Len(q)) = SumFunctionOnSet(g, 1..Len(q))
  <2>1. \A i \in 1..Len(q) : f[i] \in Int /\ f[i] = g[i]
    BY <1>1, <1>2, <1>3, <1>4
  <2> QED
    BY <1>2, <2>1, SumSame
<1>7. g[n] = v[s] /\ v[s] \in Int
  BY <1>1, <1>3, <1>4
<1> QED
  BY <1>1, <1>2, <1>3, <1>4, <1>5, <1>6, <1>7 DEF r

\* The two parts of a sequence.
LEMMA TotalCut ==
    ASSUME NEW S, NEW v \in [S -> Int], NEW q \in Seq(S), NEW n \in 0..Len(q)
    PROVE  /\ Total(v, SubSeq(q, 1, n)) \in Int
           /\ Total(v, SubSeq(q, n + 1, Len(q))) \in Int
           /\ Total(v, q) = Total(v, SubSeq(q, 1, n)) + Total(v, SubSeq(q, n + 1, Len(q)))
<1> DEFINE a == SubSeq(q, 1, n)
           b == SubSeq(q, n + 1, Len(q))
           f == Values(v, q)
           g == Values(v, a)
           h == Values(v, b)
           B == n + 1..Len(q)
           m == Len(q) - n
<1>1. /\ a \in Seq(S) /\ Len(a) = n /\ \A i \in 1..n : a[i] = q[i]
      /\ b \in Seq(S) /\ Len(b) = m /\ \A i \in 1..m : b[i] = q[n + i]
      /\ Len(q) \in Nat /\ n \in Nat
  <2>1. Len(q) \in Nat /\ n \in Nat
    BY LenProperties
  <2> QED
    BY <2>1, Cut, Zenon
<1> HIDE DEF a, b
<1>2. /\ IsFiniteSet(1..Len(q)) /\ \A i \in 1..Len(q) : f[i] = v[q[i]] /\ v[q[i]] \in Int
      /\ Total(v, q) = SumFunctionOnSet(f, 1..Len(q))
  BY TotalIs
<1>3. /\ IsFiniteSet(1..n) /\ \A i \in 1..n : g[i] = v[a[i]] /\ v[a[i]] \in Int
      /\ Total(v, a) = SumFunctionOnSet(g, 1..n) /\ Total(v, a) \in Int
  <2>0. a \in Seq(S)
    BY <1>1
  <2>1. /\ IsFiniteSet(1..Len(a))
        /\ \A i \in 1..Len(a) : a[i] \in S /\ g[i] = v[a[i]] /\ v[a[i]] \in Int
        /\ Total(v, a) = SumFunctionOnSet(g, 1..Len(a)) /\ Total(v, a) \in Int
    BY <2>0, TotalIs, Zenon
  <2> HIDE DEF g, m
  <2> QED
    BY <1>1, <2>1, Zenon
<1>4. /\ IsFiniteSet(1..m) /\ \A i \in 1..m : h[i] = v[b[i]] /\ v[b[i]] \in Int
      /\ Total(v, b) = SumFunctionOnSet(h, 1..m) /\ Total(v, b) \in Int
  <2>0. b \in Seq(S)
    BY <1>1
  <2>1. /\ IsFiniteSet(1..Len(b))
        /\ \A i \in 1..Len(b) : b[i] \in S /\ h[i] = v[b[i]] /\ v[b[i]] \in Int
        /\ Total(v, b) = SumFunctionOnSet(h, 1..Len(b)) /\ Total(v, b) \in Int
    BY <2>0, TotalIs, Zenon
  <2> HIDE DEF h, m
  <2> QED
    BY <1>1, <2>1, Zenon
<1> HIDE DEF f, g, h
<1>5. SumFunctionOnSet(g, 1..n) = SumFunctionOnSet(f, 1..n)
  <2>1. \A i \in 1..n : i \in 1..Len(q)
    BY <1>1
  <2>2. \A i \in 1..n : g[i] \in Int /\ g[i] = f[i]
    BY <1>1, <1>2, <1>3, <2>1
  <2> QED
    BY <1>3, <2>2, SumSame
<1>6. SumFunctionOnSet(h, 1..m) = SumFunctionOnSet(f, B)
  <2>1. \A i \in 1..m : n + i \in 1..Len(q)
    BY <1>1
  <2>2. ASSUME NEW i \in 1..m
        PROVE  h[i] \in Int /\ h[i] = f[n + i]
    <3>1. f[n + i] = v[q[n + i]]
      BY <1>2, <2>1
    <3>2. b[i] = q[n + i] /\ h[i] = v[b[i]] /\ v[b[i]] \in Int
      BY <1>1, <1>4
    <3> QED
      BY <3>1, <3>2
  <2>3. m \in Nat /\ n \in Nat /\ B = n + 1..n + m
    BY <1>1
  <2> HIDE DEF m, B
  <2> QED
    BY <2>2, <2>3, SumShift, ZenonT(60)
<1>7. SumFunctionOnSet(f, (1..n) \cup B) = SumFunctionOnSet(f, 1..n) + SumFunctionOnSet(f, B)
  <2>1. (1..n) \cap B = {} /\ B \in SUBSET (1..Len(q)) /\ 1..n \in SUBSET (1..Len(q))
    BY <1>1
  <2>2. IsFiniteSet(B)
    BY <1>2, <2>1, FS_Subset
  <2>3. \A i \in (1..n) \cup B : f[i] \in Int
    BY <1>2, <2>1
  <2> QED
    BY <1>3, <2>1, <2>2, <2>3, SumUnion
<1>8. (1..n) \cup B = 1..Len(q)
  BY <1>1
<1> QED
  BY <1>2, <1>3, <1>4, <1>5, <1>6, <1>7, <1>8 DEF a, b

-----------------------------------------------------------------------------
(***************************************************************************)
(* The inductive invariant.                                                *)
(***************************************************************************)

\* Samples of the timeline: what they accumulated ran on their context.
Own == {s \in Samples : s.hw \in HwIds /\ (s.zero \/ s.ran \subseteq {s.hw})}

\* Samples whose intervals ran on hw.
RanOn(hw) == {s \in Samples : s.ran \subseteq {hw}}

\* Types, without the counts of chunks and what is only added up.
Types ==
    /\ cpu_timestamps \in BOOLEAN
    /\ chunk \in Chunks \cup {None}
    /\ report \in Reports
    /\ last \in Reports \cup {None}
    /\ last_oa_timestamp \in Int
    /\ hw_contexts \in [HwIds -> Contexts \cup {None}]
    /\ timelines \in Seq(Own)
    /\ current_timeline_samples \in Own \cup {None}
    /\ current_graph_samples \in Samples \cup {None}
    /\ now \in Int /\ zeros \in Nat

InReport == {"graph", "timeline", "accumulate", "context", "global", "finish"}

\* What the blocks of i915_perf_accumulate() rely on.
Phases ==
    /\ pc \in {"timeline", "accumulate", "context", "global"} => current_graph_samples # None
    /\ pc \in {"accumulate", "context", "global"} => last # None
    /\ last = None => current_timeline_samples = None
    /\ pc = "context" => context \in HwIds

\* The sample in progress belongs to the context of the last report, unless a
\* change of context was missed.
InProgress ==
    current_timeline_samples # None =>
       \/ current_timeline_samples.zero
       \/ current_timeline_samples.hw =
             IF pc \in {"context", "global", "finish"} THEN report.hw ELSE last.hw

\* No change of context is missed as long as every timestamp is believed.
AllBelieved ==
    zeros = 0 =>
       /\ last # None => last.ts # 0
       /\ pc \in InReport => report.ts # 0
       /\ current_timeline_samples # None => ~current_timeline_samples.zero
       /\ pc = "context" => context = last.hw

\* What a context's graphs accumulated ran on it.
GraphsOwn ==
    zeros = 0 => \A hw \in HwIds : hw_contexts[hw] # None =>
       /\ hw_contexts[hw].graphs \in Seq(RanOn(hw))
       /\ hw_contexts[hw].current_graph_samples \in RanOn(hw) \cup {None}

IInv ==
    /\ Types /\ Phases /\ ContextsInStep /\ ContextsCounted
    /\ InProgress /\ AllBelieved /\ GraphsOwn

-----------------------------------------------------------------------------
(***************************************************************************)
(* Samples.                                                                *)
(***************************************************************************)

\* NULL is no object.
LEMMA NoneIsNothing ==
    /\ None \notin Samples /\ None \notin Reports /\ None \notin Contexts
    /\ None \notin HwIds /\ None # INVALID /\ INVALID \notin HwIds
BY OaAssumption

\* Differences of timestamps are integers.
LEMMA Differences ==
    /\ \A a, b \in Int : Minus32(a, b) \in Int
    /\ \A a \in Int : a % U64 \in Int
<1>1. U32 \in Nat \ {0} /\ U64 \in Nat \ {0}
  BY OaAssumption
<1>2. \A a \in Int : a % U32 \in 0..U32 - 1 /\ a % U64 \in 0..U64 - 1
  BY <1>1, DivMod
<1>3. \A a \in Int : a % U32 \in Int /\ a % U64 \in Int
  BY <1>1, <1>2
<1> QED
  BY <1>3 DEF Minus32

\* A sample that begins.
LEMMA NewSample ==
    ASSUME NEW r, r.chunk \in Chunks \cup {None}, r.ts \in Int,
           NEW hw \in HwIds \cup {INVALID}, NEW t \in Int
    PROVE  /\ Sample(r, hw, t) \in Samples
           /\ Sample(r, hw, t).hw = hw /\ Sample(r, hw, t).ran = {}
           /\ Sample(r, hw, t).zero = FALSE
BY DEF Sample, Samples

\* What accumulating an interval does to a sample.
LEMMA Accumulated ==
    ASSUME NEW s \in Samples, NEW r0 \in Reports, NEW r1 \in Reports
    PROVE  LET t == gputop_cc_oa_accumulate_reports(s, r0, r1) IN
           /\ t \in Samples /\ t.hw = s.hw
           /\ \A x \in t.ran : x \in s.ran \/ (Believed(r0, r1) /\ x = r0.hw)
           /\ Believed(r0, r1) => t.zero = s.zero
           /\ ~Believed(r0, r1) => t.zero = TRUE
<1> DEFINE first == IF s.first = 0 THEN s.clock ELSE s.first
           d == Minus32(r1.ts, s.u32)
           e == Minus32(r1.ts, r0.ts)
           clock == s.clock + d
           t == gputop_cc_oa_accumulate_reports(s, r0, r1)
<1>1. /\ s.clock \in Int /\ s.first \in Int /\ s.u32 \in Int /\ s.delta \in Int
      /\ s.ran \in SUBSET (HwIds \cup {INVALID}) /\ s.zero \in BOOLEAN
      /\ r0.ts \in Int /\ r1.ts \in Int /\ r0.hw \in HwIds \cup {INVALID}
  BY DEF Samples, Reports
<1>2. d \in Int /\ e \in Int
  BY <1>1, Differences
<1> HIDE DEF d, e
<1>3. first \in Int /\ clock \in Int /\ clock - first \in Int /\ s.delta + e \in Int
  BY <1>1, <1>2
<1>4. s.ran \cup {r0.hw} \in SUBSET (HwIds \cup {INVALID})
  BY <1>1
<1>5. CASE Believed(r0, r1)
  <2>1. t = [s EXCEPT !.first = first, !.clock = clock, !.u32 = r1.ts,
                      !.elapsed = clock - first, !.delta = @ + e, !.ran = @ \cup {r0.hw}]
    BY <1>5 DEF gputop_cc_oa_accumulate_reports, d, e
  <2> HIDE DEF first, clock, t
  <2>2. t \in Samples /\ t.hw = s.hw /\ t.ran = s.ran \cup {r0.hw} /\ t.zero = s.zero
    BY <1>1, <1>3, <1>4, <2>1 DEF Samples
  <2>3. \A x \in t.ran : x \in s.ran \/ x = r0.hw
    BY <2>2
  <2> QED
    BY <1>5, <2>2, <2>3, Zenon DEF t
<1>6. CASE ~Believed(r0, r1)
  <2>1. t = [s EXCEPT !.zero = TRUE]
    BY <1>6 DEF gputop_cc_oa_accumulate_reports
  <2> HIDE DEF t
  <2> QED
    BY <1>6, <2>1 DEF Samples, t
<1> QED
  BY <1>5, <1>6

\* The timestamp of a report.
LEMMA TimestampType ==
    ASSUME Types, NEW r \in Reports
    PROVE  i915_perf_timestamp(r) \in Int
<1>1. r.at \in Int /\ r.ts \in Int /\ last_oa_timestamp \in Int
  BY DEF Reports, Types
<1>2. last # None => last.ts \in Int
  BY DEF Reports, Types
<1>3. last # None => (last_oa_timestamp + (r.ts - last.ts)) % U64 \in Int
  <2>1. last # None => last_oa_timestamp + (r.ts - last.ts) \in Int
    BY <1>1, <1>2
  <2> QED
    BY <2>1, Differences
<1> QED
  BY <1>1, <1>3 DEF i915_perf_timestamp

-----------------------------------------------------------------------------
(***************************************************************************)
(* How many samples of a sequence belong to a context.                     *)
(***************************************************************************)

\* The positions of its samples.
Places(q, hw) == {i \in 1..Len(q) : q[i].hw = hw}

\* They can be counted.
LEMMA OwnedType ==
    ASSUME NEW q \in Seq(Samples), NEW hw
    PROVE  /\ Owned(q, hw) = Cardinality(Places(q, hw))
           /\ IsFiniteSet(Places(q, hw)) /\ Owned(q, hw) \in Nat
<1>1. Len(q) \in Nat /\ DOMAIN q = 1..Len(q)
  BY LenProperties
<1>2. IsFiniteSet(1..Len(q))
  BY <1>1, FS_Interval
<1>3. Places(q, hw) \in SUBSET (1..Len(q))
  BY DEF Places
<1>4. IsFiniteSet(Places(q, hw))
  BY <1>2, <1>3, FS_Subset
<1>5. Cardinality(Places(q, hw)) \in Nat
  BY <1>4, FS_CardinalityType
<1>6. Owned(q, hw) = Cardinality(Places(q, hw))
  BY <1>1 DEF Owned, Places
<1> QED
  BY <1>4, <1>5, <1>6

\* None in an empty sequence.
LEMMA OwnedEmpty ==
    ASSUME NEW hw
    PROVE  Owned(<<>>, hw) = 0
<1>1. {i \in DOMAIN <<>> : <<>>[i].hw = hw} = {}
  OBVIOUS
<1> QED
  BY <1>1, FS_EmptySet DEF Owned

\* One more, if the sample that is appended belongs to it.
LEMMA OwnedAppend ==
    ASSUME NEW q \in Seq(Samples), NEW s \in Samples, NEW hw
    PROVE  /\ Append(q, s) \in Seq(Samples)
           /\ Owned(Append(q, s), hw) = Owned(q, hw) + (IF s.hw = hw THEN 1 ELSE 0)
<1> DEFINE r == Append(q, s)
           n == Len(q) + 1
<1>1. /\ r \in Seq(Samples) /\ Len(r) = n /\ Len(q) \in Nat /\ r[n] = s
      /\ \A i \in 1..Len(q) : r[i] = q[i]
  BY AppendProperties, LenProperties
<1> HIDE DEF r
<1>2. Places(r, hw) = IF s.hw = hw THEN Places(q, hw) \cup {n} ELSE Places(q, hw)
  BY <1>1 DEF Places
<1>3. n \notin Places(q, hw)
  BY <1>1 DEF Places
<1>4. IsFiniteSet(Places(q, hw)) /\ Owned(q, hw) = Cardinality(Places(q, hw))
  BY OwnedType
<1>5. Cardinality(Places(q, hw) \cup {n}) = Cardinality(Places(q, hw)) + 1
  BY <1>3, <1>4, FS_AddElement
<1>6. Owned(r, hw) = Cardinality(Places(r, hw)) /\ Owned(q, hw) \in Nat
  BY <1>1, OwnedType
<1> QED
  BY <1>1, <1>2, <1>4, <1>5, <1>6 DEF r

\* The samples of the timeline with the one in progress.
LEMMA OwnedOptional ==
    ASSUME NEW q \in Seq(Samples), NEW s \in Samples \cup {None}, NEW hw
    PROVE  /\ q \o Optional(s) \in Seq(Samples)
           /\ Owned(q \o Optional(s), hw)
                = Owned(q, hw) + (IF s # None /\ s.hw = hw THEN 1 ELSE 0)
<1>1. CASE s = None
  <2>1. Optional(s) = <<>>
    BY <1>1 DEF Optional
  <2>2. q \o <<>> = q
    BY ConcatEmptySeq
  <2>3. Owned(q, hw) \in Nat
    BY OwnedType
  <2> QED
    BY <1>1, <2>1, <2>2, <2>3
<1>2. CASE s # None
  <2>1. s \in Samples /\ Optional(s) = <<s>>
    BY <1>2 DEF Optional
  <2>2. q \o <<s>> = Append(q, s)
    BY <2>1, AppendIsConcat
  <2>3. /\ Append(q, s) \in Seq(Samples)
        /\ Owned(Append(q, s), hw) = Owned(q, hw) + (IF s.hw = hw THEN 1 ELSE 0)
    BY <2>1, OwnedAppend
  <2>4. (IF s # None /\ s.hw = hw THEN 1 ELSE 0) = (IF s.hw = hw THEN 1 ELSE 0)
    BY <1>2
  <2> QED
    BY <2>1, <2>2, <2>3, <2>4, Zenon
<1> QED
  BY <1>1, <1>2

\* The samples of a context are those in the first part and those in the rest.
LEMMA OwnedCut ==
    ASSUME NEW q \in Seq(Samples), NEW n \in 0..Len(q), NEW hw
    PROVE  Owned(q, hw) = Owned(SubSeq(q, 1, n), hw) + Owned(SubSeq(q, n + 1, Len(q)), hw)
<1> DEFINE a == SubSeq(q, 1, n)
           b == SubSeq(q, n + 1, Len(q))
           B == {i \in n + 1..Len(q) : q[i].hw = hw}
           f == [i \in B |-> i - n]
<1>1. /\ a \in Seq(Samples) /\ Len(a) = n /\ \A i \in 1..n : a[i] = q[i]
      /\ b \in Seq(Samples) /\ Len(b) = Len(q) - n /\ \A i \in 1..Len(q) - n : b[i] = q[n + i]
      /\ Len(q) \in Nat /\ n \in Nat
  BY Cut, LenProperties
<1> HIDE DEF a, b
<1>2. Places(q, hw) = Places(a, hw) \cup B
  <2>1. Places(a, hw) = {i \in 1..n : q[i].hw = hw}
    BY <1>1 DEF Places
  <2> QED
    BY <1>1, <2>1 DEF Places
<1>3. Places(a, hw) \cap B = {}
  BY <1>1 DEF Places
<1>4. /\ IsFiniteSet(Places(q, hw)) /\ IsFiniteSet(Places(a, hw)) /\ IsFiniteSet(Places(b, hw))
      /\ Owned(q, hw) = Cardinality(Places(q, hw))
      /\ Owned(a, hw) = Cardinality(Places(a, hw)) /\ Owned(a, hw) \in Nat
      /\ Owned(b, hw) = Cardinality(Places(b, hw)) /\ Owned(b, hw) \in Nat
  BY <1>1, OwnedType
<1>5. IsFiniteSet(B)
  <2>1. B \in SUBSET Places(q, hw)
    BY <1>2
  <2> QED
    BY <1>4, <2>1, FS_Subset
<1>6. ExistsBijection(B, Places(b, hw))
  <2>1. ASSUME NEW i \in B
        PROVE  i - n \in Places(b, hw)
    <3>1. i - n \in 1..Len(q) - n /\ n + (i - n) = i /\ q[i].hw = hw
      BY <1>1
    <3> QED
      BY <1>1, <3>1 DEF Places
  <2>2. ASSUME NEW j \in Places(b, hw)
        PROVE  n + j \in B /\ (n + j) - n = j
    <3>1. j \in 1..Len(q) - n /\ b[j].hw = hw
      BY <1>1 DEF Places
    <3> QED
      BY <1>1, <3>1
  <2>3. f \in [B -> Places(b, hw)]
    BY <2>1
  <2>4. \A i, j \in B : f[i] = f[j] => i = j
    BY <1>1
  <2>5. \A j \in Places(b, hw) : \E i \in B : f[i] = j
    BY <2>2
  <2>6. f \in Bijection(B, Places(b, hw))
    BY <2>3, <2>4, <2>5, Fun_IsBij
  <2> QED
    BY <2>6 DEF ExistsBijection
<1>7. Cardinality(B) = Cardinality(Places(b, hw))
  BY <1>5, <1>6, FS_Bijection
<1>8. Cardinality(Places(a, hw) \cup B) = Cardinality(Places(a, hw)) + Cardinality(B) - Cardinality({})
  BY <1>3, <1>4, <1>5, FS_Union
<1> QED
  BY <1>2, <1>4, <1>7, <1>8, FS_EmptySet DEF a, b

-----------------------------------------------------------------------------
(***************************************************************************)
(* Steps that leave the samples alone.                                     *)
(***************************************************************************)

\* Nothing has been received.
LEMMA InitInductive == Init => IInv
<1> SUFFICES ASSUME Init
             PROVE  IInv
  OBVIOUS
<1>1. Types
  <2>1. NoReport \in Reports
    BY DEF NoReport, Reports
  <2>2. timelines \in Seq(Own)
    BY DEF Init
  <2>3. Window \in Int /\ 0 \in Int /\ 0 \in Nat
    BY OaAssumption
  <2>4. hw_contexts \in [HwIds -> Contexts \cup {None}]
    BY DEF Init
  <2> QED
    BY <2>1, <2>2, <2>3, <2>4 DEF Init, Types
<1>2. Phases /\ ContextsInStep /\ InProgress /\ AllBelieved /\ GraphsOwn
  BY DEF Init, Phases, ContextsInStep, InProgress, AllBelieved, GraphsOwn, InReport
<1>3. ContextsCounted
  <2>1. Timeline = <<>>
    <3>1. timelines = <<>> /\ Optional(current_timeline_samples) = <<>>
      BY DEF Init, Optional
    <3>2. <<>> \in Seq(Samples)
      OBVIOUS
    <3>3. <<>> \o <<>> = <<>>
      BY <3>2, ConcatEmptySeq
    <3> QED
      BY <3>1, <3>3 DEF Timeline
  <2>2. \A hw \in HwIds : hw_contexts[hw] = None
    BY DEF Init
  <2> QED
    BY <2>1, <2>2, OwnedEmpty DEF ContextsCounted
<1> QED
  BY <1>1, <1>2, <1>3 DEF IInv

\* The variables the invariant is about, but for the program counter.
proofVars == <<cpu_timestamps, report, context, last, last_oa_timestamp, hw_contexts,
               timelines, current_timeline_samples, current_graph_samples, now, zeros>>

\* The counts are kept by a step that leaves the timeline and the contexts alone.
LEMMA CountsKept ==
    ASSUME ContextsCounted, UNCHANGED <<hw_contexts, timelines, current_timeline_samples>>
    PROVE  ContextsCounted'
<1>1. Timeline' = Timeline
  BY DEF Timeline
<1> QED
  BY <1>1 DEF ContextsCounted

\* Between reports.
LEMMA OutsideInductive ==
    ASSUME IInv, UNCHANGED proofVars, chunk' \in Chunks \cup {None},
           pc \notin InReport, pc' \notin InReport
    PROVE  IInv'
<1> USE DEF IInv, proofVars
<1>1. Types'
  BY DEF Types
<1>2. Phases' /\ ContextsInStep'
  BY DEF Phases, ContextsInStep, InReport
<1>3. ContextsCounted'
  BY CountsKept
<1>4. InProgress' /\ AllBelieved' /\ GraphsOwn'
  BY DEF InProgress, AllBelieved, GraphsOwn, InReport
<1> QED
  BY <1>1, <1>2, <1>3, <1>4

\* A report is read.
LEMMA RecordInductive ==
    ASSUME IInv, record_sample
    PROVE  IInv'
<1>1. /\ pc = "next" /\ pc' = "graph"
      /\ UNCHANGED <<cpu_timestamps, chunk, context, last, last_oa_timestamp, hw_contexts,
                     timelines, current_timeline_samples, current_graph_samples>>
  BY DEF record_sample, lastVars, contextVars, sampleVars
<1>2. /\ report' \in Reports /\ now' \in Int /\ zeros' \in Nat
      /\ zeros' = 0 => zeros = 0 /\ report'.ts # 0
  <2>1. PICK step \in Steps, hw \in HwIds \cup {INVALID} :
           /\ report' = [ts |-> (now + step) % U32, hw |-> hw, at |-> now + step, chunk |-> chunk]
           /\ now' = now + step
           /\ zeros' = zeros + (IF report'.ts = 0 THEN 1 ELSE 0)
    BY DEF record_sample
  <2>2. step \in Int /\ now \in Int /\ chunk \in Chunks \cup {None} /\ zeros \in Nat
    BY OaAssumption DEF IInv, Types
  <2>3. now + step \in Int
    BY <2>2
  <2>4. (now + step) % U32 \in Int
    <3>1. U32 \in Nat \ {0}
      BY OaAssumption
    <3>2. (now + step) % U32 \in 0..U32 - 1
      BY <2>3, <3>1, DivMod
    <3> QED
      BY <3>1, <3>2
  <2>5. report' \in Reports
    BY <2>1, <2>2, <2>3, <2>4 DEF Reports
  <2> QED
    BY <2>1, <2>2, <2>3, <2>5
<1> USE DEF IInv
<1>3. Types'
  BY <1>1, <1>2 DEF Types
<1>4. Phases' /\ ContextsInStep'
  BY <1>1 DEF Phases, ContextsInStep
<1>5. ContextsCounted'
  BY <1>1, CountsKept
<1>6. InProgress' /\ AllBelieved' /\ GraphsOwn'
  BY <1>1, <1>2 DEF InProgress, AllBelieved, GraphsOwn, InReport
<1> QED
  BY <1>3, <1>4, <1>5, <1>6

\* The report becomes the last one.
LEMMA FinishInductive ==
    ASSUME IInv, finish_record
    PROVE  IInv'
<1>1. /\ pc = "finish" /\ pc' = "next" /\ last' = report
      /\ last_oa_timestamp' = i915_perf_timestamp(report)
      /\ UNCHANGED <<cpu_timestamps, chunk, report, context, hw_contexts, timelines,
                     current_timeline_samples, current_graph_samples, now, zeros>>
  BY DEF finish_record, contextVars, sampleVars, hardware
<1>2. report \in Reports /\ i915_perf_timestamp(report) \in Int /\ report # None
  BY TimestampType, NoneIsNothing DEF IInv, Types
<1> USE DEF IInv
<1>3. Types'
  BY <1>1, <1>2 DEF Types
<1>4. Phases' /\ ContextsInStep'
  BY <1>1, <1>2 DEF Phases, ContextsInStep
<1>5. ContextsCounted'
  BY <1>1, CountsKept
<1>6. InProgress' /\ AllBelieved' /\ GraphsOwn'
  BY <1>1 DEF InProgress, AllBelieved, GraphsOwn, InReport
<1> QED
  BY <1>3, <1>4, <1>5, <1>6

-----------------------------------------------------------------------------
(***************************************************************************)
(* Graphs.                                                                 *)
(***************************************************************************)

\* The excess is a part of the graphs.
LEMMA ExcessGraphsRange ==
    ASSUME NEW S, NEW q \in Seq(S)
    PROVE  ExcessGraphs(q) \in 0..Len(q)
<1> DEFINE m == Window \div Period
<1>1. m \in Int /\ m >= 0
  <2>1. Window \in Nat /\ Period \in Nat \ {0}
    BY OaAssumption
  <2> QED
    BY <2>1
<1>2. Len(q) \in Nat
  BY LenProperties
<1>3. ExcessGraphs(q) = IF Len(q) > m THEN Len(q) - m ELSE 0
  BY DEF ExcessGraphs
<1> HIDE DEF m
<1> QED
  BY <1>1, <1>2, <1>3

\* What is kept of the graphs when another one is added.
LEMMA KeptType ==
    ASSUME NEW S, NEW q \in Seq(S), NEW s, [s EXCEPT !.end = chunk] \in S
    PROVE  Kept(q, s) \in Seq(S)
<1> DEFINE n == ExcessGraphs(q)
           r == SubSeq(q, n + 1, Len(q))
           e == [s EXCEPT !.end = chunk]
<1>1. n \in 0..Len(q)
  BY ExcessGraphsRange
<1> HIDE DEF n
<1>2. r \in Seq(S)
  BY <1>1, Cut
<1> HIDE DEF r
<1>3. e \in S
  OBVIOUS
<1> HIDE DEF e
<1>4. Append(r, e) \in Seq(S)
  BY <1>2, <1>3, AppendProperties
<1> QED
  BY <1>4 DEF Kept, r, e, n

\* A sample that ends keeps what it accumulated.
LEMMA EndedSample ==
    ASSUME NEW s \in Samples, NEW c \in Chunks \cup {None}
    PROVE  [s EXCEPT !.end = c] \in Samples /\ [s EXCEPT !.end = c].ran = s.ran
BY DEF Samples

\* The counts are kept by a step that only changes the graphs of contexts.
LEMMA CountsSame ==
    ASSUME ContextsCounted, UNCHANGED <<timelines, current_timeline_samples>>,
           \A hw \in HwIds : /\ hw_contexts'[hw] = None <=> hw_contexts[hw] = None
                             /\ hw_contexts[hw] # None =>
                                   hw_contexts'[hw].n_samples = hw_contexts[hw].n_samples
    PROVE  ContextsCounted'
<1>1. Timeline' = Timeline
  BY DEF Timeline
<1> QED
  BY <1>1 DEF ContextsCounted

\* Graphs begin, for all contexts.
LEMMA BeginGraphInductive ==
    ASSUME IInv, begin_graph
    PROVE  IInv'
<1>1. /\ pc = "graph" /\ pc' = "timeline"
      /\ UNCHANGED <<cpu_timestamps, chunk, report, context, last, last_oa_timestamp,
                     timelines, current_timeline_samples, now, zeros>>
  BY DEF begin_graph, lastVars, hardware
<1> DEFINE begin == Sample(report, INVALID, 0)
<1>2. begin \in Samples /\ begin.ran = {} /\ begin # None
  <2>1. report.chunk \in Chunks \cup {None} /\ report.ts \in Int
    BY DEF IInv, Types, Reports
  <2>2. INVALID \in HwIds \cup {INVALID} /\ 0 \in Int
    OBVIOUS
  <2>3. begin \in Samples /\ begin.ran = {}
    BY <2>1, <2>2, NewSample, Zenon
  <2> QED
    BY <2>3, NoneIsNothing, Zenon
<1>3. CASE current_graph_samples = None
  <2>1. /\ current_graph_samples' = begin
        /\ hw_contexts' = [hw \in HwIds |->
              IF hw \in {h \in HwIds : hw_contexts[h] # None}
              THEN [hw_contexts[hw] EXCEPT !.current_graph_samples = begin]
              ELSE None]
    BY <1>3, Zenon DEF begin_graph
  <2> HIDE DEF begin
  <2>2. ASSUME NEW hw \in HwIds
        PROVE  /\ hw_contexts'[hw] \in Contexts \cup {None}
               /\ hw_contexts'[hw] = None <=> hw_contexts[hw] = None
               /\ hw_contexts[hw] # None =>
                     /\ hw_contexts'[hw].n_samples = hw_contexts[hw].n_samples
                     /\ hw_contexts'[hw].graphs = hw_contexts[hw].graphs
                     /\ hw_contexts'[hw].current_graph_samples = begin
    <3>1. CASE hw_contexts[hw] = None
      BY <2>1, <3>1
    <3>2. CASE hw_contexts[hw] # None
      <4>1. hw_contexts[hw] \in Contexts
        BY <3>2 DEF IInv, Types
      <4>2. hw_contexts'[hw] = [hw_contexts[hw] EXCEPT !.current_graph_samples = begin]
        BY <2>1, <3>2
      <4> DEFINE c == hw_contexts[hw]
                 d == [c EXCEPT !.current_graph_samples = begin]
      <4>3. <<>> \in Seq(Samples) /\ c \in Contexts
        BY <4>1
      <4> HIDE DEF c
      <4>4. /\ d \in Contexts /\ d # None /\ d.n_samples = c.n_samples
            /\ d.graphs = c.graphs /\ d.current_graph_samples = begin
        BY <1>2, <4>3, NoneIsNothing DEF Contexts
      <4>5. hw_contexts'[hw] = d
        BY <4>2 DEF c
      <4> HIDE DEF d
      <4> QED
        BY <3>2, <4>4, <4>5 DEF c
    <3> QED
      BY <3>1, <3>2
  <2>3. hw_contexts' \in [HwIds -> Contexts \cup {None}]
    BY <2>1, <2>2
  <2>4. Types'
    BY <1>1, <1>2, <2>1, <2>3 DEF IInv, Types
  <2>5. Phases' /\ ContextsInStep'
    BY <1>1, <1>2, <2>1, <2>2 DEF IInv, Phases, ContextsInStep
  <2>6. ContextsCounted'
    BY <1>1, <2>2, CountsSame DEF IInv
  <2>7. InProgress' /\ AllBelieved'
    BY <1>1 DEF IInv, InProgress, AllBelieved, InReport
  <2>8. GraphsOwn'
    <3>1. \A hw : begin \in RanOn(hw)
      BY <1>2 DEF RanOn
    <3> QED
      BY <1>1, <2>2, <3>1 DEF IInv, GraphsOwn
  <2> QED
    BY <2>4, <2>5, <2>6, <2>7, <2>8 DEF IInv
<1>4. CASE current_graph_samples # None
  <2>1. UNCHANGED <<current_graph_samples, hw_contexts>>
    BY <1>4, Zenon DEF begin_graph
  <2>2. Types' /\ Phases' /\ ContextsInStep'
    BY <1>1, <1>4, <2>1 DEF IInv, Types, Phases, ContextsInStep
  <2>3. ContextsCounted'
    BY <1>1, <2>1, CountsKept DEF IInv
  <2>4. InProgress' /\ AllBelieved' /\ GraphsOwn'
    BY <1>1, <2>1 DEF IInv, InProgress, AllBelieved, GraphsOwn, InReport
  <2> QED
    BY <2>2, <2>3, <2>4 DEF IInv
<1> QED
  BY <1>3, <1>4

\* The graph of the context that ran.
LEMMA ContextInductive ==
    ASSUME IInv, accumulate_context
    PROVE  IInv'
<1>1. /\ pc = "context" /\ pc' = "global"
      /\ UNCHANGED <<cpu_timestamps, chunk, report, context, last, last_oa_timestamp,
                     timelines, current_timeline_samples, current_graph_samples, now, zeros>>
  BY DEF accumulate_context, lastVars, sampleVars, hardware
<1> DEFINE c == hw_contexts[context]
           g == c.current_graph_samples
           h == gputop_cc_oa_accumulate_reports(g, last, report)
<1>2. /\ context \in HwIds /\ c # None /\ last # None /\ last \in Reports /\ report \in Reports
      /\ c \in Contexts /\ hw_contexts \in [HwIds -> Contexts \cup {None}]
  BY <1>1 DEF IInv, Types, Phases, ContextsInStep
<1>3. g \in Samples
  <2>1. g # None
    BY <1>1, <1>2 DEF IInv, Phases, ContextsInStep
  <2> QED
    BY <1>2, <2>1 DEF Contexts
<1>4. /\ h \in Samples
      /\ \A x \in h.ran : x \in g.ran \/ x = last.hw
  <2> HIDE DEF c, g
  <2>1. /\ h \in Samples
        /\ \A x \in h.ran : x \in g.ran \/ (Believed(last, report) /\ x = last.hw)
    BY <1>2, <1>3, Accumulated, Zenon
  <2> QED
    BY <2>1
<1>5. hw_contexts' = [hw_contexts EXCEPT ![context] = [c EXCEPT !.current_graph_samples = h]]
  BY <1>2 DEF accumulate_context
<1> HIDE DEF h
<1>6. /\ hw_contexts'[context] \in Contexts /\ hw_contexts'[context] # None
      /\ hw_contexts'[context].n_samples = c.n_samples
      /\ hw_contexts'[context].graphs = c.graphs
      /\ hw_contexts'[context].current_graph_samples = h
  <2> HIDE DEF c
  <2> DEFINE d == [c EXCEPT !.current_graph_samples = h]
  <2>1. <<>> \in Seq(Samples) /\ h \in Samples \cup {None} /\ c \in Contexts
    BY <1>2, <1>4
  <2>2. /\ d \in Contexts /\ d # None /\ d.n_samples = c.n_samples
        /\ d.graphs = c.graphs /\ d.current_graph_samples = h
    BY <2>1, NoneIsNothing DEF Contexts
  <2>3. hw_contexts'[context] = d
    BY <1>2, <1>5
  <2> HIDE DEF d
  <2> QED
    BY <2>2, <2>3
<1>7. \A hw \in HwIds : hw # context => hw_contexts'[hw] = hw_contexts[hw]
  BY <1>2, <1>5
<1>8. hw_contexts' \in [HwIds -> Contexts \cup {None}]
  <2>1. hw_contexts' = [hw \in HwIds |-> hw_contexts'[hw]]
    BY <1>2, <1>5
  <2>2. \A hw \in HwIds : hw_contexts'[hw] \in Contexts \cup {None}
    BY <1>2, <1>6, <1>7
  <2> QED
    BY <2>1, <2>2
<1>9. Types'
  BY <1>1, <1>8 DEF IInv, Types
<1>10. Phases' /\ ContextsInStep'
  <2>1. h # None /\ current_graph_samples # None
    BY <1>1, <1>4, NoneIsNothing DEF IInv, Phases
  <2> QED
    BY <1>1, <1>6, <1>7, <2>1 DEF IInv, Phases, ContextsInStep
<1>11. ContextsCounted'
  BY <1>1, <1>2, <1>6, <1>7, CountsSame DEF IInv
<1>12. InProgress' /\ AllBelieved'
  BY <1>1 DEF IInv, InProgress, AllBelieved, InReport
<1>13. GraphsOwn'
  <2> SUFFICES ASSUME zeros = 0, NEW hw \in HwIds, hw_contexts'[hw] # None
               PROVE  /\ hw_contexts'[hw].graphs \in Seq(RanOn(hw))
                      /\ hw_contexts'[hw].current_graph_samples \in RanOn(hw) \cup {None}
    BY <1>1 DEF GraphsOwn
  <2>1. CASE hw # context
    BY <1>7, <2>1 DEF IInv, GraphsOwn
  <2>2. CASE hw = context
    <3>1. c.graphs \in Seq(RanOn(context)) /\ g \in RanOn(context) \cup {None}
      BY <1>2 DEF IInv, GraphsOwn
    <3>2. last.hw = context
      BY <1>1 DEF IInv, AllBelieved
    <3>3. g.ran \subseteq {context}
      BY <1>3, <3>1, NoneIsNothing DEF RanOn
    <3>4. h \in RanOn(context)
      BY <1>4, <3>2, <3>3 DEF RanOn
    <3> QED
      BY <1>6, <2>2, <3>1, <3>4
  <2> QED
    BY <2>1, <2>2
<1> QED
  BY <1>9, <1>10, <1>11, <1>12, <1>13 DEF IInv

\* The graph of all contexts, and the end of all graphs.
LEMMA GraphInductive ==
    ASSUME IInv, accumulate_graph
    PROVE  IInv'
<1>1. /\ pc = "global" /\ pc' = "finish"
      /\ UNCHANGED <<cpu_timestamps, chunk, report, context, last, last_oa_timestamp,
                     timelines, current_timeline_samples, now, zeros>>
  BY DEF accumulate_graph, lastVars, hardware
<1> DEFINE g == gputop_cc_oa_accumulate_reports(current_graph_samples, last, report)
<1>2. /\ last \in Reports /\ report \in Reports /\ current_graph_samples \in Samples
      /\ hw_contexts \in [HwIds -> Contexts \cup {None}] /\ chunk \in Chunks \cup {None}
  BY <1>1 DEF IInv, Types, Phases
<1>3. g \in Samples /\ g # None
  <2>1. g \in Samples
    BY <1>2, Accumulated, Zenon
  <2> QED
    BY <2>1, NoneIsNothing, Zenon
<1>4. InProgress' /\ AllBelieved'
  BY <1>1 DEF IInv, InProgress, AllBelieved, InReport
<1>5. CASE Believed(last, report) /\ g.elapsed > Period
  <2>1. /\ current_graph_samples' = None
        /\ hw_contexts' = [hw \in HwIds |->
              IF hw \in {h \in HwIds : hw_contexts[h] # None}
              THEN hw_context_record_for_time(hw_contexts[hw]) ELSE None]
    BY <1>5, Zenon DEF accumulate_graph, i915_perf_record_for_time
  <2>2. ASSUME NEW hw \in HwIds, hw_contexts[hw] # None
        PROVE  /\ hw_contexts'[hw] \in Contexts /\ hw_contexts'[hw] # None
               /\ hw_contexts'[hw].n_samples = hw_contexts[hw].n_samples
               /\ hw_contexts'[hw].current_graph_samples = None
               /\ zeros = 0 => hw_contexts'[hw].graphs \in Seq(RanOn(hw))
    <3> DEFINE c == hw_contexts[hw]
               s == c.current_graph_samples
               q == Kept(c.graphs, s)
               d == [c EXCEPT !.graphs = q, !.current_graph_samples = None]
    <3>1. hw_contexts'[hw] = d
      BY <2>1, <2>2 DEF hw_context_record_for_time
    <3>2. c \in Contexts
      BY <1>2, <2>2
    <3>3. s \in Samples /\ c.graphs \in Seq(Samples)
      <4>1. s # None
        BY <1>2, <2>2, NoneIsNothing DEF IInv, ContextsInStep
      <4> QED
        BY <3>2, <4>1 DEF Contexts
    <3>4. [s EXCEPT !.end = chunk] \in Samples /\ [s EXCEPT !.end = chunk].ran = s.ran
      <4> HIDE DEF s
      <4> QED
        BY <1>2, <3>3, EndedSample, Zenon
    <3>5. q \in Seq(Samples)
      BY <3>3, <3>4, KeptType, Zenon
    <3>6. zeros = 0 => q \in Seq(RanOn(hw))
      <4> SUFFICES ASSUME zeros = 0
                   PROVE  q \in Seq(RanOn(hw))
        OBVIOUS
      <4>1. c.graphs \in Seq(RanOn(hw)) /\ s \in RanOn(hw) \cup {None}
        BY <2>2 DEF IInv, GraphsOwn
      <4>2. s.ran \subseteq {hw}
        BY <3>3, <4>1, NoneIsNothing DEF RanOn
      <4>3. [s EXCEPT !.end = chunk] \in RanOn(hw)
        BY <3>4, <4>2, Zenon DEF RanOn
      <4> QED
        BY <4>1, <4>3, KeptType, Zenon
    <3> HIDE DEF c, q
    <3>7. /\ d \in Contexts /\ d # None /\ d.n_samples = c.n_samples
          /\ d.graphs = q /\ d.current_graph_samples = None
      BY <3>2, <3>5, NoneIsNothing DEF Contexts
    <3> HIDE DEF d
    <3> QED
      BY <3>1, <3>6, <3>7 DEF c
  <2>3. \A hw \in HwIds : hw_contexts[hw] = None => hw_contexts'[hw] = None
    BY <2>1
  <2>4. hw_contexts' \in [HwIds -> Contexts \cup {None}]
    <3>1. hw_contexts' = [hw \in HwIds |-> hw_contexts'[hw]]
      BY <2>1
    <3>2. \A hw \in HwIds : hw_contexts'[hw] \in Contexts \cup {None}
      BY <2>2, <2>3
    <3> QED
      BY <3>1, <3>2
  <2>5. Types'
    BY <1>1, <2>1, <2>4 DEF IInv, Types
  <2>6. Phases' /\ ContextsInStep'
    BY <1>1, <2>1, <2>2, <2>3 DEF IInv, Phases, ContextsInStep
  <2>7. ContextsCounted'
    BY <1>1, <2>2, <2>3, CountsSame DEF IInv
  <2>8. GraphsOwn'
    BY <1>1, <2>2, <2>3 DEF GraphsOwn
  <2> QED
    BY <1>4, <2>5, <2>6, <2>7, <2>8 DEF IInv
<1>6. CASE ~(Believed(last, report) /\ g.elapsed > Period)
  <2>1. current_graph_samples' = g /\ UNCHANGED hw_contexts
    BY <1>6, Zenon DEF accumulate_graph
  <2> HIDE DEF g
  <2>2. Types' /\ Phases'
    BY <1>1, <1>3, <2>1 DEF IInv, Types, Phases
  <2>3. ContextsInStep'
    BY <1>1, <1>2, <1>3, <2>1, NoneIsNothing DEF IInv, ContextsInStep
  <2>4. ContextsCounted'
    BY <1>1, <2>1, CountsKept DEF IInv
  <2>5. GraphsOwn'
    BY <1>1, <2>1 DEF IInv, GraphsOwn
  <2> QED
    BY <1>4, <2>2, <2>3, <2>4, <2>5 DEF IInv
<1> QED
  BY <1>5, <1>6

-----------------------------------------------------------------------------
(***************************************************************************)
(* The timeline.                                                           *)
(***************************************************************************)

\* The samples of the timeline are samples, those in progress too.
LEMMA TimelineType ==
    ASSUME Types
    PROVE  /\ timelines \in Seq(Samples) /\ current_timeline_samples \in Samples \cup {None}
           /\ Own \subseteq Samples
<1>1. Own \subseteq Samples
  BY DEF Own
<1>2. timelines \in Seq(Own) /\ current_timeline_samples \in Own \cup {None}
  BY DEF Types
<1>3. timelines \in Seq(Samples)
  BY <1>1, <1>2, SeqMonotonic, Zenon
<1> QED
  BY <1>1, <1>2, <1>3

\* The count of a context, in terms of the samples recorded.
LEMMA CountOf ==
    ASSUME Types, ContextsCounted, NEW hw \in HwIds
    PROVE  /\ Owned(timelines, hw) \in Nat
           /\ Owned(timelines, hw) + (IF /\ current_timeline_samples # None
                                         /\ current_timeline_samples.hw = hw
                                      THEN 1 ELSE 0)
                = IF hw_contexts[hw] = None THEN 0 ELSE hw_contexts[hw].n_samples
<1>1. timelines \in Seq(Samples) /\ current_timeline_samples \in Samples \cup {None}
  BY TimelineType
<1>2. Owned(Timeline, hw) = Owned(timelines, hw)
         + (IF current_timeline_samples # None /\ current_timeline_samples.hw = hw THEN 1 ELSE 0)
  BY <1>1, OwnedOptional, Zenon DEF Timeline
<1>3. Owned(timelines, hw) \in Nat
  BY <1>1, OwnedType
<1>4. Owned(Timeline, hw) = IF hw_contexts[hw] = None THEN 0 ELSE hw_contexts[hw].n_samples
  BY Zenon DEF ContextsCounted
<1> QED
  BY <1>2, <1>3, <1>4

\* A context that gets another sample.
LEMMA GetContext ==
    ASSUME IInv, current_graph_samples # None, NEW hw \in HwIds
    PROVE  LET e == get_hw_context(hw) IN
           /\ e \in Contexts /\ e # None /\ e.current_graph_samples # None
           /\ e.n_samples = (IF hw_contexts[hw] = None THEN 0 ELSE hw_contexts[hw].n_samples) + 1
           /\ zeros = 0 => e.graphs \in Seq(RanOn(hw)) /\ e.current_graph_samples \in RanOn(hw)
<1> DEFINE e == get_hw_context(hw)
<1>1. CASE hw_contexts[hw] # None
  <2> DEFINE c == hw_contexts[hw]
             n == c.n_samples + 1
  <2>1. e = [c EXCEPT !.n_samples = n]
    BY <1>1 DEF get_hw_context
  <2>2. c \in Contexts
    BY <1>1 DEF IInv, Types
  <2>3. c.current_graph_samples # None
    BY <1>1 DEF IInv, ContextsInStep
  <2>4. zeros = 0 => c.graphs \in Seq(RanOn(hw)) /\ c.current_graph_samples \in RanOn(hw)
    BY <1>1, <2>3 DEF IInv, GraphsOwn
  <2>5. c.n_samples \in Nat \ {0} /\ n \in Nat \ {0}
    BY <2>2 DEF Contexts
  <2> HIDE DEF c, n, e
  <2>6. /\ e \in Contexts /\ e # None /\ e.n_samples = n
        /\ e.graphs = c.graphs /\ e.current_graph_samples = c.current_graph_samples
    BY <2>1, <2>2, <2>5, NoneIsNothing DEF Contexts
  <2>7. e.n_samples = (IF hw_contexts[hw] = None THEN 0 ELSE hw_contexts[hw].n_samples) + 1
    BY <1>1, <2>6 DEF c, n
  <2> QED
    BY <2>3, <2>4, <2>6, <2>7, Zenon DEF e
<1>2. CASE hw_contexts[hw] = None
  <2> DEFINE r == [chunk |-> current_graph_samples.start, ts |-> current_graph_samples.began]
             s == Sample(r, INVALID, 0)
  <2>1. e = [n_samples |-> 1, graphs |-> <<>>, current_graph_samples |-> s]
    BY <1>2 DEF get_hw_context
  <2>2. r.chunk \in Chunks \cup {None} /\ r.ts \in Int
    BY DEF IInv, Types, Samples
  <2> HIDE DEF r
  <2>3. INVALID \in HwIds \cup {INVALID} /\ 0 \in Int
    OBVIOUS
  <2>4. s \in Samples /\ s.ran = {}
    BY <2>2, <2>3, NewSample, Zenon
  <2> HIDE DEF s, e
  <2>5. s # None /\ s \in RanOn(hw)
    BY <2>4, NoneIsNothing DEF RanOn
  <2>6. <<>> \in Seq(Samples) /\ <<>> \in Seq(RanOn(hw))
    OBVIOUS
  <2>7. /\ e \in Contexts /\ e # None /\ e.n_samples = 1
        /\ e.graphs = <<>> /\ e.current_graph_samples = s
    <3> DEFINE q == <<>>
    <3>1. e = [n_samples |-> 1, graphs |-> q, current_graph_samples |-> s] /\ q \in Seq(Samples)
      BY <2>1, <2>6
    <3> HIDE DEF q
    <3>2. /\ e \in Contexts /\ e.n_samples = 1
          /\ e.graphs = q /\ e.current_graph_samples = s
      BY <2>4, <3>1 DEF Contexts
    <3> QED
      BY <3>2, NoneIsNothing DEF q
  <2>8. e.n_samples = (IF hw_contexts[hw] = None THEN 0 ELSE hw_contexts[hw].n_samples) + 1
    BY <1>2, <2>7
  <2> QED
    BY <2>5, <2>6, <2>7, <2>8, Zenon DEF e
<1> QED
  BY <1>1, <1>2

\* A sample of the timeline begins.
LEMMA BeginTimelineInductive ==
    ASSUME IInv, begin_timeline
    PROVE  IInv'
<1>1. /\ pc = "timeline" /\ pc' = IF last = None THEN "finish" ELSE "accumulate"
      /\ UNCHANGED <<cpu_timestamps, chunk, report, context, last, last_oa_timestamp,
                     timelines, current_graph_samples, now, zeros>>
  BY DEF begin_timeline, lastVars, hardware
<1>2. current_graph_samples # None
  BY <1>1 DEF IInv, Phases
<1>3. CASE last # None /\ last.hw # INVALID /\ current_timeline_samples = None
  <2> DEFINE h == last.hw
             t == i915_perf_timestamp(last)
             s == Sample(last, h, t)
             e == get_hw_context(h)
  <2>1. /\ current_timeline_samples' = s
        /\ hw_contexts' = [hw_contexts EXCEPT ![h] = e]
    BY <1>3, Zenon DEF begin_timeline
  <2>2. /\ last \in Reports /\ last.chunk \in Chunks \cup {None} /\ last.ts \in Int
        /\ h \in HwIds /\ h \in HwIds \cup {INVALID}
        /\ hw_contexts \in [HwIds -> Contexts \cup {None}]
    BY <1>3 DEF IInv, Types, Reports
  <2>3. t \in Int
    BY <2>2, TimestampType DEF IInv
  <2> HIDE DEF t
  <2>4. s \in Samples /\ s.hw = h /\ s.ran = {} /\ s.zero = FALSE
    <3> HIDE DEF h
    <3>1. s \in Samples
      BY <2>2, <2>3, NewSample, Zenon
    <3>2. s.hw = h /\ s.ran = {} /\ s.zero = FALSE
      BY DEF Sample
    <3> QED
      BY <3>1, <3>2
  <2>5. /\ e \in Contexts /\ e # None /\ e.current_graph_samples # None
        /\ e.n_samples = (IF hw_contexts[h] = None THEN 0 ELSE hw_contexts[h].n_samples) + 1
        /\ zeros = 0 => e.graphs \in Seq(RanOn(h)) /\ e.current_graph_samples \in RanOn(h)
    BY <1>2, <2>2, GetContext, Zenon
  <2> HIDE DEF s, e
  <2>6. s \in Own /\ s # None
    BY <2>2, <2>4, NoneIsNothing DEF Own
  <2>7. hw_contexts'[h] = e /\ \A hw \in HwIds : hw # h => hw_contexts'[hw] = hw_contexts[hw]
    BY <2>1, <2>2
  <2>8. Types'
    <3>1. hw_contexts' \in [HwIds -> Contexts \cup {None}]
      BY <2>1, <2>2, <2>5
    <3> QED
      BY <1>1, <2>1, <2>6, <3>1 DEF IInv, Types
  <2>9. Phases'
    BY <1>1, <1>2, <1>3 DEF Phases
  <2>10. ContextsInStep'
    BY <1>1, <1>2, <2>5, <2>7 DEF IInv, ContextsInStep
  <2>11. ContextsCounted'
    <3> SUFFICES ASSUME NEW hw \in HwIds
                 PROVE  Owned(Timeline', hw) =
                           IF hw_contexts'[hw] = None THEN 0 ELSE hw_contexts'[hw].n_samples
      BY DEF ContextsCounted
    <3>1. Timeline' = timelines \o Optional(s)
      BY <1>1, <2>1 DEF Timeline
    <3>2. timelines \in Seq(Samples) /\ s \in Samples \cup {None}
      BY <2>4, TimelineType DEF IInv
    <3>3. Owned(Timeline', hw) = Owned(timelines, hw) + (IF s # None /\ s.hw = hw THEN 1 ELSE 0)
      BY <3>1, <3>2, OwnedOptional, Zenon
    <3>4. /\ Owned(timelines, hw) \in Nat
          /\ Owned(timelines, hw) + (IF /\ current_timeline_samples # None
                                        /\ current_timeline_samples.hw = hw
                                     THEN 1 ELSE 0)
                = IF hw_contexts[hw] = None THEN 0 ELSE hw_contexts[hw].n_samples
      BY CountOf, Zenon DEF IInv
    <3>5. Owned(timelines, hw) = IF hw_contexts[hw] = None THEN 0 ELSE hw_contexts[hw].n_samples
      BY <1>3, <3>4
    <3>6. CASE hw = h
      BY <2>4, <2>5, <2>6, <2>7, <3>3, <3>4, <3>5, <3>6
    <3>7. CASE hw # h
      BY <2>4, <2>7, <3>3, <3>4, <3>5, <3>7
    <3> QED
      BY <3>6, <3>7
  <2>12. InProgress'
    BY <1>1, <1>3, <2>1, <2>4 DEF InProgress
  <2>13. AllBelieved'
    BY <1>1, <1>3, <2>1, <2>4 DEF IInv, AllBelieved, InReport
  <2>14. GraphsOwn'
    <3> SUFFICES ASSUME zeros = 0, NEW hw \in HwIds, hw_contexts'[hw] # None
                 PROVE  /\ hw_contexts'[hw].graphs \in Seq(RanOn(hw))
                        /\ hw_contexts'[hw].current_graph_samples \in RanOn(hw) \cup {None}
      BY <1>1 DEF GraphsOwn
    <3>1. CASE hw = h
      BY <2>5, <2>7, <3>1
    <3>2. CASE hw # h
      BY <2>7, <3>2 DEF IInv, GraphsOwn
    <3> QED
      BY <3>1, <3>2
  <2> QED
    BY <2>8, <2>9, <2>10, <2>11, <2>12, <2>13, <2>14 DEF IInv
<1>4. CASE ~(last # None /\ last.hw # INVALID /\ current_timeline_samples = None)
  <2>1. UNCHANGED <<current_timeline_samples, hw_contexts>>
    BY <1>4, Zenon DEF begin_timeline
  <2>2. Types'
    BY <1>1, <2>1 DEF IInv, Types
  <2>3. Phases' /\ ContextsInStep'
    BY <1>1, <1>2, <2>1 DEF IInv, Phases, ContextsInStep
  <2>4. ContextsCounted'
    BY <1>1, <2>1, CountsKept DEF IInv
  <2>5. InProgress' /\ AllBelieved' /\ GraphsOwn'
    BY <1>1, <2>1 DEF IInv, Phases, InProgress, AllBelieved, GraphsOwn, InReport
  <2> QED
    BY <2>2, <2>3, <2>4, <2>5 DEF IInv
<1> QED
  BY <1>3, <1>4

\* The excess is a part of the timeline, and ends where a sample is in the window.
LEMMA ExcessRange ==
    ASSUME Types, NEW t
    PROVE  /\ Excess(t) \in 0..Len(timelines)
           /\ Excess(t) < Len(timelines) =>
                 ~(Minus64(t, timelines[Excess(t) + 1].timestamp_start) > Window)
<1> DEFINE Old(i) == Minus64(t, timelines[i].timestamp_start) > Window
           L == Len(timelines)
           T == {n \in 0..L : n < L => ~Old(n + 1)}
           m == Min(T)
<1>1. L \in Nat
  BY LenProperties DEF Types
<1> HIDE DEF Old, L
<1>2. T \in SUBSET Nat /\ L \in T
  BY <1>1
<1>3. m \in T /\ \A y \in T : m <= y
  <2> HIDE DEF T
  <2> QED
    BY <1>2, LeastElement
<1> HIDE DEF m
<1>4. \A i \in 1..m : Old(i)
  <2> SUFFICES ASSUME NEW i \in 1..m, ~Old(i)
               PROVE  FALSE
    OBVIOUS
  <2>1. i - 1 \in 0..L /\ (i - 1) + 1 = i /\ m \in Nat /\ i \in Int /\ i <= m
    BY <1>1, <1>3
  <2>2. ~Old((i - 1) + 1)
    BY <2>1
  <2>3. i - 1 \in T
    BY <2>1, <2>2
  <2>4. m <= i - 1
    BY <1>3, <2>3
  <2> QED
    BY <2>1, <2>4
<1>5. \E n \in 0..L : (\A i \in 1..n : Old(i)) /\ (n < L => ~Old(n + 1))
  BY <1>3, <1>4
<1>6. Excess(t) = CHOOSE n \in 0..L : (\A i \in 1..n : Old(i)) /\ (n < L => ~Old(n + 1))
  BY DEF Excess, Old, L
<1> DEFINE x == Excess(t)
<1>7. x \in 0..L /\ (x < L => ~Old(x + 1))
  BY <1>5, <1>6, Zenon
<1> QED
  BY <1>7, Zenon DEF L, Old

\* What remains of the contexts when samples are given up.
LEMMA PutContexts ==
    ASSUME Types, NEW q \in Seq(Samples),
           \A hw \in HwIds : hw_contexts[hw] # None =>
              Owned(q, hw) <= hw_contexts[hw].n_samples
    PROVE  LET d == put_hw_contexts(q) IN
           /\ d \in [HwIds -> Contexts \cup {None}]
           /\ \A hw \in HwIds : hw_contexts[hw] = None => d[hw] = None
           /\ \A hw \in HwIds : hw_contexts[hw] # None =>
                 (d[hw] = None <=> hw_contexts[hw].n_samples = Owned(q, hw))
           /\ \A hw \in HwIds : d[hw] # None =>
                 /\ d[hw].n_samples = hw_contexts[hw].n_samples - Owned(q, hw)
                 /\ d[hw].graphs = hw_contexts[hw].graphs
                 /\ d[hw].current_graph_samples = hw_contexts[hw].current_graph_samples
<1> DEFINE d == put_hw_contexts(q)
<1>1. d = [hw \in HwIds |->
              IF hw_contexts[hw] = None \/ hw \in Freed(q) THEN None
              ELSE [hw_contexts[hw] EXCEPT !.n_samples = hw_contexts[hw].n_samples - Owned(q, hw)]]
  BY DEF put_hw_contexts
<1>2. \A hw \in HwIds : hw \in Freed(q) <=>
         (hw_contexts[hw] # None /\ Owned(q, hw) > 0 /\ hw_contexts[hw].n_samples = Owned(q, hw))
  BY DEF Freed
<1> HIDE DEF d
<1>3. \A hw \in HwIds : hw_contexts[hw] = None => d[hw] = None
  BY <1>1
<1>4. ASSUME NEW hw \in HwIds, hw_contexts[hw] # None
      PROVE  /\ d[hw] \in Contexts \cup {None}
             /\ d[hw] = None <=> hw_contexts[hw].n_samples = Owned(q, hw)
             /\ d[hw] # None =>
                 /\ d[hw].n_samples = hw_contexts[hw].n_samples - Owned(q, hw)
                 /\ d[hw].graphs = hw_contexts[hw].graphs
                 /\ d[hw].current_graph_samples = hw_contexts[hw].current_graph_samples
  <2> DEFINE c == hw_contexts[hw]
             o == Owned(q, hw)
             n == c.n_samples - o
             e == [c EXCEPT !.n_samples = n]
  <2>1. c \in Contexts
    BY <1>4 DEF Types
  <2>2. c.n_samples \in Nat \ {0} /\ o \in Nat /\ o <= c.n_samples
    BY <1>4, <2>1, OwnedType DEF Contexts
  <2>3. hw \in Freed(q) <=> c.n_samples = o
    BY <1>2, <1>4, <2>2
  <2>4. d[hw] = IF hw \in Freed(q) THEN None ELSE e
    BY <1>1, <1>4
  <2>5. ASSUME c.n_samples # o
        PROVE  /\ e \in Contexts /\ e # None /\ e.n_samples = n
               /\ e.graphs = c.graphs /\ e.current_graph_samples = c.current_graph_samples
    <3>1. n \in Nat \ {0}
      BY <2>2, <2>5
    <3> HIDE DEF c, n
    <3> QED
      BY <2>1, <3>1, NoneIsNothing DEF Contexts
  <2>6. CASE c.n_samples = o
    <3>1. d[hw] = None
      BY <2>3, <2>4, <2>6
    <3> QED
      BY <2>6, <3>1
  <2>7. CASE c.n_samples # o
    <3>1. d[hw] = e
      BY <2>3, <2>4, <2>7
    <3> HIDE DEF e, c, o
    <3>2. /\ d[hw] \in Contexts /\ d[hw] # None /\ d[hw].n_samples = c.n_samples - o
          /\ d[hw].graphs = c.graphs /\ d[hw].current_graph_samples = c.current_graph_samples
      BY <2>5, <2>7, <3>1
    <3> QED
      BY <2>7, <3>2, Zenon DEF c, o
  <2> QED
    BY <2>6, <2>7
<1>5. d \in [HwIds -> Contexts \cup {None}]
  <2>1. \A hw \in HwIds : d[hw] \in Contexts \cup {None}
    BY <1>3, <1>4
  <2>2. d = [hw \in HwIds |-> d[hw]]
    BY <1>1
  <2> QED
    BY <2>1, <2>2
<1>6. \A hw \in HwIds : d[hw] # None =>
         /\ d[hw].n_samples = hw_contexts[hw].n_samples - Owned(q, hw)
         /\ d[hw].graphs = hw_contexts[hw].graphs
         /\ d[hw].current_graph_samples = hw_contexts[hw].current_graph_samples
  BY <1>3, <1>4, Zenon
<1>7. \A hw \in HwIds : hw_contexts[hw] # None =>
         (d[hw] = None <=> hw_contexts[hw].n_samples = Owned(q, hw))
  BY <1>4, Zenon
<1> QED
  BY <1>3, <1>5, <1>6, <1>7, Zenon DEF d

\* A sampling starts with nothing: every context goes with its samples.
LEMMA StartInductive ==
    ASSUME IInv, gputop_client_context_start_sampling
    PROVE  IInv'
<1>1. /\ pc = "idle" /\ pc' = "idle" /\ timelines' = <<>> /\ current_timeline_samples' = None
      /\ current_graph_samples' = None /\ last' = None /\ last_oa_timestamp' = Window
      /\ hw_contexts' = put_hw_contexts(Timeline)
      /\ UNCHANGED <<cpu_timestamps, chunk, report, context, now, zeros>>
  BY DEF gputop_client_context_start_sampling, i915_perf_empty_samples, Timeline, hardware
<1>2. Timeline \in Seq(Samples)
  <2>1. timelines \in Seq(Samples) /\ current_timeline_samples \in Samples \cup {None}
    BY TimelineType DEF IInv
  <2> QED
    BY <2>1, OwnedOptional, Zenon DEF Timeline
<1>3. \A hw \in HwIds : hw_contexts[hw] # None =>
         Owned(Timeline, hw) = hw_contexts[hw].n_samples
  BY DEF IInv, ContextsCounted
<1>4. \A hw \in HwIds : hw_contexts[hw] # None => Owned(Timeline, hw) <= hw_contexts[hw].n_samples
  <2>1. \A hw \in HwIds : Owned(Timeline, hw) \in Nat
    BY <1>2, OwnedType
  <2> QED
    BY <1>3, <2>1
<1>5. /\ hw_contexts' \in [HwIds -> Contexts \cup {None}]
      /\ \A hw \in HwIds : hw_contexts[hw] = None => hw_contexts'[hw] = None
      /\ \A hw \in HwIds : hw_contexts[hw] # None =>
            (hw_contexts'[hw] = None <=> hw_contexts[hw].n_samples = Owned(Timeline, hw))
  BY <1>1, <1>2, <1>4, PutContexts, Zenon DEF IInv
<1>6. \A hw \in HwIds : hw_contexts'[hw] = None
  BY <1>3, <1>5, Zenon
<1>7. Types'
  <2>1. Window \in Int
    BY OaAssumption
  <2>2. timelines' \in Seq(Own)
    BY <1>1
  <2> QED
    BY <1>1, <1>5, <2>1, <2>2 DEF IInv, Types
<1>8. Phases' /\ ContextsInStep'
  BY <1>1, <1>6 DEF Phases, ContextsInStep
<1>9. ContextsCounted'
  <2>1. Timeline' = <<>>
    <3>1. timelines' = <<>> /\ Optional(current_timeline_samples') = <<>>
      BY <1>1 DEF Optional
    <3>2. <<>> \in Seq(Samples)
      OBVIOUS
    <3>3. <<>> \o <<>> = <<>>
      BY <3>2, ConcatEmptySeq
    <3> QED
      BY <3>1, <3>3 DEF Timeline
  <2> QED
    BY <1>6, <2>1, OwnedEmpty DEF ContextsCounted
<1>10. InProgress' /\ AllBelieved' /\ GraphsOwn'
  BY <1>1, <1>6 DEF InProgress, AllBelieved, GraphsOwn, InReport
<1> QED
  BY <1>7, <1>8, <1>9, <1>10 DEF IInv

\* What the sample in progress becomes, and what follows from the last report.
LEMMA Continued ==
    ASSUME IInv, pc = "accumulate", current_timeline_samples # None
    PROVE  LET s == gputop_cc_oa_accumulate_reports(current_timeline_samples, last, report) IN
           /\ s \in Own /\ s # None /\ s.hw \in HwIds /\ s.hw = current_timeline_samples.hw
           /\ s.zero \/ (Believed(last, report) /\ s.hw = last.hw)
           /\ zeros = 0 => ~s.zero
           /\ zeros = 0 => s.hw = last.hw
<1> DEFINE c == current_timeline_samples
           s == gputop_cc_oa_accumulate_reports(c, last, report)
<1>1. /\ c \in Own /\ c \in Samples /\ c.hw \in HwIds /\ c.zero \in BOOLEAN
      /\ last \in Reports /\ last # None /\ report \in Reports
  BY DEF IInv, Types, Phases, Own, Samples
<1>2. c.zero \/ c.hw = last.hw
  BY DEF IInv, InProgress
<1>3. zeros = 0 => ~c.zero /\ last.ts # 0 /\ report.ts # 0
  BY <1>1 DEF IInv, AllBelieved, InReport
<1>4. c.zero \/ \A x \in c.ran : x = c.hw
  BY <1>1 DEF Own
<1> HIDE DEF c
<1>5. /\ s \in Samples /\ s.hw = c.hw
      /\ \A x \in s.ran : x \in c.ran \/ (Believed(last, report) /\ x = last.hw)
  BY <1>1, Accumulated, Zenon
<1>6. /\ Believed(last, report) => s.zero = c.zero
      /\ ~Believed(last, report) => s.zero = TRUE
  BY <1>1, Accumulated, Zenon
<1> HIDE DEF s
<1>7. s.zero \/ (Believed(last, report) /\ s.hw = last.hw)
  BY <1>2, <1>5, <1>6
<1>8. zeros = 0 => ~s.zero
  <2>1. zeros = 0 => Believed(last, report)
    BY <1>3 DEF Believed
  <2> QED
    BY <1>3, <1>6, <2>1
<1>9. zeros = 0 => s.hw = last.hw
  BY <1>7, <1>8
<1>10. s \in Own
  <2>1. s.zero \/ \A x \in s.ran : x = s.hw
    BY <1>2, <1>4, <1>5, <1>6
  <2>2. s.zero \/ s.ran \subseteq {s.hw}
    BY <2>1
  <2> QED
    BY <1>1, <1>5, <2>2, Zenon DEF Own
<1> QED
  BY <1>1, <1>5, <1>7, <1>8, <1>9, <1>10, NoneIsNothing, Zenon DEF s, c

\* The timeline: the sample in progress goes on, or is recorded when the excess
\* has been given up.
LEMMA TimelineInductive ==
    ASSUME IInv, accumulate_timeline
    PROVE  IInv'
<1>1. /\ pc = "accumulate"
      /\ UNCHANGED <<cpu_timestamps, chunk, report, last, last_oa_timestamp,
                     current_graph_samples, now, zeros>>
  BY DEF accumulate_timeline, lastVars, hardware
<1>2. current_graph_samples # None /\ last # None
  BY <1>1 DEF IInv, Phases
<1>3. CASE current_timeline_samples = None
  <2>1. /\ pc' = "global"
        /\ UNCHANGED <<context, timelines, current_timeline_samples, hw_contexts>>
    BY <1>3 DEF accumulate_timeline, contextVars
  <2>2. Types'
    BY <1>1, <2>1 DEF IInv, Types
  <2>3. Phases' /\ ContextsInStep'
    BY <1>1, <1>2, <2>1 DEF IInv, Phases, ContextsInStep
  <2>4. ContextsCounted'
    BY <2>1, CountsKept DEF IInv
  <2>5. InProgress' /\ AllBelieved' /\ GraphsOwn'
    BY <1>1, <1>3, <2>1 DEF IInv, InProgress, AllBelieved, GraphsOwn, InReport
  <2> QED
    BY <2>2, <2>3, <2>4, <2>5 DEF IInv
<1>4. CASE current_timeline_samples # None
  <2> DEFINE s == gputop_cc_oa_accumulate_reports(current_timeline_samples, last, report)
             h == s.hw
  <2>1. pc' = "context" /\ context' = h
    BY <1>4, Zenon DEF accumulate_timeline
  <2>2. /\ s \in Own /\ s # None /\ h \in HwIds /\ h = current_timeline_samples.hw
        /\ s.zero \/ (Believed(last, report) /\ h = last.hw)
        /\ zeros = 0 => ~s.zero
        /\ zeros = 0 => h = last.hw
    BY <1>1, <1>4, Continued, Zenon
  <2>3. CASE Believed(last, report) /\ SampleEnds(s)
    <3> DEFINE t == i915_perf_timestamp(report)
               e == [s EXCEPT !.end = chunk, !.timestamp_end = t]
               n == Excess(t)
               x == SubSeq(timelines, 1, n)
               y == SubSeq(timelines, n + 1, Len(timelines))
    <3>1. /\ timelines' = Append(y, e) /\ current_timeline_samples' = None
          /\ hw_contexts' = put_hw_contexts(x)
      BY <1>4, <2>3, Zenon DEF accumulate_timeline, i915_perf_record_for_hw_id
    <3> HIDE DEF s
    <3>2. t \in Int /\ chunk \in Chunks \cup {None} /\ s \in Samples
      BY <2>2, TimestampType DEF IInv, Types, Own
    <3> HIDE DEF t
    <3>3. e \in Samples /\ e.hw = h /\ e.ran = s.ran /\ e.zero = s.zero
      BY <3>2 DEF Samples
    <3> HIDE DEF e
    <3>4. e \in Own
      BY <2>2, <3>3 DEF Own
    <3>5. n \in 0..Len(timelines)
      BY ExcessRange DEF IInv
    <3> HIDE DEF n
    <3>6. timelines \in Seq(Own) /\ timelines \in Seq(Samples)
      BY TimelineType DEF IInv, Types
    <3>7. x \in Seq(Samples) /\ y \in Seq(Samples) /\ y \in Seq(Own)
      BY <3>5, <3>6, Cut
    <3>8. \A hw : Owned(timelines, hw) = Owned(x, hw) + Owned(y, hw)
      BY <3>5, <3>6, OwnedCut
    <3> HIDE DEF x, y
    <3>9. \A hw : Owned(x, hw) \in Nat /\ Owned(y, hw) \in Nat
      BY <3>7, OwnedType
    <3>10. ASSUME NEW hw \in HwIds
           PROVE  Owned(x, hw) + Owned(y, hw) + (IF h = hw THEN 1 ELSE 0)
                     = IF hw_contexts[hw] = None THEN 0 ELSE hw_contexts[hw].n_samples
      <4>1. Owned(timelines, hw) + (IF /\ current_timeline_samples # None
                                       /\ current_timeline_samples.hw = hw
                                    THEN 1 ELSE 0)
                = IF hw_contexts[hw] = None THEN 0 ELSE hw_contexts[hw].n_samples
        BY CountOf, Zenon DEF IInv
      <4>2. (IF current_timeline_samples # None /\ current_timeline_samples.hw = hw THEN 1 ELSE 0)
               = (IF h = hw THEN 1 ELSE 0)
        BY <1>4, <2>2
      <4> QED
        BY <3>8, <3>9, <4>1, <4>2
    <3>11. \A hw \in HwIds : hw_contexts[hw] # None => Owned(x, hw) <= hw_contexts[hw].n_samples
      BY <3>9, <3>10
    <3>12. /\ hw_contexts' \in [HwIds -> Contexts \cup {None}]
           /\ \A hw \in HwIds : hw_contexts[hw] = None => hw_contexts'[hw] = None
           /\ \A hw \in HwIds : hw_contexts[hw] # None =>
                 (hw_contexts'[hw] = None <=> hw_contexts[hw].n_samples = Owned(x, hw))
           /\ \A hw \in HwIds : hw_contexts'[hw] # None =>
                 /\ hw_contexts'[hw].n_samples = hw_contexts[hw].n_samples - Owned(x, hw)
                 /\ hw_contexts'[hw].graphs = hw_contexts[hw].graphs
                 /\ hw_contexts'[hw].current_graph_samples = hw_contexts[hw].current_graph_samples
      BY <3>1, <3>7, <3>11, PutContexts, Zenon DEF IInv
    <3>13. hw_contexts[h] # None /\ hw_contexts'[h] # None
      <4>1. Owned(x, h) + Owned(y, h) + 1
               = IF hw_contexts[h] = None THEN 0 ELSE hw_contexts[h].n_samples
        BY <2>2, <3>10
      <4>2. hw_contexts[h] # None /\ hw_contexts[h].n_samples # Owned(x, h)
        BY <3>9, <4>1
      <4> QED
        BY <2>2, <3>12, <4>2, Zenon
    <3>14. Types'
      <4>1. timelines' \in Seq(Own)
        BY <3>1, <3>4, <3>7, AppendProperties
      <4> QED
        BY <1>1, <3>1, <3>12, <4>1 DEF IInv, Types
    <3>15. Phases'
      BY <1>1, <1>2, <2>1, <2>2, <3>1 DEF Phases
    <3>16. ContextsInStep'
      <4>1. ASSUME NEW hw \in HwIds, hw_contexts'[hw] # None
            PROVE  hw_contexts'[hw].current_graph_samples # None
        <5>1. hw_contexts[hw] # None
          BY <3>12, <4>1
        <5>2. hw_contexts[hw].current_graph_samples # None
          BY <1>2, <5>1 DEF IInv, ContextsInStep
        <5> QED
          BY <3>12, <4>1, <5>2
      <4> QED
        BY <1>1, <1>2, <2>1, <3>13, <4>1 DEF ContextsInStep
    <3>17. ContextsCounted'
      <4> SUFFICES ASSUME NEW hw \in HwIds
                   PROVE  Owned(Timeline', hw) =
                             IF hw_contexts'[hw] = None THEN 0 ELSE hw_contexts'[hw].n_samples
        BY DEF ContextsCounted
      <4>1. /\ Append(y, e) \in Seq(Samples)
            /\ Owned(Append(y, e), hw) = Owned(y, hw) + (IF e.hw = hw THEN 1 ELSE 0)
        BY <3>3, <3>7, OwnedAppend
      <4>2. Timeline' = Append(y, e)
        <5>1. Timeline' = Append(y, e) \o <<>>
          BY <3>1 DEF Timeline, Optional
        <5> QED
          BY <4>1, <5>1, ConcatEmptySeq
      <4>3. Owned(Timeline', hw) = Owned(y, hw) + (IF h = hw THEN 1 ELSE 0)
        BY <3>3, <4>1, <4>2
      <4>4. CASE hw_contexts[hw] = None
        <5>1. hw_contexts'[hw] = None
          BY <3>12, <4>4
        <5> QED
          BY <3>9, <3>10, <4>3, <4>4, <5>1
      <4>5. CASE hw_contexts[hw] # None
        <5>1. Owned(x, hw) + Owned(y, hw) + (IF h = hw THEN 1 ELSE 0) = hw_contexts[hw].n_samples
          BY <3>10, <4>5
        <5>2. hw_contexts'[hw] = None <=> hw_contexts[hw].n_samples = Owned(x, hw)
          BY <3>12, <4>5, Zenon
        <5>3. hw_contexts'[hw] # None =>
                 hw_contexts'[hw].n_samples = hw_contexts[hw].n_samples - Owned(x, hw)
          BY <3>12, Zenon
        <5> QED
          BY <3>9, <4>3, <5>1, <5>2, <5>3
      <4> QED
        BY <4>4, <4>5
    <3>18. InProgress' /\ AllBelieved'
      BY <1>1, <2>1, <2>2, <3>1 DEF IInv, InProgress, AllBelieved, InReport
    <3>19. GraphsOwn'
      BY <1>1, <3>12 DEF IInv, GraphsOwn
    <3> QED
      BY <3>14, <3>15, <3>16, <3>17, <3>18, <3>19 DEF IInv
  <2>4. CASE ~(Believed(last, report) /\ SampleEnds(s))
    <3>1. current_timeline_samples' = s /\ UNCHANGED <<timelines, hw_contexts>>
      BY <1>4, <2>4, Zenon DEF accumulate_timeline, contextVars
    <3> HIDE DEF s
    <3>2. Types' /\ Phases'
      BY <1>1, <1>2, <2>1, <2>2, <3>1 DEF IInv, Types, Phases
    <3>3. timelines \in Seq(Samples) /\ s \in Samples \cup {None}
      BY <2>2, TimelineType DEF IInv
    <3>4. hw_contexts[h] # None
      <4>1. Owned(timelines, h) \in Nat
        BY <3>3, OwnedType
      <4>2. Owned(timelines, h) + (IF /\ current_timeline_samples # None
                                      /\ current_timeline_samples.hw = h
                                   THEN 1 ELSE 0)
                = IF hw_contexts[h] = None THEN 0 ELSE hw_contexts[h].n_samples
        BY <2>2, CountOf, Zenon DEF IInv
      <4> QED
        BY <1>4, <2>2, <4>1, <4>2
    <3>5. ContextsInStep'
      BY <1>1, <2>1, <3>1, <3>4 DEF IInv, ContextsInStep
    <3>6. ContextsCounted'
      <4> SUFFICES ASSUME NEW hw \in HwIds
                   PROVE  Owned(Timeline', hw) =
                             IF hw_contexts'[hw] = None THEN 0 ELSE hw_contexts'[hw].n_samples
        BY DEF ContextsCounted
      <4>1. Timeline' = timelines \o Optional(s)
        BY <3>1 DEF Timeline
      <4>2. Owned(Timeline', hw) = Owned(timelines, hw) + (IF s # None /\ s.hw = hw THEN 1 ELSE 0)
        BY <3>3, <4>1, OwnedOptional, Zenon
      <4>3. Owned(timelines, hw) + (IF /\ current_timeline_samples # None
                                       /\ current_timeline_samples.hw = hw
                                    THEN 1 ELSE 0)
                = IF hw_contexts[hw] = None THEN 0 ELSE hw_contexts[hw].n_samples
        BY CountOf, Zenon DEF IInv
      <4> QED
        BY <1>4, <2>2, <3>1, <4>2, <4>3
    <3>7. InProgress'
      <4>1. s.zero \/ h = report.hw
        BY <2>2, <2>4 DEF SampleEnds
      <4> QED
        BY <1>1, <2>1, <3>1, <4>1 DEF InProgress
    <3>8. AllBelieved' /\ GraphsOwn'
      BY <1>1, <2>1, <2>2, <3>1 DEF IInv, AllBelieved, GraphsOwn, InReport
    <3> QED
      BY <3>2, <3>5, <3>6, <3>7, <3>8 DEF IInv
  <2> QED
    BY <2>3, <2>4
<1> QED
  BY <1>3, <1>4

-----------------------------------------------------------------------------
(***************************************************************************)
(* The theorems.                                                           *)
(***************************************************************************)

\* Every step keeps the invariant.
LEMMA NextInductive == IInv /\ [Next]_vars => IInv'
<1> SUFFICES ASSUME IInv, [Next]_vars
             PROVE  IInv'
  OBVIOUS
<1> USE DEF lastVars, contextVars, sampleVars, hardware, history
<1>1. CASE gputop_client_context_start_sampling
  BY <1>1, StartInductive
<1>2. CASE gputop_client_context_stop_sampling
  <2>1. /\ UNCHANGED proofVars /\ chunk' \in Chunks \cup {None}
        /\ pc \notin InReport /\ pc' \notin InReport
    BY <1>2 DEF gputop_client_context_stop_sampling, proofVars, IInv, Types, InReport
  <2> QED
    BY <2>1, OutsideInductive
<1>3. CASE handle_i915_perf_data
  <2>1. /\ UNCHANGED proofVars /\ chunk' \in Chunks \cup {None}
        /\ pc \notin InReport /\ pc' \notin InReport
    BY <1>3 DEF handle_i915_perf_data, proofVars, InReport
  <2> QED
    BY <2>1, OutsideInductive
<1>4. CASE record_sample
  BY <1>4, RecordInductive
<1>5. CASE record_buffer_lost \/ chunk_done
  <2>1. /\ UNCHANGED proofVars /\ chunk' \in Chunks \cup {None}
        /\ pc \notin InReport /\ pc' \notin InReport
    BY <1>5 DEF record_buffer_lost, chunk_done, proofVars, IInv, Types, InReport
  <2> QED
    BY <2>1, OutsideInductive
<1>6. CASE put_i915_perf_chunk
  <2>1. /\ UNCHANGED proofVars /\ chunk' \in Chunks \cup {None}
        /\ pc \notin InReport /\ pc' \notin InReport
    BY <1>6 DEF put_i915_perf_chunk, proofVars, InReport
  <2> QED
    BY <2>1, OutsideInductive
<1>7. CASE begin_graph
  BY <1>7, BeginGraphInductive
<1>8. CASE begin_timeline
  BY <1>8, BeginTimelineInductive
<1>9. CASE accumulate_timeline
  BY <1>9, TimelineInductive
<1>10. CASE accumulate_context
  BY <1>10, ContextInductive
<1>11. CASE accumulate_graph
  BY <1>11, GraphInductive
<1>12. CASE finish_record
  BY <1>12, FinishInductive
<1>13. CASE UNCHANGED vars
  <2>1. UNCHANGED proofVars /\ UNCHANGED <<pc, chunk>>
    BY <1>13 DEF vars, proofVars
  <2>2. Types' /\ Phases' /\ ContextsInStep'
    BY <2>1 DEF proofVars, IInv, Types, Phases, ContextsInStep
  <2>3. ContextsCounted'
    BY <2>1, CountsKept DEF proofVars, IInv
  <2>4. InProgress' /\ AllBelieved' /\ GraphsOwn'
    BY <2>1 DEF proofVars, IInv, InProgress, AllBelieved, GraphsOwn
  <2> QED
    BY <2>2, <2>3, <2>4 DEF IInv
<1> QED
  BY <1>1, <1>2, <1>3, <1>4, <1>5, <1>6, <1>7, <1>8, <1>9, <1>10, <1>11, <1>12, <1>13, Zenon
     DEF Next

\* The invariant of i915_perf_accumulate() holds whatever is received.
THEOREM Inductive == Spec => []IInv
<1>1. Init => IInv
  BY InitInductive
<1>2. IInv /\ [Next]_vars => IInv'
  BY NextInductive
<1> QED
  BY <1>1, <1>2, PTL DEF Spec

\* The count of a context is the number of its samples in the timeline: a context
\* is freed with the last of them, neither before nor never, so that none is left
\* when the samples are given up (the assertion of a reset,
\* gputop-client-context.c:1729).
THEOREM ContextsKept == Spec => []ContextsCounted
<1>1. IInv => ContextsCounted
  BY DEF IInv
<1> QED
  BY <1>1, Inductive, PTL

\* The graphs of all contexts begin and end together, whatever contexts appear or
\* are freed meanwhile (assertions at gputop-client-context.c:990 and :1038), and
\* the context of a sample just recorded is still there.
THEOREM BlocksInStep == Spec => []ContextsInStep
<1>1. IInv => ContextsInStep
  BY DEF IInv
<1> QED
  BY <1>1, Inductive, PTL

\* A sequence and the sample in progress.
LEMMA WithOptional ==
    ASSUME NEW S, NEW q \in Seq(S), NEW s \in S \cup {None}
    PROVE  \A i \in DOMAIN (q \o Optional(s)) : (q \o Optional(s))[i] \in S
<1>1. Optional(s) \in Seq(S)
  <2>1. CASE s = None
    <3>1. <<>> \in Seq(S)
      OBVIOUS
    <3> QED
      BY <2>1, <3>1 DEF Optional
  <2>2. CASE s # None
    <3>1. s \in S /\ Optional(s) = <<s>>
      BY <2>2 DEF Optional
    <3>2. <<s>> \in Seq(S)
      BY <3>1
    <3> QED
      BY <3>1, <3>2
  <2> QED
    BY <2>1, <2>2
<1> DEFINE r == q \o Optional(s)
<1>2. r \in Seq(S)
  BY <1>1, ConcatProperties
<1> HIDE DEF r
<1>3. \A i \in DOMAIN r : r[i] \in S
  BY <1>2, LenProperties, ElementOfSeq
<1> QED
  BY <1>3 DEF r

\* What a sample of the timeline accumulated ran on its context, unless the
\* timestamp of a report was zero; and so did what the graphs of a context
\* accumulated when no timestamp ever was.
THEOREM RanOnContext == Spec => []Attributed
<1>1. ASSUME IInv
      PROVE  Attributed
  <2>1. \A i \in DOMAIN Timeline : Timeline[i] \in Own
    <3>1. timelines \in Seq(Own) /\ current_timeline_samples \in Own \cup {None}
      BY <1>1 DEF IInv, Types
    <3> QED
      BY <3>1, WithOptional, Zenon DEF Timeline
  <2>2. \A i \in DOMAIN Timeline : Timeline[i].zero \/ Timeline[i].ran \subseteq {Timeline[i].hw}
    BY <2>1 DEF Own
  <2>3. ASSUME zeros = 0, NEW hw \in HwIds, hw_contexts[hw] # None
        PROVE  \A i \in DOMAIN ContextSamples(hw_contexts[hw]) :
                  ContextSamples(hw_contexts[hw])[i].ran \subseteq {hw}
    <3> DEFINE q == hw_contexts[hw].graphs
               s == hw_contexts[hw].current_graph_samples
    <3>1. q \in Seq(RanOn(hw)) /\ s \in RanOn(hw) \cup {None}
      BY <1>1, <2>3 DEF IInv, GraphsOwn
    <3>2. ContextSamples(hw_contexts[hw]) = q \o Optional(s)
      BY DEF ContextSamples
    <3> HIDE DEF q, s
    <3>3. \A i \in DOMAIN (q \o Optional(s)) : (q \o Optional(s))[i] \in RanOn(hw)
      BY <3>1, WithOptional, Zenon
    <3> QED
      BY <3>2, <3>3 DEF RanOn
  <2> QED
    BY <2>2, <2>3, Zenon DEF Attributed
<1> QED
  BY <1>1, Inductive, PTL

-----------------------------------------------------------------------------
(***************************************************************************)
(* What is counted and timed: invariants that rest on IInv.                *)
(***************************************************************************)

\* The hardware's time: a report in hand is of now, the last one is a step before
\* it, or of now.
Clocked ==
    /\ now \in Nat /\ report.ts = report.at % U32
    /\ pc \in InReport => report.at = now
    /\ last # None =>
       /\ last.at \in Nat /\ last.ts = last.at % U32
       /\ IF pc \in InReport THEN now - last.at \in Steps ELSE last.at = now

\* The intervals, wherever they are counted.
Counted ==
    /\ graphs \in Seq(Samples) /\ measured \in Int /\ given_up \in Int
    /\ measured = given_up + Delta(graphs)
                    + (IF current_graph_samples = None THEN 0 ELSE current_graph_samples.delta)

\* The time of a context, which is 0 without one.
TimeKept ==
    /\ time_spent \in [HwIds -> Int]
    /\ \A hw \in HwIds : time_spent[hw] = TimeOf(timelines, hw) % U64

\* The time up to which samples of the timeline have ended.
Ended ==
    IF pc \in {"context", "global", "finish"} THEN report.at
    ELSE IF last = None THEN 0 ELSE last.at

\* The timeline is in order and ends before the sample in progress.
InOrder ==
    /\ \A i \in 1..Len(timelines) :
          /\ 0 <= timelines[i].timestamp_start
          /\ timelines[i].timestamp_start <= timelines[i].timestamp_end
          /\ timelines[i].timestamp_end <= Ended
    /\ \A i, j \in 1..Len(timelines) : i < j =>
          /\ timelines[i].timestamp_end <= timelines[j].timestamp_start
          /\ timelines[j].timestamp_end - timelines[i].timestamp_start <= Window
    /\ current_timeline_samples # None =>
          /\ 0 <= current_timeline_samples.timestamp_start
          /\ current_timeline_samples.timestamp_start <= Ended
          /\ \A i \in 1..Len(timelines) :
                timelines[i].timestamp_end <= current_timeline_samples.timestamp_start

Windowed ==
    /\ last = None => timelines = <<>>
    /\ cpu_timestamps /\ now < U64 => InOrder

-----------------------------------------------------------------------------
(***************************************************************************)
(* What samples add up to.                                                 *)
(***************************************************************************)

\* What a sample adds to the sums of the model.
deltaOf == [s \in Samples |-> s.delta]

timeOf(hw) == [s \in Samples |-> IF s.hw = hw THEN Duration(s) ELSE 0]

startsIn(c) == [s \in Samples |-> IF s.start = c THEN 1 ELSE 0]

endsIn(c) == [s \in Samples |-> IF s.end = c THEN 1 ELSE 0]

\* They are numbers.
LEMMA Summands ==
    /\ deltaOf \in [Samples -> Int]
    /\ \A hw : timeOf(hw) \in [Samples -> Int]
    /\ \A c : startsIn(c) \in [Samples -> Int] /\ endsIn(c) \in [Samples -> Int]
<1>1. \A s \in Samples : s.delta \in Int
  BY DEF Samples
<1>2. ASSUME NEW s \in Samples
      PROVE  Duration(s) \in Int
  <2>1. s.timestamp_end - s.timestamp_start \in Int
    BY DEF Samples
  <2> QED
    BY <2>1, Differences DEF Duration, Minus64
<1>3. deltaOf \in [Samples -> Int]
  BY <1>1 DEF deltaOf
<1>4. ASSUME NEW hw
      PROVE  timeOf(hw) \in [Samples -> Int]
  BY <1>2 DEF timeOf
<1> QED
  BY <1>3, <1>4 DEF startsIn, endsIn

\* With the sample in progress.
LEMMA TotalOptional ==
    ASSUME NEW v \in [Samples -> Int], NEW q \in Seq(Samples), NEW s \in Samples \cup {None}
    PROVE  /\ q \o Optional(s) \in Seq(Samples)
           /\ Total(v, q \o Optional(s)) = Total(v, q) + (IF s = None THEN 0 ELSE v[s])
<1>1. Total(v, q) \in Int
  BY TotalIs
<1>2. CASE s = None
  <2>1. q \o Optional(s) = q
    BY <1>2, ConcatEmptySeq DEF Optional
  <2> QED
    BY <1>1, <1>2, <2>1
<1>3. CASE s # None
  <2>1. s \in Samples /\ Optional(s) = <<s>>
    BY <1>3 DEF Optional
  <2>2. q \o Optional(s) = Append(q, s)
    BY <2>1, AppendIsConcat
  <2>3. Append(q, s) \in Seq(Samples) /\ Total(v, Append(q, s)) = Total(v, q) + v[s]
    BY <2>1, TotalAppend
  <2> QED
    BY <1>3, <2>2, <2>3
<1> QED
  BY <1>2, <1>3

\* The sums of the model.
LEMMA SumsOfSamples ==
    ASSUME NEW q \in Seq(Samples)
    PROVE  /\ Delta(q) = Total(deltaOf, q)
           /\ \A hw : TimeOf(q, hw) = Total(timeOf(hw), q)
<1>1. \A i \in DOMAIN q : q[i] \in Samples
  BY LenProperties, ElementOfSeq
<1>2. Values(deltaOf, q) = [i \in DOMAIN q |-> q[i].delta]
  BY <1>1 DEF Values, deltaOf
<1>3. ASSUME NEW hw
      PROVE  Values(timeOf(hw), q)
                = [i \in DOMAIN q |-> IF q[i].hw = hw THEN Duration(q[i]) ELSE 0]
  BY <1>1 DEF Values, timeOf
<1> QED
  BY <1>2, <1>3 DEF Delta, TimeOf, Total

\* References are what starts and what ends in a chunk.
LEMMA ReferencesAre ==
    ASSUME NEW q \in Seq(Samples), NEW c
    PROVE  /\ References(q, c) = Total(startsIn(c), q) + Total(endsIn(c), q)
           /\ References(q, c) \in Int
<1> DEFINE v == startsIn(c)
           w == endsIn(c)
           f == Values(v, q)
           g == Values(w, q)
<1>1. v \in [Samples -> Int] /\ w \in [Samples -> Int] /\ DOMAIN q = 1..Len(q)
  BY Summands, LenProperties
<1> HIDE DEF v, w
<1>2. /\ IsFiniteSet(1..Len(q))
      /\ \A i \in 1..Len(q) : q[i] \in Samples /\ f[i] = v[q[i]] /\ v[q[i]] \in Int
      /\ Total(v, q) = SumFunctionOnSet(f, 1..Len(q))
      /\ Total(v, q) \in Int
  BY <1>1, TotalIs, Zenon
<1>3. /\ \A i \in 1..Len(q) : q[i] \in Samples /\ g[i] = w[q[i]] /\ w[q[i]] \in Int
      /\ Total(w, q) = SumFunctionOnSet(g, 1..Len(q))
      /\ Total(w, q) \in Int
  BY <1>1, TotalIs, Zenon
<1>4. /\ \A i \in 1..Len(q) : f[i] = (IF q[i].start = c THEN 1 ELSE 0)
      /\ \A i \in 1..Len(q) : g[i] = (IF q[i].end = c THEN 1 ELSE 0)
  BY <1>2, <1>3 DEF v, w, startsIn, endsIn
<1> HIDE DEF f, g
<1>5. SumFunctionOnSet(f, 1..Len(q)) = Cardinality({i \in 1..Len(q) : f[i] = 1})
  <2>1. IsFiniteSet(1..Len(q)) /\ \A i \in 1..Len(q) : f[i] \in {0, 1}
    BY <1>2, <1>4
  <2> QED
    BY <2>1, SumOnes
<1>6. SumFunctionOnSet(g, 1..Len(q)) = Cardinality({i \in 1..Len(q) : g[i] = 1})
  <2>1. IsFiniteSet(1..Len(q)) /\ \A i \in 1..Len(q) : g[i] \in {0, 1}
    BY <1>2, <1>4
  <2> QED
    BY <2>1, SumOnes
<1>7. /\ {i \in 1..Len(q) : f[i] = 1} = {i \in DOMAIN q : q[i].start = c}
      /\ {i \in 1..Len(q) : g[i] = 1} = {i \in DOMAIN q : q[i].end = c}
  BY <1>1, <1>4
<1>8. References(q, c) = Total(v, q) + Total(w, q)
  BY <1>2, <1>3, <1>5, <1>6, <1>7 DEF References
<1> QED
  BY <1>2, <1>3, <1>8 DEF v, w

-----------------------------------------------------------------------------
(***************************************************************************)
(* Time, and the intervals between reports.                                *)
(***************************************************************************)

\* What accumulating an interval keeps, and what it adds.
LEMMA AccumulatedFields ==
    ASSUME NEW s \in Samples, NEW r0 \in Reports, NEW r1 \in Reports
    PROVE  LET t == gputop_cc_oa_accumulate_reports(s, r0, r1) IN
           /\ t.start = s.start /\ t.end = s.end /\ t.timestamp_start = s.timestamp_start
           /\ t.delta = s.delta + (IF Believed(r0, r1) THEN Minus32(r1.ts, r0.ts) ELSE 0)
<1> DEFINE first == IF s.first = 0 THEN s.clock ELSE s.first
           clock == s.clock + Minus32(r1.ts, s.u32)
           e == Minus32(r1.ts, r0.ts)
           t == gputop_cc_oa_accumulate_reports(s, r0, r1)
<1>1. s.delta \in Int
  BY DEF Samples
<1>2. CASE Believed(r0, r1)
  <2>1. t = [s EXCEPT !.first = first, !.clock = clock, !.u32 = r1.ts,
                      !.elapsed = clock - first, !.delta = @ + e, !.ran = @ \cup {r0.hw}]
    BY <1>2 DEF gputop_cc_oa_accumulate_reports
  <2> HIDE DEF first, clock, e, t
  <2>2. /\ t.start = s.start /\ t.end = s.end /\ t.timestamp_start = s.timestamp_start
        /\ t.delta = s.delta + e
    BY <2>1 DEF Samples
  <2> QED
    BY <1>2, <2>2, Zenon DEF t, e
<1>3. CASE ~Believed(r0, r1)
  <2>1. t = [s EXCEPT !.zero = TRUE]
    BY <1>3 DEF gputop_cc_oa_accumulate_reports
  <2> HIDE DEF t
  <2>2. /\ t.start = s.start /\ t.end = s.end /\ t.timestamp_start = s.timestamp_start
        /\ t.delta = s.delta /\ s.delta = s.delta + 0
    BY <1>1, <2>1 DEF Samples
  <2> QED
    BY <1>3, <2>2 DEF t
<1> QED
  BY <1>2, <1>3

\* Most steps leave time alone.
LEMMA ClockedKept ==
    ASSUME Clocked, UNCHANGED <<now, report, last>>, pc \in InReport <=> pc' \in InReport
    PROVE  Clocked'
BY DEF Clocked

\* Every step keeps the clock's invariant.
LEMMA ClockedInductive == IInv /\ Clocked /\ [Next]_vars => Clocked'
<1> SUFFICES ASSUME IInv, Clocked, [Next]_vars
             PROVE  Clocked'
  OBVIOUS
<1> USE DEF lastVars, contextVars, sampleVars, hardware, history
<1>1. CASE gputop_client_context_start_sampling
  <2>1. /\ UNCHANGED <<now, report>> /\ last' = None /\ pc' \notin InReport
    BY <1>1 DEF gputop_client_context_start_sampling, i915_perf_empty_samples, InReport
  <2> QED
    BY <2>1 DEF Clocked
<1>2. CASE \/ gputop_client_context_stop_sampling \/ handle_i915_perf_data
           \/ record_buffer_lost \/ chunk_done \/ put_i915_perf_chunk
  <2>1. UNCHANGED <<now, report, last>> /\ pc \notin InReport /\ pc' \notin InReport
    BY <1>2 DEF gputop_client_context_stop_sampling, handle_i915_perf_data,
                record_buffer_lost, chunk_done, put_i915_perf_chunk, InReport
  <2> QED
    BY <2>1, ClockedKept
<1>3. CASE \/ begin_graph \/ begin_timeline \/ accumulate_timeline \/ accumulate_context
           \/ accumulate_graph
  <2>1. UNCHANGED <<now, report, last>> /\ pc \in InReport /\ pc' \in InReport
    <3>1. CASE begin_graph
      BY <3>1 DEF begin_graph, InReport
    <3>2. CASE begin_timeline
      BY <3>2 DEF begin_timeline, InReport
    <3>3. CASE accumulate_timeline
      <4>1. pc' = "global" \/ pc' = "context"
        BY <3>3 DEF accumulate_timeline
      <4>2. UNCHANGED <<now, report, last>> /\ pc = "accumulate"
        BY <3>3 DEF accumulate_timeline
      <4> QED
        BY <4>1, <4>2 DEF InReport
    <3>4. CASE accumulate_context
      BY <3>4 DEF accumulate_context, InReport
    <3>5. CASE accumulate_graph
      BY <3>5 DEF accumulate_graph, InReport
    <3> QED
      BY <1>3, <3>1, <3>2, <3>3, <3>4, <3>5
  <2> QED
    BY <2>1, ClockedKept
<1>4. CASE record_sample
  <2>1. pc = "next" /\ pc' = "graph" /\ UNCHANGED last
    BY <1>4 DEF record_sample
  <2>2. PICK step \in Steps, hw \in HwIds \cup {INVALID} :
           /\ report' = [ts |-> (now + step) % U32, hw |-> hw, at |-> now + step, chunk |-> chunk]
           /\ now' = now + step
    BY <1>4 DEF record_sample
  <2>3. step \in Nat /\ now \in Nat
    BY OaAssumption DEF Clocked
  <2>4. report'.at = now' /\ report'.ts = report'.at % U32 /\ now' \in Nat
    BY <2>2, <2>3
  <2>5. last # None => last.at = now /\ last.at \in Nat /\ last.ts = last.at % U32
    BY <2>1 DEF Clocked, InReport
  <2>6. last # None => now' - last.at = step
    BY <2>2, <2>3, <2>5
  <2> QED
    BY <2>1, <2>4, <2>5, <2>6 DEF Clocked, InReport
<1>5. CASE finish_record
  <2>1. pc = "finish" /\ pc' = "next" /\ last' = report /\ UNCHANGED <<now, report>>
    BY <1>5 DEF finish_record
  <2> QED
    BY <2>1 DEF Clocked, InReport
<1>6. CASE UNCHANGED vars
  <2>1. UNCHANGED <<now, report, last, pc>>
    BY <1>6 DEF vars
  <2> QED
    BY <2>1, ClockedKept
<1> QED
  BY <1>1, <1>2, <1>3, <1>4, <1>5, <1>6, Zenon DEF Next

\* The difference of two 32 bit timestamps is the time between the reports.
LEMMA IntervalLength ==
    ASSUME Clocked, last # None, pc \in InReport
    PROVE  /\ Minus32(report.ts, last.ts) = report.at - last.at
           /\ report.at - last.at \in Int
<1> DEFINE a == report.at
           b == last.at
           d == a - b
<1>1. /\ a \in Nat /\ b \in Nat /\ d \in Steps
      /\ report.ts = a % U32 /\ last.ts = b % U32
  BY DEF Clocked
<1>2. U32 \in Nat \ {0} /\ d \in 0..U32 - 1
  BY <1>1, OaAssumption
<1> HIDE DEF a, b
<1>3. ((a % U32) - (b % U32)) % U32 = (a - b) % U32
  <2>1. a \in Int /\ b \in Int /\ U32 \in Nat \ {0}
    BY <1>1, <1>2
  <2> QED
    BY <2>1, ModMinus, Zenon
<1>4. (a - b) % U32 = a - b
  BY <1>2, ModSmall
<1> QED
  BY <1>1, <1>3, <1>4 DEF Minus32, a, b

\* What is given up and what is kept of the graphs when another one is added.
LEMMA KeptTotal ==
    ASSUME NEW v \in [Samples -> Int], NEW q \in Seq(Samples), NEW s \in Samples,
           NEW e \in Samples, e = [s EXCEPT !.end = chunk]
    PROVE  /\ GivenUp(q) \in Seq(Samples) /\ Kept(q, s) \in Seq(Samples)
           /\ Total(v, GivenUp(q)) \in Int
           /\ Total(v, Kept(q, s)) = (Total(v, q) - Total(v, GivenUp(q))) + v[e]
<1> DEFINE n == ExcessGraphs(q)
           x == SubSeq(q, 1, n)
           r == SubSeq(q, n + 1, Len(q))
<1>1. n \in 0..Len(q)
  BY ExcessGraphsRange
<1>2. GivenUp(q) = x /\ Kept(q, s) = Append(r, e)
  BY DEF GivenUp, Kept
<1> HIDE DEF n
<1>3. x \in Seq(Samples) /\ r \in Seq(Samples)
  BY <1>1, Cut
<1>4. /\ Total(v, x) \in Int
      /\ Total(v, r) \in Int
      /\ Total(v, q) = Total(v, x) + Total(v, r)
  BY <1>1, TotalCut, Zenon
<1> HIDE DEF x, r
<1>5. /\ Append(r, e) \in Seq(Samples)
      /\ v[e] \in Int
      /\ Total(v, r) \in Int
      /\ Total(v, Append(r, e)) = Total(v, r) + v[e]
  <2>1. v \in [Samples -> Int] /\ r \in Seq(Samples) /\ e \in Samples
    BY <1>3
  <2> QED
    BY ONLY <2>1, TotalAppend, SMTT(60)
<1>6. Total(v, Append(r, e)) = (Total(v, q) - Total(v, x)) + v[e]
  BY <1>4, <1>5
<1> QED
  BY <1>2, <1>3, <1>4, <1>5, <1>6

\* Steps that leave the graphs alone.
LEMMA CountedKept ==
    ASSUME Counted, UNCHANGED <<graphs, measured, given_up, current_graph_samples>>
    PROVE  Counted'
<1>1. Delta(graphs)' = Delta(graphs)
  BY DEF Delta
<1> QED
  BY <1>1 DEF Counted

\* An interval is added to the graph in progress, and its length to what was
\* measured; when the graph ends, what is given up is accounted for.
LEMMA GraphCounted ==
    ASSUME IInv, Clocked, Counted, accumulate_graph
    PROVE  Counted'
<1> DEFINE s == current_graph_samples
           g == gputop_cc_oa_accumulate_reports(s, last, report)
           d == IF Believed(last, report) THEN report.at - last.at ELSE 0
<1>1. /\ pc = "global" /\ measured' = measured + d
  BY DEF accumulate_graph
<1>2. /\ last \in Reports /\ last # None /\ report \in Reports
      /\ s \in Samples /\ s # None /\ chunk \in Chunks \cup {None}
  BY <1>1 DEF IInv, Types, Phases
<1>3. /\ Minus32(report.ts, last.ts) = report.at - last.at /\ report.at - last.at \in Int
  BY <1>1, <1>2, IntervalLength DEF InReport
<1>4. /\ graphs \in Seq(Samples) /\ measured \in Int /\ given_up \in Int
      /\ measured = given_up + Delta(graphs) + s.delta
  BY <1>2 DEF Counted
<1>5. g \in Samples /\ g # None
  <2> HIDE DEF s
  <2>1. g \in Samples
    BY <1>2, Accumulated, Zenon
  <2> QED
    BY <2>1, NoneIsNothing, Zenon
<1>6. g.delta = s.delta + d /\ d \in Int /\ s.delta \in Int
  <2>1. g.delta = s.delta + (IF Believed(last, report) THEN Minus32(report.ts, last.ts) ELSE 0)
    <3> HIDE DEF s
    <3> QED
      BY <1>2, AccumulatedFields, Zenon
  <2>2. s.delta \in Int
    BY <1>2 DEF Samples
  <2> QED
    BY <1>3, <2>1, <2>2
<1>7. Delta(graphs) = Total(deltaOf, graphs) /\ Total(deltaOf, graphs) \in Int
  BY <1>4, SumsOfSamples, Summands, TotalIs, Zenon
<1>8. CASE Believed(last, report) /\ g.elapsed > Period
  <2>1. /\ graphs' = Kept(graphs, g) /\ current_graph_samples' = None
        /\ given_up' = given_up + Delta(GivenUp(graphs))
    BY <1>8, Zenon DEF accumulate_graph, i915_perf_record_for_time
  <2> DEFINE e == [g EXCEPT !.end = chunk]
  <2> HIDE DEF g
  <2>2. e \in Samples /\ e.delta = g.delta
    BY <1>2, <1>5 DEF Samples
  <2>3. e = [g EXCEPT !.end = chunk]
    OBVIOUS
  <2> HIDE DEF e
  <2>4. /\ GivenUp(graphs) \in Seq(Samples) /\ Kept(graphs, g) \in Seq(Samples)
        /\ Total(deltaOf, GivenUp(graphs)) \in Int
        /\ Total(deltaOf, Kept(graphs, g))
              = (Total(deltaOf, graphs) - Total(deltaOf, GivenUp(graphs))) + deltaOf[e]
    BY <1>4, <1>5, <2>2, <2>3, KeptTotal, Summands, SMTT(60)
  <2>5. deltaOf[e] = g.delta
    BY <2>2 DEF deltaOf
  <2>6. /\ Delta(GivenUp(graphs)) = Total(deltaOf, GivenUp(graphs))
        /\ Delta(Kept(graphs, g)) = Total(deltaOf, Kept(graphs, g))
    BY <2>4, SumsOfSamples, Zenon
  <2> DEFINE a == Total(deltaOf, graphs)
             b == Total(deltaOf, GivenUp(graphs))
  <2>7. /\ Delta(graphs') = (a - b) + g.delta /\ given_up' = given_up + b
        /\ measured = given_up + a + s.delta
        /\ a \in Int /\ b \in Int
    BY <1>4, <1>7, <2>1, <2>4, <2>5, <2>6
  <2> HIDE DEF a, b, s, d
  <2>8. measured' = given_up' + Delta(graphs') + 0 /\ measured' \in Int /\ given_up' \in Int
    BY <1>1, <1>4, <1>6, <2>7, SMTT(60)
  <2>9. graphs' \in Seq(Samples)
    BY <2>1, <2>4
  <2> QED
    BY <2>1, <2>8, <2>9 DEF Counted, Delta
<1>9. CASE ~(Believed(last, report) /\ g.elapsed > Period)
  <2>1. current_graph_samples' = g /\ UNCHANGED <<graphs, given_up>>
    BY <1>9, Zenon DEF accumulate_graph
  <2>2. Delta(graphs') = Delta(graphs) /\ Delta(graphs) \in Int
    BY <1>7, <2>1 
  <2> HIDE DEF g, s, d
  <2>3. measured' = given_up' + Delta(graphs') + g.delta /\ measured' \in Int
    BY <1>1, <1>4, <1>6, <2>1, <2>2
  <2> QED
    BY <1>4, <1>5, <2>1, <2>3 DEF Counted, Delta
<1> QED
  BY <1>8, <1>9

\* No samples, no sum.
LEMMA SumsOfNothing ==
    /\ Delta(<<>>) = 0
    /\ \A hw : TimeOf(<<>>, hw) = 0
    /\ \A c : References(<<>>, c) = 0
<1>1. <<>> \in Seq(Samples)
  OBVIOUS
<1>2. \A v : Total(v, <<>>) = 0
  BY TotalEmpty
<1>3. Delta(<<>>) = Total(deltaOf, <<>>) /\ \A hw : TimeOf(<<>>, hw) = Total(timeOf(hw), <<>>)
  BY <1>1, SumsOfSamples, Zenon
<1>4. \A c : References(<<>>, c) = Total(startsIn(c), <<>>) + Total(endsIn(c), <<>>)
  BY <1>1, ReferencesAre, Zenon
<1>5. \A c : References(<<>>, c) = 0 + 0
  BY <1>2, <1>4
<1> QED
  BY <1>2, <1>3, <1>5

\* Every step keeps account of the intervals.
LEMMA CountedInductive == IInv /\ Clocked /\ Counted /\ [Next]_vars => Counted'
<1> SUFFICES ASSUME IInv, Clocked, Counted, [Next]_vars
             PROVE  Counted'
  OBVIOUS
<1> USE DEF lastVars, contextVars, sampleVars, hardware, history
<1>1. CASE gputop_client_context_start_sampling
  <2>1. graphs' = <<>> /\ current_graph_samples' = None /\ measured' = 0 /\ given_up' = 0
    BY <1>1 DEF gputop_client_context_start_sampling, i915_perf_empty_samples
  <2>2. Delta(graphs') = 0 /\ graphs' \in Seq(Samples)
    BY <2>1, SumsOfNothing
  <2> QED
    BY <2>1, <2>2 DEF Counted, Delta
<1>2. CASE begin_graph
  <2>1. UNCHANGED <<graphs, measured, given_up>>
    BY <1>2 DEF begin_graph
  <2>2. CASE current_graph_samples = None
    <3>1. current_graph_samples' = Sample(report, INVALID, 0)
      BY <1>2, <2>2, Zenon DEF begin_graph
    <3>2. current_graph_samples' # None /\ current_graph_samples'.delta = 0
      <4>1. report.chunk \in Chunks \cup {None} /\ report.ts \in Int
        BY DEF IInv, Types, Reports
      <4>2. INVALID \in HwIds \cup {INVALID} /\ 0 \in Int
        OBVIOUS
      <4>3. Sample(report, INVALID, 0) \in Samples
        BY <4>1, <4>2, NewSample, Zenon
      <4>4. Sample(report, INVALID, 0).delta = 0
        BY DEF Sample
      <4> QED
        BY <3>1, <4>3, <4>4, NoneIsNothing, Zenon
    <3> QED
      BY <2>1, <2>2, <3>2 DEF Counted, Delta
  <2>3. CASE current_graph_samples # None
    <3>1. UNCHANGED current_graph_samples
      BY <1>2, <2>3, Zenon DEF begin_graph
    <3> QED
      BY <2>1, <3>1, CountedKept
  <2> QED
    BY <2>2, <2>3
<1>3. CASE accumulate_graph
  BY <1>3, GraphCounted
<1>4. CASE \/ gputop_client_context_stop_sampling \/ handle_i915_perf_data \/ record_sample
           \/ record_buffer_lost \/ chunk_done \/ put_i915_perf_chunk
  <2>1. UNCHANGED <<graphs, measured, given_up, current_graph_samples>>
    BY <1>4 DEF gputop_client_context_stop_sampling, handle_i915_perf_data, record_sample,
                record_buffer_lost, chunk_done, put_i915_perf_chunk
  <2> QED
    BY <2>1, CountedKept
<1>5. CASE \/ begin_timeline \/ accumulate_timeline \/ accumulate_context \/ finish_record
  <2>1. UNCHANGED <<graphs, measured, given_up, current_graph_samples>>
    BY <1>5 DEF begin_timeline, accumulate_timeline, accumulate_context, finish_record
  <2> QED
    BY <2>1, CountedKept
<1>6. CASE UNCHANGED vars
  <2>1. UNCHANGED <<graphs, measured, given_up, current_graph_samples>>
    BY <1>6 DEF vars
  <2> QED
    BY <2>1, CountedKept
<1> QED
  BY <1>1, <1>2, <1>3, <1>4, <1>5, <1>6, Zenon DEF Next

\* Time starts at 0 and nothing is measured.
LEMMA CountedInit == Init => Clocked /\ Counted
<1> SUFFICES ASSUME Init
             PROVE  Clocked /\ Counted
  OBVIOUS
<1>1. Clocked
  <2>1. 0 % U32 = 0
    <3>1. U32 \in Nat \ {0} /\ 0 \in 0..U32 - 1
      BY OaAssumption
    <3> QED
      BY <3>1, ModSmall
  <2>2. report.ts = 0 /\ report.at = 0
    BY DEF Init, NoReport
  <2> QED
    BY <2>1, <2>2 DEF Init, Clocked, InReport
<1>2. Counted
  <2>1. graphs = <<>> /\ measured = 0 /\ given_up = 0 /\ current_graph_samples = None
    BY DEF Init
  <2>2. Delta(graphs) = 0 /\ graphs \in Seq(Samples)
    BY <2>1, SumsOfNothing
  <2> QED
    BY <2>1, <2>2 DEF Counted
<1> QED
  BY <1>1, <1>2

\* Time and the account of the intervals, in every state.
THEOREM Accounts == Spec => [](IInv /\ Clocked /\ Counted)
<1>1. Init => IInv /\ Clocked /\ Counted
  BY InitInductive, CountedInit
<1>2. (IInv /\ Clocked /\ Counted) /\ [Next]_vars => (IInv /\ Clocked /\ Counted)'
  BY NextInductive, ClockedInductive, CountedInductive
<1> QED
  BY <1>1, <1>2, PTL DEF Spec

\* Every interval between believable reports is in exactly one graph, with its
\* length, whatever graphs were given up and however often the 32 bit timestamp
\* wrapped.
THEOREM CountedOnce == Spec => []IntervalsCountedOnce
<1>1. ASSUME IInv, Counted
      PROVE  IntervalsCountedOnce
  <2> DEFINE s == current_graph_samples
  <2>1. s \in Samples \cup {None}
    BY <1>1 DEF IInv, Types
  <2>2. Delta(Optional(s)) = IF s = None THEN 0 ELSE s.delta
    <3>1. CASE s = None
      BY <3>1, SumsOfNothing DEF Optional
    <3>2. CASE s # None
      <4>1. s \in Samples /\ <<>> \in Seq(Samples) /\ deltaOf \in [Samples -> Int]
        BY <2>1, <3>2, Summands
      <4> HIDE DEF s
      <4>2. /\ Append(<<>>, s) \in Seq(Samples) /\ deltaOf[s] \in Int
            /\ Total(deltaOf, Append(<<>>, s)) = Total(deltaOf, <<>>) + deltaOf[s]
        BY <4>1, TotalAppend, ZenonT(60)
      <4>3. Optional(s) = Append(<<>>, s)
        BY <3>2 DEF Optional
      <4>4. Delta(Optional(s)) = Total(deltaOf, Append(<<>>, s))
        BY <4>2, <4>3, SumsOfSamples, Zenon
      <4>5. deltaOf[s] = s.delta /\ Total(deltaOf, <<>>) = 0
        BY <4>1, TotalEmpty DEF deltaOf
      <4> QED
        BY <3>2, <4>2, <4>4, <4>5
    <3> QED
      BY <3>1, <3>2
  <2> QED
    BY <1>1, <2>2 DEF Counted, IntervalsCountedOnce
<1> QED
  BY <1>1, Accounts, PTL

-----------------------------------------------------------------------------
(***************************************************************************)
(* The time of a context.                                                  *)
(***************************************************************************)

\* A context without samples has no time.
LEMMA NoSamplesNoTime ==
    ASSUME NEW q \in Seq(Samples), NEW hw, Owned(q, hw) = 0
    PROVE  TimeOf(q, hw) = 0
<1> DEFINE v == timeOf(hw)
           f == Values(v, q)
<1>1. v \in [Samples -> Int]
  BY Summands
<1>2. Places(q, hw) = {}
  <2>1. IsFiniteSet(Places(q, hw)) /\ Cardinality(Places(q, hw)) = 0
    BY OwnedType
  <2> QED
    BY <2>1, FS_EmptySet
<1>3. \A i \in 1..Len(q) : q[i].hw # hw
  BY <1>2 DEF Places
<1> HIDE DEF v
<1>4. /\ IsFiniteSet(1..Len(q))
      /\ \A i \in 1..Len(q) : q[i] \in Samples /\ f[i] = v[q[i]] /\ v[q[i]] \in Int
      /\ Total(v, q) = SumFunctionOnSet(f, 1..Len(q))
  BY <1>1, TotalIs, Zenon
<1>5. \A i \in 1..Len(q) : f[i] = 0
  BY <1>3, <1>4 DEF v, timeOf
<1> HIDE DEF f
<1>6. IsFiniteSet(1..Len(q))
  BY <1>4
<1>7. SumFunctionOnSet(f, 1..Len(q)) = 0
  BY <1>5, <1>6, SumZero
<1>8. TimeOf(q, hw) = Total(v, q)
  BY SumsOfSamples, Zenon DEF v
<1> QED
  BY <1>4, <1>7, <1>8

\* The sample in progress with the interval of the report in hand; how it is
\* recorded; the samples that are given up then, and those that remain.
Going == gputop_cc_oa_accumulate_reports(current_timeline_samples, last, report)

Done == [Going EXCEPT !.end = chunk, !.timestamp_end = i915_perf_timestamp(report)]

Removed == SubSeq(timelines, 1, Excess(i915_perf_timestamp(report)))

Rest == SubSeq(timelines, Excess(i915_perf_timestamp(report)) + 1, Len(timelines))

Recording == current_timeline_samples # None /\ Believed(last, report) /\ SampleEnds(Going)

\* What becomes of the variables.
LEMMA Recorded ==
    ASSUME IInv, accumulate_timeline, Recording
    PROVE  /\ timelines \in Seq(Samples) /\ Removed \in Seq(Samples) /\ Rest \in Seq(Samples)
           /\ Done \in Samples /\ Going \in Samples /\ i915_perf_timestamp(report) \in Int
           /\ Done.hw = Going.hw /\ Done.start = Going.start /\ Done.end = chunk
           /\ Done.timestamp_start = Going.timestamp_start
           /\ Done.timestamp_end = i915_perf_timestamp(report)
           /\ pc = "accumulate" /\ pc' = "context"
           /\ timelines' = Append(Rest, Done) /\ current_timeline_samples' = None
           /\ hw_contexts' = put_hw_contexts(Removed)
           /\ refcount' = put_samples([refcount EXCEPT ![chunk] = @ + 1], Removed)
           /\ time_spent' = hw_contexts_add_time(Removed,
                 [hw \in HwIds |-> TimeOf(<<Done>>, hw) - TimeOf(Removed, hw)])
           /\ \A v \in [Samples -> Int] : /\ Total(v, Removed) \in Int
                                          /\ Total(v, Rest) \in Int
                                          /\ Total(v, timelines) = Total(v, Removed) + Total(v, Rest)
<1>1. pc = "accumulate" /\ pc' = "context"
  BY Zenon DEF accumulate_timeline, Recording
<1>2. i915_perf_record_for_hw_id(Going)
  BY Zenon DEF accumulate_timeline, Recording, Going
<1>3. /\ timelines' = Append(Rest, Done) /\ current_timeline_samples' = None
      /\ hw_contexts' = put_hw_contexts(Removed)
      /\ refcount' = put_samples([refcount EXCEPT ![chunk] = @ + 1], Removed)
      /\ time_spent' = hw_contexts_add_time(Removed,
            [hw \in HwIds |-> TimeOf(<<Done>>, hw) - TimeOf(Removed, hw)])
  BY <1>2, Zenon DEF i915_perf_record_for_hw_id, Removed, Rest, Done
<1>4. Going \in Samples
  BY <1>1, Continued, Zenon DEF Own, Going, Recording
<1>5. i915_perf_timestamp(report) \in Int /\ chunk \in Chunks \cup {None}
  BY TimestampType DEF IInv, Types
<1>6. /\ Done \in Samples /\ Done.hw = Going.hw /\ Done.start = Going.start /\ Done.end = chunk
      /\ Done.timestamp_start = Going.timestamp_start
      /\ Done.timestamp_end = i915_perf_timestamp(report)
  <2> DEFINE t == i915_perf_timestamp(report)
             s == Going
             d == Done
  <2>1. d = [s EXCEPT !.end = chunk, !.timestamp_end = t] /\ t \in Int /\ s \in Samples
    BY <1>4, <1>5 DEF Done
  <2> HIDE DEF t, s, d
  <2>2. /\ d \in Samples /\ d.hw = s.hw /\ d.start = s.start /\ d.end = chunk
        /\ d.timestamp_start = s.timestamp_start /\ d.timestamp_end = t
    BY <1>5, <2>1 DEF Samples
  <2> QED
    BY <2>2, Zenon DEF d, s, t
<1> DEFINE n == Excess(i915_perf_timestamp(report))
<1>7. n \in 0..Len(timelines) /\ timelines \in Seq(Samples)
  BY ExcessRange, TimelineType DEF IInv
<1> HIDE DEF n
<1>8. Removed \in Seq(Samples) /\ Rest \in Seq(Samples)
  BY <1>7, Cut DEF Removed, Rest, n
<1>9. \A v \in [Samples -> Int] : /\ Total(v, Removed) \in Int
                                  /\ Total(v, Rest) \in Int
                                  /\ Total(v, timelines) = Total(v, Removed) + Total(v, Rest)
  BY <1>7, TotalCut, Zenon DEF Removed, Rest, n
<1> QED
  BY <1>1, <1>3, <1>4, <1>5, <1>6, <1>7, <1>8, <1>9, Zenon

\* The time of a sample that is recorded is added, that of the excess taken back.
LEMMA TimelineTime ==
    ASSUME IInv, IInv', TimeKept, accumulate_timeline
    PROVE  TimeKept'
<1>1. CASE current_timeline_samples = None
  <2>1. UNCHANGED <<timelines, time_spent>>
    BY <1>1 DEF accumulate_timeline, contextVars
  <2> QED
    BY <2>1 DEF TimeKept, TimeOf
<1>2. CASE current_timeline_samples # None
  <2>1. CASE ~Recording
    <3>1. UNCHANGED <<timelines, time_spent>>
      BY <1>2, <2>1, Zenon DEF accumulate_timeline, contextVars, Recording, Going
    <3> QED
      BY <3>1 DEF TimeKept, TimeOf
  <2>2. CASE Recording
    <3> DEFINE x == Removed
               y == Rest
               e == Done
               time == [hw \in HwIds |-> TimeOf(<<e>>, hw) - TimeOf(x, hw)]
    <3>1. /\ timelines \in Seq(Samples)
          /\ x \in Seq(Samples) /\ y \in Seq(Samples) /\ e \in Samples
          /\ timelines' = Append(y, e) /\ current_timeline_samples' = None
          /\ hw_contexts' = put_hw_contexts(x)
          /\ time_spent' = hw_contexts_add_time(x, time)
      BY <2>2, Recorded, Zenon
    <3>2. \A v \in [Samples -> Int] : /\ Total(v, x) \in Int
                                      /\ Total(v, y) \in Int
                                      /\ Total(v, timelines) = Total(v, x) + Total(v, y)
      BY <2>2, Recorded, Zenon
    <3> HIDE DEF x, y, e
    <3>3. time_spent' = [hw \in HwIds |->
             IF hw_contexts[hw] = None \/ hw \in Freed(x) THEN 0
             ELSE (time_spent[hw] + time[hw]) % U64]
      BY <3>1 DEF hw_contexts_add_time
    <3>4. U64 \in Nat \ {0} /\ 0 % U64 = 0
      <4>1. U64 \in Nat \ {0} /\ 0 \in 0..U64 - 1
        BY OaAssumption
      <4> QED
        BY <4>1, ModSmall
    <3>5. ASSUME NEW hw \in HwIds
          PROVE  time_spent'[hw] = TimeOf(timelines', hw) % U64 /\ time_spent'[hw] \in Int
      <4> DEFINE v == timeOf(hw)
                 a == Total(v, x)
                 b == Total(v, y)
                 d == v[e]
      <4>1. v \in [Samples -> Int] /\ <<>> \in Seq(Samples)
        BY Summands
      <4> HIDE DEF v
      <4>2. /\ Append(y, e) \in Seq(Samples)
            /\ d \in Int
            /\ b \in Int
            /\ Total(v, Append(y, e)) = b + d
        <5>1. v \in [Samples -> Int] /\ y \in Seq(Samples) /\ e \in Samples
          BY <3>1, <4>1
        <5> QED
          BY ONLY <5>1, TotalAppend
      <4>3. /\ Append(<<>>, e) \in Seq(Samples)
            /\ Total(v, Append(<<>>, e)) = Total(v, <<>>) + d
        <5>1. v \in [Samples -> Int] /\ <<>> \in Seq(Samples) /\ e \in Samples
          BY <3>1, <4>1
        <5> QED
          BY ONLY <5>1, TotalAppend, ZenonT(60)
      <4>4. <<e>> = Append(<<>>, e) /\ Total(v, <<>>) = 0
        BY TotalEmpty
      <4>5. a \in Int /\ b \in Int /\ Total(v, timelines) = a + b
        BY <3>2, <4>1, Zenon
      <4>6. /\ TimeOf(timelines, hw) = Total(v, timelines)
            /\ TimeOf(x, hw) = a
            /\ TimeOf(Append(y, e), hw) = Total(v, Append(y, e))
            /\ TimeOf(Append(<<>>, e), hw) = Total(v, Append(<<>>, e))
        <5>1. \A q \in Seq(Samples) : TimeOf(q, hw) = Total(v, q)
          BY SumsOfSamples, Zenon DEF v
        <5> QED
          BY <3>1, <4>2, <4>3, <5>1
      <4> HIDE DEF a, b, d
      <4>7. TimeOf(<<e>>, hw) = d
        BY <4>2, <4>3, <4>4, <4>6
      <4>8. time[hw] = d - a /\ TimeOf(timelines', hw) = b + d /\ TimeOf(timelines, hw) = a + b
        BY <3>1, <4>2, <4>5, <4>6, <4>7
      <4> HIDE DEF time
      <4>9. CASE hw_contexts[hw] = None \/ hw \in Freed(x)
        <5>1. time_spent'[hw] = 0
          BY <3>3, <4>9
        <5>2. hw_contexts'[hw] = None
          BY <3>1, <4>9 DEF put_hw_contexts
        <5>3. Timeline' = Append(y, e)
          <6>1. Timeline' = Append(y, e) \o <<>>
            BY <3>1 DEF Timeline, Optional
          <6> QED
            BY <4>2, <6>1, ConcatEmptySeq
        <5>4. Owned(Append(y, e), hw) = 0
          BY <5>2, <5>3 DEF IInv, ContextsCounted
        <5>5. TimeOf(Append(y, e), hw) = 0
          BY <4>2, <5>4, NoSamplesNoTime
        <5> QED
          BY <3>1, <3>4, <5>1, <5>5
      <4>10. CASE ~(hw_contexts[hw] = None \/ hw \in Freed(x))
        <5>1. time_spent'[hw] = (((a + b) % U64) + (d - a)) % U64
          BY <3>3, <4>8, <4>10 DEF TimeKept
        <5>2. a + b \in Int /\ d - a \in Int /\ (a + b) + (d - a) = b + d /\ b + d \in Int
          BY <4>2, <4>5
        <5>3. (((a + b) % U64) + (d - a)) % U64 = ((a + b) + (d - a)) % U64
          BY ONLY <3>4, <5>2, ModMinus
        <5>4. (b + d) % U64 \in Int
          BY <3>4, <5>2, ModTwice
        <5> QED
          BY <4>8, <5>1, <5>2, <5>3, <5>4
      <4> QED
        BY <4>9, <4>10
    <3>6. time_spent' \in [HwIds -> Int]
      <4>1. time_spent' = [hw \in HwIds |-> time_spent'[hw]]
        BY <3>3
      <4> QED
        BY <3>5, <4>1
    <3> QED
      BY <3>5, <3>6 DEF TimeKept, TimeOf
  <2> QED
    BY <2>1, <2>2
<1> QED
  BY <1>1, <1>2

\* Every context is freed when a sampling starts.
LEMMA AllFreed ==
    ASSUME IInv
    PROVE  /\ Timeline \in Seq(Samples)
           /\ \A hw \in HwIds : hw_contexts[hw] = None \/ hw \in Freed(Timeline)
<1>1. Timeline \in Seq(Samples)
  <2>1. timelines \in Seq(Samples) /\ current_timeline_samples \in Samples \cup {None}
    BY TimelineType DEF IInv
  <2> QED
    BY <2>1, OwnedOptional, Zenon DEF Timeline
<1>2. ASSUME NEW hw \in HwIds, hw_contexts[hw] # None
      PROVE  hw \in Freed(Timeline)
  <2>1. hw_contexts[hw].n_samples = Owned(Timeline, hw)
    BY <1>2 DEF IInv, ContextsCounted
  <2>2. hw_contexts[hw].n_samples \in Nat \ {0}
    BY <1>2 DEF IInv, Types, Contexts
  <2> QED
    BY <1>2, <2>1, <2>2 DEF Freed
<1> QED
  BY <1>1, <1>2

\* Every step keeps the time of contexts.
LEMMA TimeInductive == IInv /\ IInv' /\ TimeKept /\ [Next]_vars => TimeKept'
<1> SUFFICES ASSUME IInv, IInv', TimeKept, [Next]_vars
             PROVE  TimeKept'
  OBVIOUS
<1> USE DEF lastVars, contextVars, sampleVars, hardware, history
<1>1. ASSUME UNCHANGED <<timelines, time_spent>>
      PROVE  TimeKept'
  BY <1>1 DEF TimeKept, TimeOf
<1>2. CASE gputop_client_context_start_sampling
  <2>1. timelines' = <<>> /\ time_spent' = hw_contexts_add_time(Timeline, NoTime)
    BY <1>2 DEF gputop_client_context_start_sampling, i915_perf_empty_samples, Timeline
  <2>2. time_spent' = [hw \in HwIds |-> 0]
    BY <2>1, AllFreed DEF hw_contexts_add_time
  <2>3. \A hw \in HwIds : TimeOf(timelines', hw) = 0
    BY <2>1, SumsOfNothing
  <2>4. 0 % U64 = 0
    <3>1. U64 \in Nat \ {0} /\ 0 \in 0..U64 - 1
      BY OaAssumption
    <3> QED
      BY <3>1, ModSmall
  <2> QED
    BY <2>2, <2>3, <2>4 DEF TimeKept, TimeOf
<1>3. CASE accumulate_timeline
  BY <1>3, TimelineTime
<1>4. CASE \/ gputop_client_context_stop_sampling \/ handle_i915_perf_data \/ record_sample
           \/ record_buffer_lost \/ chunk_done \/ put_i915_perf_chunk
  <2>1. UNCHANGED <<timelines, time_spent>>
    BY <1>4 DEF gputop_client_context_stop_sampling, handle_i915_perf_data, record_sample,
                record_buffer_lost, chunk_done, put_i915_perf_chunk
  <2> QED
    BY <1>1, <2>1
<1>5. CASE \/ begin_graph \/ begin_timeline \/ accumulate_context \/ accumulate_graph
           \/ finish_record
  <2>1. UNCHANGED <<timelines, time_spent>>
    BY <1>5 DEF begin_graph, begin_timeline, accumulate_context, accumulate_graph, finish_record
  <2> QED
    BY <1>1, <2>1
<1>6. CASE UNCHANGED vars
  <2>1. UNCHANGED <<timelines, time_spent>>
    BY <1>6 DEF vars
  <2> QED
    BY <1>1, <2>1
<1> QED
  BY <1>2, <1>3, <1>4, <1>5, <1>6, Zenon DEF Next

\* The time shown for a context is that of the samples that are shown for it: what
\* is added with a sample is taken back with it, in whatever order samples are
\* recorded and given up, contexts freed and samplings started, and although the
\* sums are of 64 bits.
THEOREM TimeShown == Spec => []TimeSpentIsShown
<1>1. Init => TimeKept
  <2> SUFFICES ASSUME Init
               PROVE  TimeKept
    OBVIOUS
  <2>1. timelines = <<>> /\ time_spent = [hw \in HwIds |-> 0]
    BY DEF Init, NoTime
  <2>2. \A hw \in HwIds : TimeOf(timelines, hw) = 0
    BY <2>1, SumsOfNothing
  <2>3. 0 % U64 = 0
    <3>1. U64 \in Nat \ {0} /\ 0 \in 0..U64 - 1
      BY OaAssumption
    <3> QED
      BY <3>1, ModSmall
  <2> QED
    BY <2>1, <2>2, <2>3 DEF TimeKept
<1>2. TimeKept => TimeSpentIsShown
  BY DEF TimeKept, TimeSpentIsShown
<1> QED
  BY <1>1, <1>2, TimeInductive, Inductive, PTL DEF Spec

-----------------------------------------------------------------------------
(***************************************************************************)
(* The window of the timeline.                                             *)
(***************************************************************************)

\* Steps that leave the samples of the timeline alone.
LEMMA WindowedKept ==
    ASSUME Windowed, UNCHANGED <<cpu_timestamps, timelines, current_timeline_samples>>,
           now \in Int, now' \in Int, now <= now', last' = None => last = None,
           Ended \in Int, Ended' \in Int, Ended <= Ended', Types
    PROVE  Windowed'
<1>1. last' = None => timelines' = <<>>
  BY DEF Windowed
<1>2. cpu_timestamps' /\ now' < U64 => cpu_timestamps /\ now < U64
  <2>1. U64 \in Int
    BY OaAssumption
  <2> QED
    BY <2>1
<1>3. ASSUME InOrder
      PROVE  InOrder'
  <2>1. \A i \in 1..Len(timelines) : timelines[i].timestamp_end \in Int
    <3>1. \A i \in 1..Len(timelines) : timelines[i] \in Samples
      BY TimelineType, ElementOfSeq
    <3> QED
      BY <3>1 DEF Samples
  <2>2. current_timeline_samples # None => current_timeline_samples.timestamp_start \in Int
    <3>1. current_timeline_samples # None => current_timeline_samples \in Samples
      BY TimelineType
    <3> QED
      BY <3>1 DEF Samples
  <2> DEFINE a == Ended
             b == Ended'
  <2>3. a \in Int /\ b \in Int /\ a <= b
    OBVIOUS
  <2>4. \A i \in 1..Len(timelines) : timelines[i].timestamp_end <= a
    BY <1>3 DEF InOrder
  <2>5. current_timeline_samples # None => current_timeline_samples.timestamp_start <= a
    BY <1>3 DEF InOrder
  <2> HIDE DEF a, b
  <2>6. \A i \in 1..Len(timelines) : timelines[i].timestamp_end <= b
    BY <2>1, <2>3, <2>4
  <2>7. current_timeline_samples # None => current_timeline_samples.timestamp_start <= b
    BY <2>2, <2>3, <2>5
  <2> QED
    BY <1>3, <2>6, <2>7 DEF InOrder, b
<1> QED
  BY <1>1, <1>2, <1>3 DEF Windowed

\* Samples have ended by the time of the last report.
LEMMA EndedType ==
    ASSUME IInv, Clocked
    PROVE  Ended \in Int /\ 0 <= Ended /\ now \in Int
<1>1. now \in Nat /\ (pc \in InReport => report.at = now) /\ (last # None => last.at \in Nat)
  BY DEF Clocked
<1> QED
  BY <1>1 DEF Ended, InReport

\* A sample that is recorded ends last, and what remains is within its window.
LEMMA TimelineWindowed ==
    ASSUME IInv, Clocked, Clocked', Windowed, accumulate_timeline
    PROVE  Windowed'
<1>1. pc = "accumulate" /\ pc' \in {"context", "global"}
      /\ UNCHANGED <<cpu_timestamps, report, last, last_oa_timestamp, now>>
  BY DEF accumulate_timeline, lastVars, hardware
<1>2. last # None
  BY <1>1 DEF IInv, Phases
<1>3. /\ Ended = last.at /\ Ended' = report.at /\ report.at = now
      /\ last.at \in Nat /\ now \in Nat /\ last.at <= now
  <2>1. Ended = last.at /\ Ended' = report.at
    BY <1>1, <1>2 DEF Ended
  <2>2. last.at \in Nat /\ now \in Nat /\ report.at = now /\ now - last.at \in Steps
    BY <1>1, <1>2 DEF Clocked, InReport
  <2>3. \A d \in Steps : d \in Int /\ d >= 1
    BY OaAssumption
  <2> QED
    BY <2>1, <2>2, <2>3
<1>4. Types
  BY DEF IInv
<1>5. CASE current_timeline_samples = None
  <2>1. UNCHANGED <<timelines, current_timeline_samples>>
    BY <1>5 DEF accumulate_timeline
  <2> QED
    BY <1>1, <1>3, <1>4, <2>1, WindowedKept
<1>6. CASE current_timeline_samples # None /\ ~Recording
  <2>1. UNCHANGED timelines /\ current_timeline_samples' = Going
    BY <1>6, Zenon DEF accumulate_timeline, Recording, Going
  <2>2. Going.timestamp_start = current_timeline_samples.timestamp_start
    <3>1. current_timeline_samples \in Samples /\ last \in Reports /\ report \in Reports
      BY <1>2, <1>6, TimelineType DEF IInv, Types
    <3> QED
      BY <3>1, AccumulatedFields, Zenon DEF Going
  <2> DEFINE g == Going
             c == current_timeline_samples.timestamp_start
  <2>3. current_timeline_samples' = g /\ g.timestamp_start = c
    BY <2>1, <2>2
  <2> HIDE DEF g
  <2>4. ASSUME InOrder
        PROVE  InOrder'
    <3>1. c \in Int
      BY <1>6, TimelineType DEF IInv, Samples
    <3>2. \A i \in 1..Len(timelines) : timelines[i].timestamp_end \in Int
      <4>1. \A i \in 1..Len(timelines) : timelines[i] \in Samples
        BY TimelineType, ElementOfSeq DEF IInv
      <4> QED
        BY <4>1 DEF Samples
    <3>3. \A i \in 1..Len(timelines) : timelines[i].timestamp_end <= Ended'
      BY <1>3, <2>4, <3>2 DEF InOrder
    <3>4. 0 <= c /\ c <= Ended' /\ \A i \in 1..Len(timelines) : timelines[i].timestamp_end <= c
      <4>1. 0 <= c /\ c <= Ended /\ \A i \in 1..Len(timelines) : timelines[i].timestamp_end <= c
        BY <1>6, <2>4 DEF InOrder
      <4> HIDE DEF c
      <4> QED
        BY <1>3, <3>1, <4>1
    <3> QED
      BY <2>1, <2>3, <2>4, <3>3, <3>4 DEF InOrder
  <2> QED
    BY <1>1, <1>2, <2>1, <2>4 DEF Windowed
<1>7. CASE Recording
  <2> DEFINE t == report.at
             n == Excess(t)
             L == Len(timelines)
             y == Rest
             e == Done
             q == Append(y, e)
  <2>1. SUFFICES ASSUME cpu_timestamps, now < U64, InOrder
                 PROVE  InOrder'
    BY <1>1, <1>2 DEF Windowed
  <2>2. i915_perf_timestamp(report) = t
    BY <2>1 DEF i915_perf_timestamp
  <2>3. /\ timelines' = q /\ current_timeline_samples' = None
        /\ y \in Seq(Samples) /\ e \in Samples
        /\ e.timestamp_start = current_timeline_samples.timestamp_start
        /\ e.timestamp_end = t
    <3>1. current_timeline_samples \in Samples /\ last \in Reports /\ report \in Reports
      BY <1>2, <1>7, TimelineType DEF IInv, Types, Recording
    <3>2. Going.timestamp_start = current_timeline_samples.timestamp_start
      BY <3>1, AccumulatedFields, Zenon DEF Going
    <3>3. /\ timelines' = q /\ current_timeline_samples' = None
          /\ y \in Seq(Samples) /\ e \in Samples
          /\ e.timestamp_start = Going.timestamp_start
          /\ e.timestamp_end = i915_perf_timestamp(report)
      BY <1>7, Recorded, Zenon
    <3> QED
      BY <2>2, <3>2, <3>3
  <2>4. /\ n \in 0..L /\ L \in Nat
        /\ n < L => ~(Minus64(t, timelines[n + 1].timestamp_start) > Window)
    BY ExcessRange, TimelineType, LenProperties DEF IInv
  <2>5. Len(y) = L - n /\ \A i \in 1..L - n : y[i] = timelines[n + i]
    <3>1. y = SubSeq(timelines, n + 1, L)
      BY <2>2 DEF Rest
    <3>2. timelines \in Seq(Samples)
      BY TimelineType DEF IInv
    <3> HIDE DEF n
    <3> QED
      BY <2>4, <3>1, <3>2, Cut
  <2> HIDE DEF n, y, e
  <2> DEFINE m == (L - n) + 1
  <2>6. Len(q) = m /\ q[m] = e /\ \A i \in 1..L - n : q[i] = timelines[n + i]
    <3>1. Len(q) = Len(y) + 1 /\ q[Len(y) + 1] = e /\ \A i \in 1..Len(y) : q[i] = y[i]
      BY <2>3, AppendProperties
    <3> HIDE DEF q
    <3> QED
      BY <2>4, <2>5, <3>1
  <2> HIDE DEF q
  <2> DEFINE S(i) == timelines[i].timestamp_start
             E(i) == timelines[i].timestamp_end
             c == current_timeline_samples.timestamp_start
  <2>7. /\ \A i \in 1..L : S(i) \in Int /\ E(i) \in Int
        /\ c \in Int /\ t \in Int /\ Window \in Int
    <3>1. \A i \in 1..L : timelines[i] \in Samples
      BY TimelineType, ElementOfSeq DEF IInv
    <3>2. current_timeline_samples \in Samples
      BY <1>7, TimelineType DEF IInv, Recording
    <3>3. \A i \in 1..L : S(i) \in Int /\ E(i) \in Int
      BY <3>1 DEF Samples
    <3>4. c \in Int
      BY <3>2 DEF Samples
    <3>5. t \in Int /\ Window \in Int
      BY <1>3, OaAssumption
    <3> QED
      BY <3>3, <3>4, <3>5
  <2>8. /\ \A i \in 1..L : 0 <= S(i) /\ S(i) <= E(i) /\ E(i) <= last.at /\ E(i) <= c
        /\ \A i, j \in 1..L : i < j => E(i) <= S(j) /\ E(j) - S(i) <= Window
        /\ 0 <= c /\ c <= last.at
    BY <1>3, <1>7, <2>1 DEF InOrder, Recording
  <2>9. n < L => t - S(n + 1) <= Window
    <3> SUFFICES ASSUME n < L
                 PROVE  t - S(n + 1) <= Window
      OBVIOUS
    <3> DEFINE d == t - S(n + 1)
    <3>1. n + 1 \in 1..L
      BY <2>4
    <3>2. U64 \in Nat \ {0} /\ d \in 0..U64 - 1
      <4>1. U64 \in Nat \ {0}
        BY OaAssumption
      <4>2. 0 <= S(n + 1) /\ S(n + 1) <= last.at /\ S(n + 1) \in Int
        BY <1>3, <2>7, <2>8, <3>1
      <4>3. t < U64 /\ last.at <= t /\ t \in Int /\ last.at \in Int
        BY <1>3, <2>1
      <4> HIDE DEF S, t
      <4> QED
        BY <4>1, <4>2, <4>3
    <3>3. Minus64(t, S(n + 1)) = d % U64
      BY DEF Minus64
    <3> HIDE DEF d, S, t
    <3>4. d % U64 = d /\ d \in Int
      BY <3>2, ModSmall
    <3>5. ~(d > Window)
      BY <2>4, <3>3, <3>4 DEF S
    <3> QED
      BY <2>7, <3>4, <3>5 DEF d
  <2>10. \A i \in 1..L - n : n + i \in 1..L /\ t - S(n + i) <= Window
    <3> SUFFICES ASSUME NEW i \in 1..L - n
                 PROVE  n + i \in 1..L /\ t - S(n + i) <= Window
      OBVIOUS
    <3>1. n < L /\ n + i \in 1..L /\ n + 1 \in 1..L /\ (i = 1 \/ n + 1 < n + i)
      BY <2>4
    <3>2. S(n + 1) <= S(n + i)
      <4>1. CASE i = 1
        BY <2>7, <3>1, <4>1
      <4>2. CASE i # 1
        <5>1. E(n + 1) <= S(n + i) /\ S(n + 1) <= E(n + 1)
          BY <2>8, <3>1, <4>2
        <5> HIDE DEF S, E
        <5> QED
          BY <2>7, <3>1, <5>1
      <4> QED
        BY <4>1, <4>2
    <3> HIDE DEF S, t
    <3> QED
      BY <2>7, <2>9, <3>1, <3>2
  <2>11. ASSUME NEW i \in 1..m
         PROVE  /\ i = m => q[i].timestamp_start = c /\ q[i].timestamp_end = t
                /\ i # m => /\ i \in 1..L - n /\ n + i \in 1..L
                            /\ q[i].timestamp_start = S(n + i)
                            /\ q[i].timestamp_end = E(n + i)
    <3>1. CASE i = m
      BY <2>3, <2>6, <3>1
    <3>2. CASE i # m
      <4>1. i \in 1..L - n /\ n + i \in 1..L
        BY ONLY <2>4, <3>2, i \in 1..m DEF m
      <4>2. q[i] = timelines[n + i]
        BY <2>6, <4>1
      <4> QED
        BY <3>2, <4>1, <4>2
    <3> QED
      BY <3>1, <3>2
  <2> HIDE DEF S, E, c, t
  <2>12. \A i \in 1..m : /\ 0 <= q[i].timestamp_start
                         /\ q[i].timestamp_start <= q[i].timestamp_end
                         /\ q[i].timestamp_end <= t
    <3> SUFFICES ASSUME NEW i \in 1..m
                 PROVE  /\ 0 <= q[i].timestamp_start
                        /\ q[i].timestamp_start <= q[i].timestamp_end
                        /\ q[i].timestamp_end <= t
      OBVIOUS
    <3>1. last.at <= t /\ last.at \in Int
      BY <1>3 DEF t
    <3>2. CASE i = m
      BY <2>7, <2>8, <2>11, <3>1, <3>2
    <3>3. CASE i # m
      BY <2>7, <2>8, <2>11, <3>1, <3>3
    <3> QED
      BY <3>2, <3>3
  <2>13. \A i, j \in 1..m : i < j =>
            /\ q[i].timestamp_end <= q[j].timestamp_start
            /\ q[j].timestamp_end - q[i].timestamp_start <= Window
    <3> SUFFICES ASSUME NEW i \in 1..m, NEW j \in 1..m, i < j
                 PROVE  /\ q[i].timestamp_end <= q[j].timestamp_start
                        /\ q[j].timestamp_end - q[i].timestamp_start <= Window
      OBVIOUS
    <3>1. i # m /\ m \in Int /\ (j # m => n + i < n + j)
      BY <2>4
    <3>2. CASE j = m
      BY <2>8, <2>10, <2>11, <3>1, <3>2
    <3>3. CASE j # m
      <4>1. n + i \in 1..L /\ n + j \in 1..L /\ n + i < n + j
        BY <2>11, <3>1, <3>3
      <4>2. E(n + i) <= S(n + j) /\ E(n + j) - S(n + i) <= Window
        BY <2>8, <4>1
      <4> QED
        BY <2>11, <3>1, <3>3, <4>2
    <3> QED
      BY <3>2, <3>3
  <2>14. Ended' = t
    BY <1>3 DEF t
  <2> QED
    BY <2>3, <2>6, <2>12, <2>13, <2>14 DEF InOrder
<1> QED
  BY <1>5, <1>6, <1>7

\* The window is kept.
LEMMA WindowedInductive ==
    ASSUME IInv, IInv', Clocked, Clocked', Windowed, [Next]_vars
    PROVE  Windowed'
<1>1. Types
  BY DEF IInv
<1>2. Ended \in Int /\ 0 <= Ended /\ now \in Int
  BY EndedType
<1>3. CASE gputop_client_context_start_sampling
  <2>1. timelines' = <<>> /\ current_timeline_samples' = None
    BY <1>3 DEF gputop_client_context_start_sampling, i915_perf_empty_samples
  <2>2. InOrder'
    BY <2>1 DEF InOrder
  <2> QED
    BY <2>1, <2>2 DEF Windowed
<1>4. CASE begin_timeline
  <2>1. /\ UNCHANGED <<cpu_timestamps, timelines, last, now>>
        /\ pc = "timeline" /\ pc' \in {"finish", "accumulate"} /\ (pc' = "finish" => last = None)
    BY <1>4 DEF begin_timeline, lastVars, hardware
  <2>2. Ended' = IF last = None THEN report.at ELSE Ended
    <3>1. UNCHANGED report
      BY <1>4 DEF begin_timeline
    <3>2. last # None => pc' = "accumulate"
      BY <1>4 DEF begin_timeline
    <3>3. last = None => pc' = "finish"
      BY <1>4 DEF begin_timeline
    <3> QED
      BY <2>1, <3>1, <3>2, <3>3 DEF Ended
  <2>3. CASE last # None /\ last.hw # INVALID /\ current_timeline_samples = None
    <3>1. current_timeline_samples' = Sample(last, last.hw, i915_perf_timestamp(last))
      BY <1>4, <2>3 DEF begin_timeline
    <3>2. ASSUME cpu_timestamps, InOrder
          PROVE  InOrder'
      <4>1. current_timeline_samples'.timestamp_start = last.at
        BY <3>1, <3>2 DEF Sample, i915_perf_timestamp
      <4>2. Ended = last.at /\ Ended' = last.at
        BY <2>1, <2>2, <2>3 DEF Ended
      <4> QED
        BY <1>2, <2>1, <3>2, <4>1, <4>2 DEF InOrder
    <3> QED
      BY <2>1, <2>3, <3>2 DEF Windowed
  <2>4. CASE ~(last # None /\ last.hw # INVALID /\ current_timeline_samples = None)
    <3>1. UNCHANGED current_timeline_samples
      BY <1>4, <2>4 DEF begin_timeline
    <3>2. Ended' \in Int /\ Ended <= Ended'
      <4>1. CASE last = None
        <5>1. Ended = 0 /\ Ended' = report.at
          BY <2>1, <2>2, <4>1 DEF Ended
        <5>2. report.at = now /\ now \in Nat
          BY <2>1 DEF Clocked, InReport
        <5> QED
          BY <5>1, <5>2
      <4>2. CASE last # None
        <5>1. Ended' = Ended
          BY <2>2, <4>2
        <5> QED
          BY <1>2, <5>1
      <4> QED
        BY <4>1, <4>2
    <3>3. now' \in Int /\ now <= now' /\ (last' = None => last = None)
      BY <1>2, <2>1
    <3> QED
      BY <1>1, <1>2, <2>1, <3>1, <3>2, <3>3, WindowedKept
  <2> QED
    BY <2>3, <2>4
<1>5. CASE accumulate_timeline
  BY <1>5, TimelineWindowed
<1>6. CASE finish_record
  <2>1. UNCHANGED <<cpu_timestamps, timelines, current_timeline_samples, now>>
    BY <1>6 DEF finish_record, sampleVars, hardware
  <2>2. pc = "finish" /\ pc' = "next" /\ last' = report
    BY <1>6 DEF finish_record
  <2>3. last' # None
    BY <1>1, <2>2, OaAssumption DEF Types
  <2>4. Ended' = Ended
    BY <2>2, <2>3 DEF Ended
  <2>5. Ended' \in Int /\ Ended <= Ended' /\ now' \in Int /\ now <= now'
    BY <1>2, <2>1, <2>4
  <2> QED
    BY <1>1, <1>2, <2>1, <2>3, <2>5, WindowedKept
<1>7. CASE record_sample
  <2>1. /\ UNCHANGED <<cpu_timestamps, timelines, current_timeline_samples, last>>
        /\ pc = "next" /\ pc' = "graph"
    BY <1>7 DEF record_sample, sampleVars, lastVars
  <2>2. now' \in Int /\ now <= now'
    <3>1. \A d \in Steps : d \in Int /\ d >= 1
      BY OaAssumption
    <3>2. PICK d \in Steps : now' = now + d
      BY <1>7 DEF record_sample
    <3> QED
      BY <1>2, <3>1, <3>2
  <2>3. Ended' = Ended
    BY <2>1 DEF Ended
  <2>4. Ended' \in Int /\ Ended <= Ended' /\ (last' = None => last = None)
    BY <1>2, <2>1, <2>3
  <2> QED
    BY <1>1, <1>2, <2>1, <2>2, <2>4, WindowedKept
<1>8. ASSUME UNCHANGED <<cpu_timestamps, timelines, current_timeline_samples, last, now>>,
             Ended' = Ended
      PROVE  Windowed'
  <2>1. Ended' \in Int /\ Ended <= Ended' /\ now' \in Int /\ now <= now'
        /\ (last' = None => last = None)
    BY <1>2, <1>8
  <2> QED
    BY <1>1, <1>2, <1>8, <2>1, WindowedKept
<1>9. ASSUME \/ gputop_client_context_stop_sampling \/ handle_i915_perf_data
             \/ record_buffer_lost \/ chunk_done \/ put_i915_perf_chunk \/ begin_graph
             \/ accumulate_context \/ accumulate_graph \/ UNCHANGED vars
      PROVE  Windowed'
  <2>1. UNCHANGED <<cpu_timestamps, timelines, current_timeline_samples, last, now, report>>
    BY <1>9 DEF gputop_client_context_stop_sampling, handle_i915_perf_data,
       record_buffer_lost, chunk_done, put_i915_perf_chunk, begin_graph, accumulate_context,
       accumulate_graph, vars, sampleVars, lastVars, hardware
  <2>2. pc \in {"context", "global", "finish"} <=> pc' \in {"context", "global", "finish"}
    BY <1>9 DEF gputop_client_context_stop_sampling, handle_i915_perf_data,
       record_buffer_lost, chunk_done, put_i915_perf_chunk, begin_graph, accumulate_context,
       accumulate_graph, vars
  <2>3. Ended' = Ended
    BY <2>1, <2>2 DEF Ended
  <2> QED
    BY <1>8, <2>1, <2>3
<1> QED
  BY <1>3, <1>4, <1>5, <1>6, <1>7, <1>9 DEF Next

\* With the CPU's timestamps, and as long as the clock of 64 bits has not wrapped,
\* the samples that i915_perf_record_for_hw_id() keeps do not overlap, are in the
\* order they were recorded in, and all but the last are within the visible time.
THEOREM InWindow == Spec => [](now < U64 => TimelineInWindow)
<1>1. Init => Windowed
  <2> SUFFICES ASSUME Init
               PROVE  Windowed
    OBVIOUS
  <2>1. timelines = <<>> /\ current_timeline_samples = None
    BY DEF Init
  <2>2. InOrder
    BY <2>1 DEF InOrder
  <2> QED
    BY <2>1, <2>2 DEF Windowed
<1>2. IInv /\ Windowed => (now < U64 => TimelineInWindow)
  <2> SUFFICES ASSUME IInv, Windowed, now < U64, cpu_timestamps
               PROVE  TimelineInWindow
    BY DEF TimelineInWindow
  <2>1. DOMAIN timelines = 1..Len(timelines)
    BY TimelineType, LenProperties DEF IInv
  <2>2. InOrder
    BY DEF Windowed
  <2> QED
    BY <2>1, <2>2 DEF InOrder, TimelineInWindow
<1> QED
  BY <1>1, <1>2, WindowedInductive, Inductive, Accounts, PTL DEF Spec


-----------------------------------------------------------------------------
(***************************************************************************)
(* The references on chunks.                                               *)
(***************************************************************************)

\* The references that a sample holds on a chunk; a sample that may be missing.
pointsInto(c) ==
    [s \in Samples |-> (IF s.start = c THEN 1 ELSE 0) + (IF s.end = c THEN 1 ELSE 0)]

PointsOf(c, s) == IF s = None THEN 0 ELSE pointsInto(c)[s]

\* The references that a context holds, and all of them together.
HeldBy(c, x) ==
    IF x = None THEN 0
    ELSE Total(pointsInto(c), x.graphs) + PointsOf(c, x.current_graph_samples)

Held(c, ctxs) == [hw \in HwIds |-> HeldBy(c, ctxs[hw])]

\* What points into a chunk: the timeline, the graphs, the contexts, the last
\* report and the handler.
OfSamples(c, q, s) == Total(pointsInto(c), q) + PointsOf(c, s)

OfContexts(c, ctxs) == SumFunctionOnSet(Held(c, ctxs), HwIds)

OfLast(c, r) == IF r # None /\ r.chunk = c THEN 1 ELSE 0

OfHandler(c, k) == IF k = c THEN 1 ELSE 0

Uses(c, tl, ct, gs, cg, ctxs, r, k) ==
    OfSamples(c, tl, ct) + OfSamples(c, gs, cg) + OfContexts(c, ctxs) + OfLast(c, r)
      + OfHandler(c, k)

Exact ==
    /\ refcount \in [Chunks -> Int]
    /\ \A c \in Chunks : refcount[c] =
          Uses(c, timelines, current_timeline_samples, graphs, current_graph_samples,
               hw_contexts, last, chunk)

\* Samples in progress have no end yet; reports are in the chunk that is read, or
\* in an earlier one.
NoEnd(s) == s # None => s.end = None

Pointers ==
    /\ (chunk = None) <=> (pc = "idle")
    /\ pc \in InReport => report.chunk = chunk
    /\ last # None => last.chunk \in Chunks
    /\ NoEnd(current_timeline_samples) /\ NoEnd(current_graph_samples)
    /\ \A hw \in HwIds : hw_contexts[hw] # None => NoEnd(hw_contexts[hw].current_graph_samples)

\* The same, after a step.
LEMMA ExactNext ==
    ASSUME refcount' \in [Chunks -> Int],
           \A c \in Chunks : refcount'[c] =
              Uses(c, timelines', current_timeline_samples', graphs', current_graph_samples',
                   hw_contexts', last', chunk')
    PROVE  Exact'
BY DEF Exact, Uses, OfSamples, OfContexts, OfLast, OfHandler, Held, HeldBy, PointsOf, Total,
       Values, pointsInto

\* References are numbers.
LEMMA PointsType ==
    /\ \A c : pointsInto(c) \in [Samples -> Int]
    /\ \A c, s : s \in Samples \cup {None} => PointsOf(c, s) \in Int
<1>1. \A c : pointsInto(c) \in [Samples -> Int]
  BY DEF pointsInto
<1> QED
  BY <1>1 DEF PointsOf

\* Those of a sequence.
LEMMA ReferencesTotal ==
    ASSUME NEW q \in Seq(Samples), NEW c
    PROVE  /\ References(q, c) = Total(pointsInto(c), q)
           /\ Total(pointsInto(c), q) \in Int
<1> DEFINE v == startsIn(c)
           w == endsIn(c)
           u == pointsInto(c)
           f == Values(v, q)
           g == Values(w, q)
           h == Values(u, q)
<1>1. v \in [Samples -> Int] /\ w \in [Samples -> Int] /\ u \in [Samples -> Int]
  BY Summands, PointsType
<1>2. \A s \in Samples : u[s] = v[s] + w[s]
  BY DEF startsIn, endsIn, pointsInto
<1>3. References(q, c) = Total(v, q) + Total(w, q)
  BY ReferencesAre
<1> HIDE DEF v, w, u
<1>4. /\ IsFiniteSet(1..Len(q))
      /\ \A i \in 1..Len(q) : q[i] \in Samples /\ f[i] = v[q[i]] /\ v[q[i]] \in Int
      /\ Total(v, q) = SumFunctionOnSet(f, 1..Len(q))
  BY <1>1, TotalIs, Zenon
<1>5. /\ \A i \in 1..Len(q) : q[i] \in Samples /\ g[i] = w[q[i]] /\ w[q[i]] \in Int
      /\ Total(w, q) = SumFunctionOnSet(g, 1..Len(q))
  BY <1>1, TotalIs, Zenon
<1>6. /\ \A i \in 1..Len(q) : q[i] \in Samples /\ h[i] = u[q[i]] /\ u[q[i]] \in Int
      /\ Total(u, q) = SumFunctionOnSet(h, 1..Len(q)) /\ Total(u, q) \in Int
  BY <1>1, TotalIs, Zenon
<1> HIDE DEF f, g, h
<1>7. \A i \in 1..Len(q) : f[i] \in Int /\ g[i] \in Int /\ h[i] = f[i] + g[i]
  BY <1>2, <1>4, <1>5, <1>6
<1>8. IsFiniteSet(1..Len(q))
  BY <1>4
<1>9. SumFunctionOnSet(h, 1..Len(q))
         = SumFunctionOnSet(f, 1..Len(q)) + SumFunctionOnSet(g, 1..Len(q))
  BY ONLY <1>7, <1>8, SumPlus
<1> QED
  BY <1>3, <1>4, <1>5, <1>6, <1>9 DEF u

\* Those of a sequence and a sample in progress.
LEMMA OfSamplesIs ==
    ASSUME NEW q \in Seq(Samples), NEW s \in Samples \cup {None}, NEW c
    PROVE  /\ References(q \o Optional(s), c) = OfSamples(c, q, s)
           /\ OfSamples(c, q, s) \in Int
<1> DEFINE v == pointsInto(c)
<1>1. v \in [Samples -> Int] /\ PointsOf(c, s) \in Int
  BY PointsType
<1>2. PointsOf(c, s) = IF s = None THEN 0 ELSE v[s]
  BY DEF PointsOf
<1> HIDE DEF v
<1>3. /\ q \o Optional(s) \in Seq(Samples)
      /\ Total(v, q \o Optional(s)) = Total(v, q) + (IF s = None THEN 0 ELSE v[s])
  BY <1>1, TotalOptional, Zenon
<1>4. /\ References(q \o Optional(s), c) = Total(v, q \o Optional(s))
  BY <1>3, ReferencesTotal, Zenon DEF v
<1>5. Total(v, q) \in Int
  BY ReferencesTotal, Zenon DEF v
<1> QED
  BY <1>1, <1>2, <1>3, <1>4, <1>5 DEF OfSamples, v

\* Those of a context.
LEMMA HeldByIs ==
    ASSUME NEW x \in Contexts \cup {None}, NEW c
    PROVE  /\ HeldBy(c, x) \in Int
           /\ x # None => References(ContextSamples(x), c) = HeldBy(c, x)
<1>1. CASE x = None
  BY <1>1 DEF HeldBy
<1>2. CASE x # None
  <2>1. x.graphs \in Seq(Samples) /\ x.current_graph_samples \in Samples \cup {None}
    BY <1>2 DEF Contexts
  <2>2. /\ References(x.graphs \o Optional(x.current_graph_samples), c)
             = OfSamples(c, x.graphs, x.current_graph_samples)
        /\ OfSamples(c, x.graphs, x.current_graph_samples) \in Int
    BY <2>1, OfSamplesIs, Zenon
  <2> QED
    BY <1>2, <2>2 DEF HeldBy, OfSamples, ContextSamples
<1> QED
  BY <1>1, <1>2

\* Those of all contexts.
LEMMA OfContextsIs ==
    ASSUME NEW ctxs \in [HwIds -> Contexts \cup {None}], NEW c
    PROVE  /\ \A hw \in HwIds : Held(c, ctxs)[hw] \in Int
           /\ OfContexts(c, ctxs) \in Int
           /\ SumFunction([hw \in {h \in HwIds : ctxs[h] # None} |->
                             References(ContextSamples(ctxs[hw]), c)]) = OfContexts(c, ctxs)
<1> DEFINE f == [hw \in {h \in HwIds : ctxs[h] # None} |-> References(ContextSamples(ctxs[hw]), c)]
           g == Held(c, ctxs)
<1>1. \A hw \in HwIds : ctxs[hw] \in Contexts \cup {None}
  OBVIOUS
<1>2. \A hw \in HwIds : g[hw] \in Int
  BY <1>1, HeldByIs DEF Held
<1>3. DOMAIN f \subseteq HwIds /\ IsFiniteSet(HwIds) /\ HwIds \in SUBSET HwIds
  BY OaAssumption
<1>4. \A hw \in DOMAIN f : g[hw] = f[hw]
  BY <1>1, HeldByIs DEF Held
<1>5. \A hw \in HwIds : hw \notin DOMAIN f => g[hw] = 0
  BY DEF Held, HeldBy
<1> HIDE DEF f, g
<1>6. SumFunction(f) = SumFunctionOnSet(g, HwIds)
  BY ONLY <1>2, <1>3, <1>4, <1>5, SumExtend
<1>7. SumFunctionOnSet(g, HwIds) \in Int
  BY <1>2, <1>3, SumPart, Zenon
<1> QED
  BY <1>2, <1>6, <1>7 DEF OfContexts, f, g

\* The counts are those of the property.
LEMMA ExactCounts ==
    ASSUME IInv, graphs \in Seq(Samples)
    PROVE  Exact => CountsAreExact
<1>1. /\ timelines \in Seq(Samples) /\ current_timeline_samples \in Samples \cup {None}
      /\ current_graph_samples \in Samples \cup {None}
      /\ hw_contexts \in [HwIds -> Contexts \cup {None}]
  BY TimelineType DEF IInv, Types
<1>2. ASSUME NEW c \in Chunks
      PROVE  Uses(c, timelines, current_timeline_samples, graphs, current_graph_samples,
                  hw_contexts, last, chunk)
               = References(Timeline, c)
                 + References(graphs \o Optional(current_graph_samples), c)
                 + SumFunction([hw \in {h \in HwIds : hw_contexts[h] # None} |->
                                  References(ContextSamples(hw_contexts[hw]), c)])
                 + (IF last # None /\ last.chunk = c THEN 1 ELSE 0)
                 + (IF chunk = c THEN 1 ELSE 0)
  <2>1. References(Timeline, c) = OfSamples(c, timelines, current_timeline_samples)
    BY <1>1, OfSamplesIs, Zenon DEF Timeline
  <2>2. References(graphs \o Optional(current_graph_samples), c)
           = OfSamples(c, graphs, current_graph_samples)
    BY <1>1, OfSamplesIs, Zenon
  <2>3. SumFunction([hw \in {h \in HwIds : hw_contexts[h] # None} |->
                                  References(ContextSamples(hw_contexts[hw]), c)])
           = OfContexts(c, hw_contexts)
    BY <1>1, OfContextsIs, Zenon
  <2> QED
    BY <2>1, <2>2, <2>3, Zenon DEF Uses, OfLast, OfHandler
<1> QED
  BY <1>2, Zenon DEF Exact, CountsAreExact, IInv

\* The parts are numbers.
LEMMA UsesType ==
    ASSUME NEW c, NEW tl \in Seq(Samples), NEW ct \in Samples \cup {None},
           NEW gs \in Seq(Samples), NEW cg \in Samples \cup {None},
           NEW ctxs \in [HwIds -> Contexts \cup {None}], NEW r, NEW k
    PROVE  /\ OfSamples(c, tl, ct) \in Int /\ OfSamples(c, gs, cg) \in Int
           /\ OfContexts(c, ctxs) \in Int /\ OfLast(c, r) \in Int /\ OfHandler(c, k) \in Int
           /\ Uses(c, tl, ct, gs, cg, ctxs, r, k) \in Int
<1>1. OfSamples(c, tl, ct) \in Int /\ OfSamples(c, gs, cg) \in Int /\ OfContexts(c, ctxs) \in Int
  BY OfSamplesIs, OfContextsIs, Zenon
<1>2. OfLast(c, r) \in Int /\ OfHandler(c, k) \in Int
  BY DEF OfLast, OfHandler
<1> QED
  BY <1>1, <1>2 DEF Uses

\* The parts before a step.
LEMMA UsesNow ==
    ASSUME IInv, graphs \in Seq(Samples), Exact, NEW c \in Chunks
    PROVE  /\ c # None /\ refcount \in [Chunks -> Int]
           /\ OfSamples(c, timelines, current_timeline_samples) \in Int
           /\ OfSamples(c, graphs, current_graph_samples) \in Int
           /\ OfContexts(c, hw_contexts) \in Int
           /\ OfLast(c, last) \in Int /\ OfHandler(c, chunk) \in Int
           /\ refcount[c] = OfSamples(c, timelines, current_timeline_samples)
                 + OfSamples(c, graphs, current_graph_samples) + OfContexts(c, hw_contexts)
                 + OfLast(c, last) + OfHandler(c, chunk)
<1>1. c # None
  <2>1. None \notin Nat
    BY OaAssumption
  <2> QED
    BY <2>1 DEF Chunks
<1>2. /\ timelines \in Seq(Samples) /\ current_timeline_samples \in Samples \cup {None}
      /\ current_graph_samples \in Samples \cup {None}
      /\ hw_contexts \in [HwIds -> Contexts \cup {None}]
  BY TimelineType DEF IInv, Types
<1>3. /\ OfSamples(c, timelines, current_timeline_samples) \in Int
      /\ OfSamples(c, graphs, current_graph_samples) \in Int
      /\ OfContexts(c, hw_contexts) \in Int
      /\ OfLast(c, last) \in Int /\ OfHandler(c, chunk) \in Int
  BY <1>2, UsesType, Zenon
<1> QED
  BY <1>1, <1>3 DEF Exact, Uses

\* And after it.
LEMMA ExactStep ==
    ASSUME IInv', graphs' \in Seq(Samples), refcount' = [c \in Chunks |-> refcount'[c]],
           \A c \in Chunks : refcount'[c] =
              OfSamples(c, timelines', current_timeline_samples')
                 + OfSamples(c, graphs', current_graph_samples') + OfContexts(c, hw_contexts')
                 + OfLast(c, last') + OfHandler(c, chunk')
    PROVE  Exact'
<1>1. /\ timelines' \in Seq(Samples) /\ current_timeline_samples' \in Samples \cup {None}
      /\ current_graph_samples' \in Samples \cup {None}
      /\ hw_contexts' \in [HwIds -> Contexts \cup {None}]
  <2>1. Own \subseteq Samples
    BY DEF Own
  <2>2. timelines' \in Seq(Own) /\ current_timeline_samples' \in Own \cup {None}
    BY DEF IInv, Types
  <2>3. timelines' \in Seq(Samples)
    BY <2>1, <2>2, SeqMonotonic, Zenon
  <2> QED
    BY <2>1, <2>2, <2>3 DEF IInv, Types
<1>2. \A c \in Chunks : refcount'[c] =
         Uses(c, timelines', current_timeline_samples', graphs', current_graph_samples',
              hw_contexts', last', chunk')
  BY DEF Uses
<1>3. ASSUME NEW c \in Chunks
      PROVE  refcount'[c] \in Int
  <2>1. Uses(c, timelines', current_timeline_samples', graphs', current_graph_samples',
             hw_contexts', last', chunk') \in Int
    BY <1>1, UsesType, Zenon
  <2> QED
    BY <1>2, <2>1
<1>4. refcount' \in [Chunks -> Int]
  BY <1>3
<1> QED
  BY <1>2, <1>4, ExactNext

\* Steps that touch neither samples nor chunks.
LEMMA ExactKept ==
    ASSUME Pointers, Exact,
           UNCHANGED <<refcount, chunk, last, hw_contexts, timelines, current_timeline_samples,
                       graphs, current_graph_samples>>,
           pc = "idle" <=> pc' = "idle", pc' \in InReport => report'.chunk = chunk
    PROVE  Pointers' /\ Exact'
<1>1. Pointers'
  BY DEF Pointers, NoEnd
<1>2. Exact'
  BY ExactNext DEF Exact
<1> QED
  BY <1>1, <1>2

\* The handler holds a chunk while it reads it.
LEMMA HandlerExact ==
    ASSUME IInv, IInv', graphs \in Seq(Samples), Pointers, Exact,
           handle_i915_perf_data \/ put_i915_perf_chunk
    PROVE  Pointers' /\ Exact'
<1>1. /\ UNCHANGED <<report, last, hw_contexts, timelines, current_timeline_samples,
                     graphs, current_graph_samples>>
      /\ pc' \notin InReport
  BY DEF handle_i915_perf_data, put_i915_perf_chunk, InReport, lastVars, contextVars,
         sampleVars
<1>2. ASSUME (chunk' = None) <=> (pc' = "idle")
      PROVE  Pointers'
  BY <1>1, <1>2 DEF Pointers, NoEnd
<1>3. refcount \in [Chunks -> Int] /\ \A c \in Chunks : c # None
  <2>1. None \notin Nat
    BY OaAssumption
  <2> QED
    BY <2>1 DEF Exact, Chunks
<1>4. ASSUME refcount' = [c \in Chunks |-> refcount'[c]],
             \A c \in Chunks : refcount'[c] = (refcount[c] + OfHandler(c, chunk')) - OfHandler(c, chunk)
      PROVE  Exact'
  <2>1. ASSUME NEW c \in Chunks
        PROVE  refcount'[c] = OfSamples(c, timelines, current_timeline_samples)
                 + OfSamples(c, graphs, current_graph_samples) + OfContexts(c, hw_contexts)
                 + OfLast(c, last) + OfHandler(c, chunk')
    <3>1. OfHandler(c, chunk') \in Int
      BY DEF OfHandler
    <3> QED
      BY <1>4, <3>1, UsesNow
  <2> QED
    BY <1>1, <1>4, <2>1, ExactStep
<1>5. CASE handle_i915_perf_data
  <2>1. PICK k \in Chunks : refcount' = [refcount EXCEPT ![k] = 1] /\ chunk' = k /\ refcount[k] = 0
    BY <1>5 DEF handle_i915_perf_data
  <2>2. pc = "idle" /\ pc' = "next" /\ chunk = None
    BY <1>5 DEF handle_i915_perf_data, Pointers
  <2>3. \A c \in Chunks : refcount'[c] = (refcount[c] + OfHandler(c, chunk')) - OfHandler(c, chunk)
    BY <1>3, <2>1, <2>2 DEF OfHandler
  <2>4. refcount' = [c \in Chunks |-> refcount'[c]]
    BY <1>3, <2>1
  <2> QED
    BY <1>2, <1>3, <1>4, <2>1, <2>2, <2>3, <2>4
<1>6. CASE put_i915_perf_chunk
  <2>1. /\ pc = "put" /\ pc' = "idle" /\ chunk' = None
        /\ refcount' = [refcount EXCEPT ![chunk] = @ - 1]
    BY <1>6 DEF put_i915_perf_chunk
  <2>2. chunk \in Chunks
    BY <2>1 DEF Pointers, IInv, Types
  <2>3. \A c \in Chunks : refcount'[c] = (refcount[c] + OfHandler(c, chunk')) - OfHandler(c, chunk)
    BY <1>3, <2>1, <2>2 DEF OfHandler
  <2>4. refcount' = [c \in Chunks |-> refcount'[c]]
    BY <1>3, <2>1
  <2> QED
    BY <1>2, <1>4, <2>1, <2>3, <2>4
<1> QED
  BY <1>5, <1>6

\* The last report holds its chunk.
LEMMA FinishExact ==
    ASSUME IInv, IInv', graphs \in Seq(Samples), Pointers, Exact, finish_record
    PROVE  Pointers' /\ Exact'
<1>1. /\ UNCHANGED <<chunk, hw_contexts, timelines, current_timeline_samples,
                     graphs, current_graph_samples>>
      /\ pc = "finish" /\ pc' = "next" /\ last' = report
      /\ refcount' = [c \in Chunks |-> refcount[c]
            + (IF c = chunk THEN 1 ELSE 0)
            - (IF last # None /\ c = last.chunk THEN 1 ELSE 0)]
  BY DEF finish_record, contextVars, sampleVars
<1>2. chunk \in Chunks /\ report.chunk = chunk /\ report # None
  BY <1>1, NoneIsNothing DEF Pointers, InReport, IInv, Types
<1>3. Pointers'
  <2>1. (chunk' = None) <=> (pc' = "idle")
    BY <1>1, <1>2, NoneIsNothing DEF Pointers
  <2> QED
    BY <1>1, <1>2, <2>1 DEF Pointers, NoEnd, InReport
<1>4. ASSUME NEW c \in Chunks
      PROVE  refcount'[c] = OfSamples(c, timelines, current_timeline_samples)
               + OfSamples(c, graphs, current_graph_samples) + OfContexts(c, hw_contexts)
               + OfLast(c, last') + OfHandler(c, chunk)
  <2>1. /\ refcount'[c] = (refcount[c] + OfLast(c, last')) - OfLast(c, last)
        /\ OfLast(c, last') \in Int
    <3>1. refcount[c] \in Int
      BY DEF Exact
    <3> QED
      BY <1>1, <1>2, <3>1 DEF OfLast
  <2> QED
    BY <2>1, UsesNow
<1>5. refcount' = [c \in Chunks |-> refcount'[c]]
  BY <1>1
<1>6. Exact'
  BY <1>1, <1>4, <1>5, ExactStep
<1> QED
  BY <1>3, <1>6

\* The references of a sample.
LEMMA PointsAre ==
    ASSUME NEW s \in Samples, NEW c
    PROVE  /\ PointsOf(c, s) = (IF s.start = c THEN 1 ELSE 0) + (IF s.end = c THEN 1 ELSE 0)
           /\ s # None
<1>1. s # None
  BY NoneIsNothing
<1> QED
  BY <1>1 DEF PointsOf, pointsInto

\* Accumulating keeps the references of a sample.
LEMMA AccumulatedPoints ==
    ASSUME NEW s \in Samples, NEW r0 \in Reports, NEW r1 \in Reports
    PROVE  LET t == gputop_cc_oa_accumulate_reports(s, r0, r1) IN
           /\ t \in Samples /\ t # None
           /\ t.start = s.start /\ t.end = s.end
           /\ \A c : PointsOf(c, t) = PointsOf(c, s)
<1> DEFINE t == gputop_cc_oa_accumulate_reports(s, r0, r1)
<1>1. t \in Samples /\ t.start = s.start /\ t.end = s.end
  <2>1. t \in Samples
    BY Accumulated, Zenon
  <2>2. t.start = s.start /\ t.end = s.end
    BY AccumulatedFields, Zenon
  <2> QED
    BY <2>1, <2>2
<1> HIDE DEF t
<1>2. \A c : PointsOf(c, t) = PointsOf(c, s)
  BY <1>1, PointsAre
<1>3. t # None
  BY <1>1, NoneIsNothing, Zenon
<1> QED
  BY <1>1, <1>2, <1>3, Zenon DEF t

\* Contexts that hold what they held.
LEMMA ContextsSame ==
    ASSUME NEW ctxs \in [HwIds -> Contexts \cup {None}], NEW d \in [HwIds -> Contexts \cup {None}],
           NEW c, \A hw \in HwIds : HeldBy(c, d[hw]) = HeldBy(c, ctxs[hw])
    PROVE  OfContexts(c, d) = OfContexts(c, ctxs)
<1>1. Held(c, d) = Held(c, ctxs)
  BY DEF Held
<1> QED
  BY <1>1 DEF OfContexts

\* A context that changes.
LEMMA ContextChanges ==
    ASSUME NEW ctxs \in [HwIds -> Contexts \cup {None}], NEW d \in [HwIds -> Contexts \cup {None}],
           NEW c, NEW h \in HwIds, \A hw \in HwIds : hw # h => d[hw] = ctxs[hw]
    PROVE  OfContexts(c, d) = OfContexts(c, ctxs) + (HeldBy(c, d[h]) - HeldBy(c, ctxs[h]))
<1> DEFINE f == Held(c, ctxs)
           g == Held(c, d)
<1>1. \A hw \in HwIds : f[hw] = HeldBy(c, ctxs[hw]) /\ g[hw] = HeldBy(c, d[hw])
  BY DEF Held
<1>2. \A hw \in HwIds : f[hw] \in Int /\ g[hw] \in Int
  BY OfContextsIs, Zenon
<1>3. \A hw \in HwIds : hw # h => g[hw] = f[hw]
  BY <1>1
<1>4. IsFiniteSet(HwIds) /\ h \in HwIds
  BY OaAssumption
<1> HIDE DEF f, g
<1>5. SumFunctionOnSet(g, HwIds) = SumFunctionOnSet(f, HwIds) + (g[h] - f[h])
  BY ONLY <1>2, <1>3, <1>4, SumChange
<1> QED
  BY <1>1, <1>5 DEF OfContexts, f, g

\* A reference more for each of some contexts.
Gained(K, e) == [hw \in HwIds |-> IF hw \in K THEN e ELSE 0]

LEMMA AllGained ==
    ASSUME NEW K \in SUBSET HwIds, NEW e \in {0, 1}
    PROVE  SumFunctionOnSet(Gained(K, e), HwIds) = IF e = 1 THEN Cardinality(K) ELSE 0
<1> DEFINE f == Gained(K, e)
<1>1. \A hw \in HwIds : f[hw] = IF hw \in K THEN e ELSE 0
  BY DEF Gained
<1> HIDE DEF f
<1>2. IsFiniteSet(HwIds)
  BY OaAssumption
<1>3. CASE e = 0
  <2>1. \A hw \in HwIds : f[hw] = 0
    BY <1>1, <1>3
  <2>2. SumFunctionOnSet(f, HwIds) = 0
    BY ONLY <1>2, <2>1, SumZero
  <2> QED
    BY <1>3, <2>2 DEF f
<1>4. CASE e = 1
  <2>1. \A hw \in HwIds : f[hw] \in {0, 1}
    BY <1>1, <1>4
  <2>2. SumFunctionOnSet(f, HwIds) = Cardinality({hw \in HwIds : f[hw] = 1})
    BY ONLY <1>2, <2>1, SumOnes
  <2>3. {hw \in HwIds : f[hw] = 1} = K
    BY <1>1, <1>4
  <2> QED
    BY <1>4, <2>2, <2>3 DEF f
<1> QED
  BY <1>3, <1>4

\* Graphs begin: each holds the chunk of the report.
LEMMA BeginGraphExact ==
    ASSUME IInv, IInv', graphs \in Seq(Samples), Pointers, Exact, begin_graph
    PROVE  Pointers' /\ Exact'
<1> DEFINE b == Sample(report, INVALID, 0)
           known == {hw \in HwIds : hw_contexts[hw] # None}
<1>1. /\ UNCHANGED <<report, last, chunk, timelines, current_timeline_samples, graphs>>
      /\ pc = "graph" /\ pc' = "timeline"
  BY DEF begin_graph, lastVars
<1>2. chunk \in Chunks /\ report.chunk = chunk /\ refcount \in [Chunks -> Int]
  BY <1>1 DEF Pointers, InReport, IInv, Types, Exact
<1>3. CASE current_graph_samples # None
  <2>1. UNCHANGED <<current_graph_samples, hw_contexts, refcount>>
    BY <1>3 DEF begin_graph
  <2> QED
    BY <1>1, <1>2, <2>1, ExactKept
<1>4. CASE current_graph_samples = None
  <2>1. /\ current_graph_samples' = b
        /\ hw_contexts' = [hw \in HwIds |->
              IF hw \in known THEN [hw_contexts[hw] EXCEPT !.current_graph_samples = b] ELSE None]
        /\ refcount' = [refcount EXCEPT ![chunk] = @ + 1 + Cardinality(known)]
    BY <1>4 DEF begin_graph
  <2>2. b.start = chunk /\ b.end = None
    BY <1>2 DEF Sample
  <2> HIDE DEF b
  <2>3. b \in Samples
    <3>1. /\ report.chunk \in Chunks \cup {None} /\ report.ts \in Int
          /\ INVALID \in HwIds \cup {INVALID} /\ 0 \in Int
      BY <1>2 DEF IInv, Types, Reports
    <3> QED
      BY ONLY <3>1, NewSample DEF b
  <2>4. \A hw \in HwIds : hw_contexts[hw] # None =>
           /\ hw_contexts[hw] \in Contexts /\ hw_contexts[hw].current_graph_samples = None
    BY <1>4 DEF IInv, ContextsInStep, Types
  <2>5. ASSUME NEW hw \in HwIds
        PROVE  /\ hw_contexts[hw] = None => hw_contexts'[hw] = None
               /\ hw_contexts[hw] # None =>
                     /\ hw_contexts'[hw].graphs = hw_contexts[hw].graphs
                     /\ hw_contexts'[hw].current_graph_samples = b
                     /\ hw_contexts'[hw] # None
    <3>1. CASE hw_contexts[hw] = None
      BY <2>1, <3>1
    <3>2. CASE hw_contexts[hw] # None
      <4> DEFINE x == hw_contexts[hw]
                 y == hw_contexts'[hw]
      <4>1. y = [x EXCEPT !.current_graph_samples = b] /\ x \in Contexts
        BY <2>1, <2>4, <3>2
      <4> HIDE DEF x, y
      <4>2. y.graphs = x.graphs /\ y.current_graph_samples = b /\ y \in Contexts
        BY <2>3, <4>1 DEF Contexts
      <4>3. y # None
        BY <4>2, NoneIsNothing
      <4> QED
        BY <3>2, <4>2, <4>3 DEF x, y
    <3> QED
      BY <3>1, <3>2
  <2>6. Pointers'
    <3>1. NoEnd(b)
      BY <2>2 DEF NoEnd
    <3>2. \A hw \in HwIds : hw_contexts'[hw] # None =>
             hw_contexts'[hw].current_graph_samples = b
      BY <2>5
    <3> QED
      BY <1>1, <1>2, <2>1, <3>1, <3>2 DEF Pointers, NoEnd, InReport
  <2>7. ASSUME NEW c \in Chunks
        PROVE  refcount'[c] = OfSamples(c, timelines, current_timeline_samples)
                 + OfSamples(c, graphs, b) + OfContexts(c, hw_contexts')
                 + OfLast(c, last) + OfHandler(c, chunk)
    <3> DEFINE e == OfHandler(c, chunk)
               f == Held(c, hw_contexts)
               g == Held(c, hw_contexts')
               u == Gained(known, e)
    <3>1. e \in {0, 1} /\ known \in SUBSET HwIds /\ c # None
      BY UsesNow DEF OfHandler
    <3>2. PointsOf(c, b) = e
      BY <2>2, <2>3, <3>1, PointsAre DEF OfHandler
    <3>3. /\ hw_contexts \in [HwIds -> Contexts \cup {None}]
          /\ hw_contexts' \in [HwIds -> Contexts \cup {None}]
      BY DEF IInv, Types
    <3>4. \A hw \in HwIds : f[hw] \in Int /\ g[hw] \in Int
      BY <3>3, OfContextsIs, Zenon
    <3>5. \A hw \in HwIds : u[hw] \in Int /\ u[hw] = IF hw \in known THEN e ELSE 0
      BY <3>1 DEF Gained
    <3>6. \A hw \in HwIds : f[hw] = HeldBy(c, hw_contexts[hw]) /\ g[hw] = HeldBy(c, hw_contexts'[hw])
      BY DEF Held
    <3> HIDE DEF e, f, g, u
    <3>7. ASSUME NEW hw \in HwIds
          PROVE  g[hw] = f[hw] + u[hw]
      <4>1. CASE hw_contexts[hw] = None
        <5>1. f[hw] = 0 /\ g[hw] = 0 /\ u[hw] = 0
          BY <2>5, <3>5, <3>6, <4>1 DEF HeldBy
        <5> QED
          BY <5>1
      <4>2. CASE hw_contexts[hw] # None
        <5> DEFINE w == Total(pointsInto(c), hw_contexts[hw].graphs)
        <5>1. f[hw] = w + 0
          BY <2>4, <3>6, <4>2 DEF HeldBy, PointsOf
        <5>2. g[hw] = w + e
          BY <2>5, <3>2, <3>6, <4>2 DEF HeldBy
        <5>3. w \in Int
          <6>1. hw_contexts[hw].graphs \in Seq(Samples)
            BY <2>4, <4>2 DEF Contexts
          <6> QED
            BY <6>1, ReferencesTotal, Zenon
        <5>4. u[hw] = e
          BY <3>5, <4>2
        <5> HIDE DEF w
        <5> QED
          BY <3>1, <5>1, <5>2, <5>3, <5>4
      <4> QED
        BY <4>1, <4>2
    <3>8. \A hw \in HwIds : f[hw] \in Int /\ u[hw] \in Int /\ g[hw] = f[hw] + u[hw]
      BY <3>4, <3>5, <3>7
    <3>9. IsFiniteSet(HwIds)
      BY OaAssumption
    <3>10. SumFunctionOnSet(g, HwIds) = SumFunctionOnSet(f, HwIds) + SumFunctionOnSet(u, HwIds)
      BY ONLY <3>8, <3>9, SumPlus
    <3>11. SumFunctionOnSet(u, HwIds) = IF e = 1 THEN Cardinality(known) ELSE 0
      BY <3>1, AllGained DEF u
    <3>12. OfContexts(c, hw_contexts')
              = OfContexts(c, hw_contexts) + (IF e = 1 THEN Cardinality(known) ELSE 0)
      BY <3>10, <3>11 DEF OfContexts, f, g
    <3>13. OfSamples(c, graphs, b) = OfSamples(c, graphs, current_graph_samples) + e
      <4>1. Total(pointsInto(c), graphs) \in Int
        BY ReferencesTotal, Zenon
      <4> QED
        BY <1>4, <3>1, <3>2, <4>1 DEF OfSamples, PointsOf
    <3>14. Cardinality(known) \in Nat
      <4>1. IsFiniteSet(known)
        BY <3>1, <3>9, FS_Subset
      <4> QED
        BY <4>1, FS_CardinalityType
    <3>15. refcount'[c] = refcount[c] + (IF e = 1 THEN 1 + Cardinality(known) ELSE 0)
      <4> HIDE DEF known
      <4>1. refcount[c] \in Int
        BY <1>2
      <4>2. e = IF chunk = c THEN 1 ELSE 0
        BY DEF e, OfHandler
      <4> QED
        BY <1>2, <2>1, <3>14, <4>1, <4>2
    <3> HIDE DEF known
    <3>16. /\ OfSamples(c, timelines, current_timeline_samples) \in Int
           /\ OfSamples(c, graphs, current_graph_samples) \in Int
           /\ OfContexts(c, hw_contexts) \in Int
           /\ OfLast(c, last) \in Int
           /\ refcount[c] = OfSamples(c, timelines, current_timeline_samples)
                 + OfSamples(c, graphs, current_graph_samples) + OfContexts(c, hw_contexts)
                 + OfLast(c, last) + e
      BY UsesNow DEF e
    <3>17. refcount'[c] = OfSamples(c, timelines, current_timeline_samples)
                 + OfSamples(c, graphs, b) + OfContexts(c, hw_contexts')
                 + OfLast(c, last) + e
      BY ONLY <3>1, <3>12, <3>13, <3>14, <3>15, <3>16
    <3> QED
      BY <3>17 DEF e
  <2>8. refcount' = [c \in Chunks |-> refcount'[c]]
    BY <1>2, <2>1
  <2>9. Exact'
    BY <1>1, <2>1, <2>7, <2>8, ExactStep
  <2> QED
    BY <2>6, <2>9
<1> QED
  BY <1>3, <1>4

\* What a context that gets another sample holds: what it held, or the beginning
\* of the graph in progress.
LEMMA GotContext ==
    ASSUME IInv, Pointers, current_graph_samples # None, NEW h \in HwIds, NEW c, c # None
    PROVE  LET x == get_hw_context(h) IN
           /\ x # None => NoEnd(x.current_graph_samples)
           /\ hw_contexts[h] # None => HeldBy(c, x) = HeldBy(c, hw_contexts[h])
           /\ hw_contexts[h] = None =>
                 HeldBy(c, x) = IF c = current_graph_samples.start THEN 1 ELSE 0
<1> DEFINE x == get_hw_context(h)
           o == hw_contexts[h]
<1>1. x \in Contexts /\ x # None
  BY GetContext, Zenon
<1>2. CASE o # None
  <2>1. x = [o EXCEPT !.n_samples = @ + 1] /\ o \in Contexts
    BY <1>2 DEF get_hw_context, IInv, Types
  <2>2. NoEnd(o.current_graph_samples)
    BY <1>2 DEF Pointers
  <2> HIDE DEF x, o
  <2>3. x.graphs = o.graphs /\ x.current_graph_samples = o.current_graph_samples
    BY <2>1 DEF Contexts
  <2>4. HeldBy(c, x) = HeldBy(c, o) /\ NoEnd(x.current_graph_samples)
    BY <1>1, <1>2, <2>2, <2>3 DEF HeldBy
  <2> QED
    BY <1>2, <2>4 DEF x, o
<1>3. CASE o = None
  <2> DEFINE r == [chunk |-> current_graph_samples.start, ts |-> current_graph_samples.began]
             b == Sample(r, INVALID, 0)
  <2>1. x = [n_samples |-> 1, graphs |-> <<>>, current_graph_samples |-> b]
    BY <1>3 DEF get_hw_context
  <2>2. b.start = current_graph_samples.start /\ b.end = None
    BY DEF Sample
  <2> HIDE DEF b, x
  <2>3. x.graphs = <<>> /\ x.current_graph_samples = b
    BY <2>1
  <2>4. b \in Samples
    <3>1. b # None
      <4>1. x.current_graph_samples # None
        BY GetContext, Zenon DEF x
      <4> QED
        BY <2>3, <4>1
    <3> QED
      BY <1>1, <2>3, <3>1 DEF Contexts
  <2>5. HeldBy(c, x) = Total(pointsInto(c), <<>>) + PointsOf(c, b)
    BY <1>1, <2>3 DEF HeldBy
  <2>6. Total(pointsInto(c), <<>>) = 0
    BY TotalEmpty
  <2>7. PointsOf(c, b) = IF c = current_graph_samples.start THEN 1 ELSE 0
    BY <2>2, <2>4, PointsAre
  <2>8. HeldBy(c, x) = IF c = current_graph_samples.start THEN 1 ELSE 0
    BY <2>5, <2>6, <2>7
  <2>9. NoEnd(x.current_graph_samples)
    BY <2>2, <2>3 DEF NoEnd
  <2> QED
    BY <1>3, <2>8, <2>9 DEF x, o
<1> QED
  BY <1>2, <1>3

\* A sample of the timeline begins and holds the chunk of the last report.
LEMMA BeginTimelineExact ==
    ASSUME IInv, IInv', graphs \in Seq(Samples), Pointers, Exact, begin_timeline
    PROVE  Pointers' /\ Exact'
<1>1. /\ UNCHANGED <<report, last, chunk, timelines, graphs, current_graph_samples>>
      /\ pc = "timeline" /\ pc' \in {"finish", "accumulate"}
  BY DEF begin_timeline, lastVars
<1>2. chunk \in Chunks /\ report.chunk = chunk /\ refcount \in [Chunks -> Int]
      /\ current_graph_samples # None
  BY <1>1 DEF Pointers, InReport, IInv, Types, Exact, Phases
<1>3. CASE ~(last # None /\ last.hw # INVALID /\ current_timeline_samples = None)
  <2>1. UNCHANGED <<current_timeline_samples, hw_contexts, refcount>>
    BY <1>3 DEF begin_timeline
  <2> QED
    BY <1>1, <1>2, <2>1, ExactKept
<1>4. CASE last # None /\ last.hw # INVALID /\ current_timeline_samples = None
  <2> DEFINE h == last.hw
             s == Sample(last, h, i915_perf_timestamp(last))
             x == get_hw_context(h)
  <2>1. /\ current_timeline_samples' = s
        /\ hw_contexts' = [hw_contexts EXCEPT ![h] = x]
        /\ refcount' =
                 IF hw_contexts[h] # None
                 THEN [refcount EXCEPT ![last.chunk] = @ + 1]
                 ELSE [c \in Chunks |-> refcount[c]
                        + (IF c = last.chunk THEN 1 ELSE 0)
                        + (IF c = current_graph_samples.start THEN 1 ELSE 0)]
    BY <1>4 DEF begin_timeline
  <2>2. h \in HwIds /\ last \in Reports /\ last.chunk \in Chunks
    BY <1>4 DEF IInv, Types, Reports, Pointers
  <2>3. s.start = last.chunk /\ s.end = None
    BY DEF Sample
  <2>4. s \in Samples
    <3>1. /\ last.chunk \in Chunks \cup {None} /\ last.ts \in Int
          /\ h \in HwIds \cup {INVALID} /\ i915_perf_timestamp(last) \in Int
      BY <2>2, TimestampType DEF IInv, Reports
    <3> QED
      BY ONLY <3>1, NewSample
  <2> HIDE DEF s
  <2>5. /\ hw_contexts \in [HwIds -> Contexts \cup {None}]
        /\ hw_contexts' \in [HwIds -> Contexts \cup {None}]
    BY DEF IInv, Types
  <2>6. /\ hw_contexts'[h] = x
        /\ \A hw \in HwIds : hw # h => hw_contexts'[hw] = hw_contexts[hw]
    BY <2>1, <2>2, <2>5
  <2>7. ASSUME NEW c, c # None
        PROVE  /\ x # None => NoEnd(x.current_graph_samples)
               /\ hw_contexts[h] # None => HeldBy(c, x) = HeldBy(c, hw_contexts[h])
               /\ hw_contexts[h] = None =>
                     HeldBy(c, x) = IF c = current_graph_samples.start THEN 1 ELSE 0
    BY <1>2, <2>2, <2>7, GotContext, Zenon
  <2> HIDE DEF x
  <2>8. Pointers'
    <3>1. x # None => NoEnd(x.current_graph_samples)
      BY <2>7, <1>2, NoneIsNothing
    <3>2. \A hw \in HwIds : hw_contexts'[hw] # None =>
             NoEnd(hw_contexts'[hw].current_graph_samples)
      BY <2>6, <3>1 DEF Pointers
    <3>3. NoEnd(s)
      BY <2>3 DEF NoEnd
    <3>4. (chunk' = None) <=> (pc' = "idle")
      BY <1>1 DEF Pointers
    <3> QED
      BY <1>1, <1>2, <2>1, <3>2, <3>3, <3>4 DEF Pointers, NoEnd
  <2>9. ASSUME NEW c \in Chunks
        PROVE  refcount'[c] = OfSamples(c, timelines, s)
                 + OfSamples(c, graphs, current_graph_samples) + OfContexts(c, hw_contexts')
                 + OfLast(c, last) + OfHandler(c, chunk)
    <3>1. c # None
      BY UsesNow
    <3> DEFINE e == IF c = last.chunk THEN 1 ELSE 0
               g == IF c = current_graph_samples.start THEN 1 ELSE 0
               o == hw_contexts[h]
    <3>2. OfSamples(c, timelines, s) = OfSamples(c, timelines, current_timeline_samples) + e
      <4>1. timelines \in Seq(Samples)
        BY TimelineType DEF IInv
      <4>2. Total(pointsInto(c), timelines) \in Int
        BY <4>1, ReferencesTotal, Zenon
      <4>3. PointsOf(c, s) = e
        BY <2>3, <2>4, <3>1, PointsAre
      <4>4. PointsOf(c, current_timeline_samples) = 0
        BY <1>4 DEF PointsOf
      <4> QED
        BY <4>2, <4>3, <4>4 DEF OfSamples
    <3>3. OfContexts(c, hw_contexts') = OfContexts(c, hw_contexts) + (HeldBy(c, x) - HeldBy(c, o))
      <4>1. OfContexts(c, hw_contexts')
               = OfContexts(c, hw_contexts) + (HeldBy(c, hw_contexts'[h]) - HeldBy(c, hw_contexts[h]))
        BY <2>2, <2>5, <2>6, ContextChanges
      <4> QED
        BY <2>6, <4>1
    <3>4. HeldBy(c, o) \in Int /\ HeldBy(c, x) - HeldBy(c, o) = IF o = None THEN g ELSE 0
      <4>1. HeldBy(c, o) \in Int
        BY <2>2, <2>5, HeldByIs
      <4>2. o = None => HeldBy(c, o) = 0
        BY DEF HeldBy
      <4> QED
        BY <2>7, <3>1, <4>1, <4>2
    <3>5. refcount'[c] = refcount[c] + e + (IF o = None THEN g ELSE 0)
      <4>1. refcount[c] \in Int
        BY <1>2
      <4> QED
        BY <1>2, <2>1, <2>2, <4>1
    <3> HIDE DEF o
    <3>6. /\ OfSamples(c, timelines, current_timeline_samples) \in Int
          /\ OfSamples(c, graphs, current_graph_samples) \in Int
          /\ OfContexts(c, hw_contexts) \in Int
          /\ OfLast(c, last) \in Int /\ OfHandler(c, chunk) \in Int
          /\ refcount[c] = OfSamples(c, timelines, current_timeline_samples)
                + OfSamples(c, graphs, current_graph_samples) + OfContexts(c, hw_contexts)
                + OfLast(c, last) + OfHandler(c, chunk)
      BY UsesNow
    <3> QED
      BY ONLY <3>2, <3>3, <3>4, <3>5, <3>6
  <2>10. refcount' = [c \in Chunks |-> refcount'[c]]
    BY <1>2, <2>1
  <2>11. Exact'
    BY <1>1, <2>1, <2>9, <2>10, ExactStep
  <2> QED
    BY <2>8, <2>11
<1> QED
  BY <1>3, <1>4

\* The graph of the context that ran goes on.
LEMMA ContextExact ==
    ASSUME IInv, IInv', graphs \in Seq(Samples), Pointers, Exact, accumulate_context
    PROVE  Pointers' /\ Exact'
<1> DEFINE o == hw_contexts[context]
           g == o.current_graph_samples
           t == gputop_cc_oa_accumulate_reports(g, last, report)
<1>1. /\ UNCHANGED <<refcount, report, last, chunk, timelines, current_timeline_samples, graphs,
                     current_graph_samples>>
      /\ pc = "context" /\ pc' = "global"
      /\ hw_contexts' = [hw_contexts EXCEPT ![context].current_graph_samples =
                            gputop_cc_oa_accumulate_reports(@, last, report)]
  BY DEF accumulate_context, lastVars, sampleVars
<1>2. /\ context \in HwIds /\ o # None /\ last \in Reports /\ report \in Reports
      /\ o \in Contexts /\ hw_contexts \in [HwIds -> Contexts \cup {None}]
      /\ hw_contexts' \in [HwIds -> Contexts \cup {None}]
      /\ current_graph_samples # None
  BY <1>1 DEF IInv, Types, Phases, ContextsInStep
<1>3. g \in Samples /\ g # None
  <2>1. g # None
    BY <1>2 DEF IInv, ContextsInStep
  <2> QED
    BY <1>2, <2>1 DEF Contexts
<1>4. hw_contexts' = [hw_contexts EXCEPT ![context] = [o EXCEPT !.current_graph_samples = t]]
  BY <1>1, <1>2
<1>5. /\ t \in Samples /\ t # None /\ t.end = g.end
      /\ \A c : PointsOf(c, t) = PointsOf(c, g)
  <2> HIDE DEF g
  <2> QED
    BY <1>2, <1>3, AccumulatedPoints, Zenon
<1> HIDE DEF t
<1> DEFINE x == hw_contexts'[context]
<1>6. x = [o EXCEPT !.current_graph_samples = t]
      /\ \A hw \in HwIds : hw # context => hw_contexts'[hw] = hw_contexts[hw]
  BY <1>2, <1>4
<1>7. x.graphs = o.graphs /\ x.current_graph_samples = t /\ x # None
  <2>1. x.graphs = o.graphs /\ x.current_graph_samples = t /\ x \in Contexts
    <3> HIDE DEF o, x
    <3> QED
      BY <1>2, <1>5, <1>6 DEF Contexts
  <2> QED
    BY <2>1, NoneIsNothing
<1>8. Pointers'
  <2>1. NoEnd(t)
    <3>1. NoEnd(g)
      BY <1>2 DEF Pointers
    <3> QED
      BY <1>3, <1>5, <3>1 DEF NoEnd
  <2>2. \A hw \in HwIds : hw_contexts'[hw] # None =>
           NoEnd(hw_contexts'[hw].current_graph_samples)
    BY <1>6, <1>7, <2>1 DEF Pointers
  <2> QED
    BY <1>1, <2>2 DEF Pointers, NoEnd, InReport
<1>9. ASSUME NEW c \in Chunks
      PROVE  OfContexts(c, hw_contexts') = OfContexts(c, hw_contexts)
  <2>1. HeldBy(c, x) = HeldBy(c, o)
    BY <1>2, <1>5, <1>7 DEF HeldBy
  <2>2. \A hw \in HwIds : HeldBy(c, hw_contexts'[hw]) = HeldBy(c, hw_contexts[hw])
    BY <1>6, <2>1
  <2> QED
    BY <1>2, <2>2, ContextsSame
<1>10. Exact'
  <2>1. ASSUME NEW c \in Chunks
        PROVE  refcount'[c] = OfSamples(c, timelines, current_timeline_samples)
                 + OfSamples(c, graphs, current_graph_samples) + OfContexts(c, hw_contexts')
                 + OfLast(c, last) + OfHandler(c, chunk)
    <3>1. OfContexts(c, hw_contexts') = OfContexts(c, hw_contexts)
      BY <1>9
    <3> QED
      BY <1>1, <3>1, UsesNow
  <2>2. refcount' = [c \in Chunks |-> refcount'[c]]
    BY <1>1 DEF Exact
  <2> QED
    BY <1>1, <2>1, <2>2, ExactStep
<1> QED
  BY <1>8, <1>10

\* What the contexts that are freed give back.
Returned(q, c) ==
    SumFunction([hw \in Freed(q) |-> References(ContextSamples(hw_contexts[hw]), c)])

\* The contexts that remain when samples are put hold what all held, but for that.
LEMMA PutContextsHold ==
    ASSUME IInv, Pointers, NEW q \in Seq(Samples), NEW c,
           \A hw \in HwIds : hw_contexts[hw] # None =>
              Owned(q, hw) <= hw_contexts[hw].n_samples
    PROVE  LET d == put_hw_contexts(q) IN
           /\ OfContexts(c, d) \in Int /\ Returned(q, c) \in Int
           /\ OfContexts(c, d) + Returned(q, c) = OfContexts(c, hw_contexts)
           /\ \A hw \in HwIds : d[hw] # None => NoEnd(d[hw].current_graph_samples)
<1> DEFINE d == put_hw_contexts(q)
           l == [hw \in Freed(q) |-> References(ContextSamples(hw_contexts[hw]), c)]
           f == Held(c, hw_contexts)
           g == Held(c, d)
           down == [hw \in HwIds |-> IF hw \in Freed(q) THEN f[hw] ELSE 0]
<1>1. hw_contexts \in [HwIds -> Contexts \cup {None}] /\ IsFiniteSet(HwIds) /\ Types
  BY OaAssumption DEF IInv, Types
<1>2. /\ d \in [HwIds -> Contexts \cup {None}]
      /\ \A hw \in HwIds : hw_contexts[hw] = None => d[hw] = None
      /\ \A hw \in HwIds : hw_contexts[hw] # None =>
            (d[hw] = None <=> hw_contexts[hw].n_samples = Owned(q, hw))
      /\ \A hw \in HwIds : d[hw] # None =>
            /\ d[hw].n_samples = hw_contexts[hw].n_samples - Owned(q, hw)
            /\ d[hw].graphs = hw_contexts[hw].graphs
            /\ d[hw].current_graph_samples = hw_contexts[hw].current_graph_samples
  BY <1>1, PutContexts, Zenon
<1> HIDE DEF d
<1>3. \A hw \in HwIds : f[hw] = HeldBy(c, hw_contexts[hw]) /\ g[hw] = HeldBy(c, d[hw])
  BY DEF Held
<1>4. \A hw \in HwIds : f[hw] \in Int /\ g[hw] \in Int
  BY <1>1, <1>2, OfContextsIs, Zenon
<1>5. \A hw \in HwIds :
         hw \in Freed(q) <=> hw_contexts[hw] # None /\ hw_contexts[hw].n_samples = Owned(q, hw)
  <2>1. \A hw \in HwIds : hw_contexts[hw] # None => hw_contexts[hw].n_samples \in Nat \ {0}
    BY <1>1 DEF Contexts
  <2> QED
    BY <2>1 DEF Freed
<1>6. DOMAIN l = Freed(q) /\ Freed(q) \subseteq HwIds
  BY DEF Freed
<1>7. \A hw \in DOMAIN l : down[hw] = l[hw]
  <2>1. \A hw \in Freed(q) : References(ContextSamples(hw_contexts[hw]), c) = f[hw]
    BY <1>1, <1>3, <1>5, <1>6, HeldByIs
  <2> QED
    BY <1>6, <2>1
<1>8. \A hw \in HwIds : down[hw] = IF hw \in Freed(q) THEN f[hw] ELSE 0
  OBVIOUS
<1> HIDE DEF f, g, l, down
<1>9. \A hw \in HwIds : down[hw] \in Int
  BY <1>4, <1>8
<1>10. \A hw \in HwIds : hw \notin DOMAIN l => down[hw] = 0
  BY <1>6, <1>8
<1>11. DOMAIN l \subseteq HwIds
  BY <1>6
<1>12. SumFunction(l) = SumFunctionOnSet(down, HwIds)
  BY ONLY <1>1, <1>7, <1>9, <1>10, <1>11, SumExtend
<1>13. ASSUME NEW hw \in HwIds
       PROVE  f[hw] = g[hw] + down[hw]
  <2>1. CASE d[hw] = None
    <3>1. g[hw] = 0
      BY <1>3, <2>1 DEF HeldBy
    <3>2. hw_contexts[hw] = None => f[hw] = 0
      BY <1>3 DEF HeldBy
    <3>3. hw_contexts[hw] # None => down[hw] = f[hw]
      BY <1>2, <1>5, <1>8, <2>1
    <3>4. hw_contexts[hw] = None => down[hw] = 0
      BY <1>5, <1>8
    <3> QED
      BY <1>4, <3>1, <3>2, <3>3, <3>4
  <2>2. CASE d[hw] # None
    <3>1. hw_contexts[hw] # None /\ down[hw] = 0
      BY <1>2, <1>5, <1>8, <2>2
    <3>2. g[hw] = f[hw]
      BY <1>2, <1>3, <2>2, <3>1 DEF HeldBy
    <3> QED
      BY <1>4, <3>1, <3>2
  <2> QED
    BY <2>1, <2>2
<1>14. \A hw \in HwIds : g[hw] \in Int /\ down[hw] \in Int /\ f[hw] = g[hw] + down[hw]
  BY <1>4, <1>9, <1>13
<1>15. SumFunctionOnSet(f, HwIds) = SumFunctionOnSet(g, HwIds) + SumFunctionOnSet(down, HwIds)
  BY ONLY <1>1, <1>14, SumPlus
<1>16. SumFunctionOnSet(g, HwIds) \in Int /\ SumFunctionOnSet(down, HwIds) \in Int
  <2>1. HwIds \in SUBSET HwIds
    OBVIOUS
  <2> QED
    BY <1>1, <1>14, <2>1, SumPart, Zenon
<1>17. \A hw \in HwIds : d[hw] # None => NoEnd(d[hw].current_graph_samples)
  BY <1>2 DEF Pointers
<1>18. /\ OfContexts(c, d) \in Int /\ Returned(q, c) \in Int
       /\ OfContexts(c, d) + Returned(q, c) = OfContexts(c, hw_contexts)
  BY <1>12, <1>15, <1>16 DEF OfContexts, Returned, f, g, l
<1> QED
  BY <1>17, <1>18 DEF d

\* A sampling starts: everything is given back.
LEMMA StartExact ==
    ASSUME IInv, IInv', graphs \in Seq(Samples), Pointers, Exact,
           gputop_client_context_start_sampling
    PROVE  Pointers' /\ Exact'
<1> DEFINE gs == graphs \o Optional(current_graph_samples)
           refs == put_chunks(put_samples(refcount, Timeline), gs)
<1>1. /\ timelines' = <<>> /\ current_timeline_samples' = None
      /\ graphs' = <<>> /\ current_graph_samples' = None /\ last' = None
      /\ hw_contexts' = put_hw_contexts(Timeline)
      /\ refcount' = IF last = None THEN refs ELSE [refs EXCEPT ![last.chunk] = @ - 1]
      /\ UNCHANGED <<chunk, pc, report>>
  BY DEF gputop_client_context_start_sampling, i915_perf_empty_samples, Timeline
<1>2. Timeline \in Seq(Samples)
  BY AllFreed
<1>3. \A hw \in HwIds : hw_contexts[hw] # None =>
         Owned(Timeline, hw) <= hw_contexts[hw].n_samples
  <2>1. \A hw \in HwIds : hw_contexts[hw] # None =>
           /\ Owned(Timeline, hw) = hw_contexts[hw].n_samples
           /\ hw_contexts[hw].n_samples \in Nat
    BY DEF IInv, ContextsCounted, Types, Contexts
  <2> QED
    BY <2>1
<1>4. ASSUME NEW c
      PROVE  /\ OfContexts(c, hw_contexts') \in Int /\ Returned(Timeline, c) \in Int
             /\ OfContexts(c, hw_contexts') + Returned(Timeline, c) = OfContexts(c, hw_contexts)
             /\ \A hw \in HwIds : hw_contexts'[hw] # None =>
                   NoEnd(hw_contexts'[hw].current_graph_samples)
  BY <1>1, <1>2, <1>3, PutContextsHold, Zenon
<1>5. Pointers'
  BY <1>1, <1>4 DEF Pointers, NoEnd, InReport
<1>6. refcount \in [Chunks -> Int] /\ (last # None => last.chunk \in Chunks)
  BY DEF Exact, Pointers
<1>7. ASSUME NEW c \in Chunks
      PROVE  refcount'[c] = OfSamples(c, <<>>, None) + OfSamples(c, <<>>, None)
               + OfContexts(c, hw_contexts') + OfLast(c, None) + OfHandler(c, chunk)
  <2> DEFINE A == OfSamples(c, timelines, current_timeline_samples)
             B == OfSamples(c, graphs, current_graph_samples)
             C == OfContexts(c, hw_contexts')
             R == Returned(Timeline, c)
             D == OfLast(c, last)
             E == OfHandler(c, chunk)
  <2>1. /\ A \in Int /\ B \in Int /\ D \in Int /\ E \in Int
        /\ refcount[c] = A + B + OfContexts(c, hw_contexts) + D + E
    BY UsesNow
  <2>2. C \in Int /\ R \in Int /\ OfContexts(c, hw_contexts) = C + R
    BY <1>4
  <2>3. References(Timeline, c) = A /\ References(gs, c) = B
    <3>1. /\ timelines \in Seq(Samples) /\ current_timeline_samples \in Samples \cup {None}
          /\ current_graph_samples \in Samples \cup {None}
      BY TimelineType DEF IInv, Types
    <3> QED
      BY <3>1, OfSamplesIs, Zenon DEF Timeline
  <2>4. refs[c] = ((refcount[c] - References(Timeline, c)) - R) - References(gs, c)
    <3> HIDE DEF gs
    <3> QED
      BY DEF put_chunks, put_samples, Returned
  <2> HIDE DEF A, B, C, R, E, gs
  <2>5. refs[c] = (C + D) + E
    BY <2>1, <2>2, <2>3, <2>4
  <2>6. refcount'[c] = refs[c] - D /\ DOMAIN refs = Chunks
    <3>1. DOMAIN refs = Chunks /\ refs[c] \in Int
      BY <2>1, <2>2, <2>5 DEF put_chunks
    <3> HIDE DEF refs
    <3> QED
      BY <1>1, <1>6, <3>1 DEF OfLast
  <2>7. OfSamples(c, <<>>, None) = 0 /\ OfLast(c, None) = 0
    <3>1. Total(pointsInto(c), <<>>) = 0
      BY TotalEmpty
    <3> QED
      BY <3>1 DEF OfSamples, PointsOf, OfLast
  <2>8. refcount'[c] = C + E
    BY <2>1, <2>2, <2>5, <2>6
  <2> QED
    BY <2>1, <2>2, <2>7, <2>8 DEF C, E
<1>8. refcount' = [c \in Chunks |-> refcount'[c]]
  <2>1. refs = [c \in Chunks |-> refs[c]]
    BY DEF put_chunks
  <2> HIDE DEF refs
  <2> QED
    BY <1>1, <1>6, <2>1
<1>9. graphs' \in Seq(Samples)
  BY <1>1
<1>10. Exact'
  BY <1>1, <1>7, <1>8, <1>9, ExactStep
<1> QED
  BY <1>5, <1>10

\* A sample that is recorded holds the chunk it ended in; what is given up gives
\* its references back, with the contexts that are freed.
LEMMA TimelineExact ==
    ASSUME IInv, IInv', graphs \in Seq(Samples), Pointers, Exact, accumulate_timeline
    PROVE  Pointers' /\ Exact'
<1>1. /\ UNCHANGED <<report, last, chunk, graphs, current_graph_samples>>
      /\ pc = "accumulate" /\ pc' \in {"context", "global"}
  BY DEF accumulate_timeline, lastVars
<1>2. /\ chunk \in Chunks /\ report.chunk = chunk /\ refcount \in [Chunks -> Int]
      /\ last \in Reports /\ report \in Reports /\ last # None
  BY <1>1 DEF Pointers, InReport, IInv, Types, Exact, Phases
<1>3. CASE current_timeline_samples = None
  <2>1. UNCHANGED <<timelines, current_timeline_samples, refcount, hw_contexts>>
    BY <1>3 DEF accumulate_timeline, contextVars
  <2> QED
    BY <1>1, <1>2, <2>1, ExactKept
<1> DEFINE s == current_timeline_samples
<1>4. ASSUME s # None
      PROVE  /\ s \in Samples /\ s.end = None
             /\ Going \in Samples /\ Going # None /\ Going.start = s.start /\ Going.end = None
             /\ \A c : PointsOf(c, Going) = PointsOf(c, s)
  <2>1. s \in Samples /\ s.end = None
    BY <1>4, TimelineType DEF IInv, Pointers, NoEnd
  <2>2. /\ Going \in Samples /\ Going # None /\ Going.start = s.start /\ Going.end = s.end
        /\ \A c : PointsOf(c, Going) = PointsOf(c, s)
    BY <1>2, <2>1, AccumulatedPoints, Zenon DEF Going
  <2> QED
    BY <2>1, <2>2
<1>5. CASE s # None /\ ~Recording
  <2>1. /\ current_timeline_samples' = Going /\ UNCHANGED <<timelines, refcount, hw_contexts>>
    BY <1>5, Zenon DEF accumulate_timeline, contextVars, Recording, Going
  <2>2. NoEnd(Going) /\ \A c : PointsOf(c, Going) = PointsOf(c, s)
    BY <1>4, <1>5 DEF NoEnd
  <2>3. Pointers'
    BY <1>1, <1>2, <2>1, <2>2 DEF Pointers, NoEnd
  <2>4. ASSUME NEW c \in Chunks
        PROVE  refcount'[c] = OfSamples(c, timelines, Going)
                 + OfSamples(c, graphs, current_graph_samples) + OfContexts(c, hw_contexts)
                 + OfLast(c, last) + OfHandler(c, chunk)
    <3>1. OfSamples(c, timelines, Going) = OfSamples(c, timelines, current_timeline_samples)
      BY <2>2 DEF OfSamples
    <3> QED
      BY <2>1, <3>1, UsesNow
  <2>5. refcount' = [c \in Chunks |-> refcount'[c]]
    BY <1>2, <2>1
  <2>6. Exact'
    BY <1>1, <2>1, <2>4, <2>5, ExactStep
  <2> QED
    BY <2>3, <2>6
<1>6. CASE Recording
  <2> DEFINE x == Removed
             y == Rest
             e == Done
             d == put_hw_contexts(x)
  <2>1. s # None
    BY <1>6 DEF Recording
  <2>2. /\ timelines \in Seq(Samples) /\ x \in Seq(Samples) /\ y \in Seq(Samples)
        /\ e \in Samples /\ e.start = Going.start /\ e.end = chunk
        /\ timelines' = Append(y, e) /\ current_timeline_samples' = None
        /\ hw_contexts' = d
        /\ refcount' = put_samples([refcount EXCEPT ![chunk] = @ + 1], x)
    BY <1>6, Recorded, Zenon
  <2>3. \A v \in [Samples -> Int] : /\ Total(v, x) \in Int
                                    /\ Total(v, y) \in Int
                                    /\ Total(v, timelines) = Total(v, x) + Total(v, y)
    BY <1>6, Recorded, Zenon
  <2>4. \A hw \in HwIds : hw_contexts[hw] # None => Owned(x, hw) <= hw_contexts[hw].n_samples
    <3> DEFINE n == Excess(i915_perf_timestamp(report))
    <3>1. n \in 0..Len(timelines)
      BY ExcessRange DEF IInv
    <3>2. x = SubSeq(timelines, 1, n) /\ y = SubSeq(timelines, n + 1, Len(timelines))
      BY DEF Removed, Rest
    <3> HIDE DEF n, x, y
    <3> SUFFICES ASSUME NEW hw \in HwIds, hw_contexts[hw] # None
                 PROVE  Owned(x, hw) <= hw_contexts[hw].n_samples
      OBVIOUS
    <3>3. Owned(timelines, hw) = Owned(x, hw) + Owned(y, hw)
      BY <2>2, <3>1, <3>2, OwnedCut
    <3>4. Owned(x, hw) \in Nat /\ Owned(y, hw) \in Nat
      BY <2>2, OwnedType
    <3>5. /\ Owned(timelines, hw) \in Nat
          /\ Owned(timelines, hw) + (IF /\ current_timeline_samples # None
                                        /\ current_timeline_samples.hw = hw
                                     THEN 1 ELSE 0)
                = IF hw_contexts[hw] = None THEN 0 ELSE hw_contexts[hw].n_samples
      BY CountOf, Zenon DEF IInv
    <3>6. Owned(timelines, hw) <= hw_contexts[hw].n_samples
      BY <3>5
    <3>7. hw_contexts[hw].n_samples \in Nat
      BY DEF IInv, Types, Contexts
    <3> QED
      BY <3>3, <3>4, <3>6, <3>7
  <2>5. ASSUME NEW c
        PROVE  /\ OfContexts(c, hw_contexts') \in Int /\ Returned(x, c) \in Int
               /\ OfContexts(c, hw_contexts') + Returned(x, c) = OfContexts(c, hw_contexts)
               /\ \A hw \in HwIds : hw_contexts'[hw] # None =>
                     NoEnd(hw_contexts'[hw].current_graph_samples)
    <3> HIDE DEF x
    <3>1. /\ OfContexts(c, d) \in Int /\ Returned(x, c) \in Int
          /\ OfContexts(c, d) + Returned(x, c) = OfContexts(c, hw_contexts)
          /\ \A hw \in HwIds : d[hw] # None => NoEnd(d[hw].current_graph_samples)
      BY <2>2, <2>4, PutContextsHold, Zenon
    <3> QED
      BY <2>2, <3>1, Zenon
  <2>6. Pointers'
    BY <1>1, <1>2, <2>2, <2>5 DEF Pointers, NoEnd
  <2> HIDE DEF x, y, e, d
  <2>7. ASSUME NEW c \in Chunks
        PROVE  refcount'[c] = OfSamples(c, timelines', None)
                 + OfSamples(c, graphs, current_graph_samples) + OfContexts(c, hw_contexts')
                 + OfLast(c, last) + OfHandler(c, chunk)
    <3> DEFINE v == pointsInto(c)
               A == OfSamples(c, timelines, current_timeline_samples)
               B == OfSamples(c, graphs, current_graph_samples)
               C == OfContexts(c, hw_contexts')
               R == Returned(x, c)
               D == OfLast(c, last)
               E == OfHandler(c, chunk)
    <3>1. /\ A \in Int /\ B \in Int /\ D \in Int /\ E \in Int /\ c # None
          /\ refcount[c] = A + B + OfContexts(c, hw_contexts) + D + E
      BY UsesNow
    <3>2. C \in Int /\ R \in Int /\ OfContexts(c, hw_contexts) = C + R
      BY <2>5
    <3>3. v \in [Samples -> Int] /\ References(x, c) = Total(v, x)
      BY <2>2, PointsType, ReferencesTotal, Zenon
    <3>4. PointsOf(c, s) \in Int /\ v[e] = PointsOf(c, s) + E
      <4>1. PointsOf(c, s) = (IF s.start = c THEN 1 ELSE 0)
        BY <1>4, <2>1, <3>1, PointsAre
      <4>2. v[e] = (IF e.start = c THEN 1 ELSE 0) + (IF e.end = c THEN 1 ELSE 0)
        BY <2>2 DEF pointsInto
      <4> QED
        BY <1>4, <2>1, <2>2, <4>1, <4>2 DEF OfHandler
    <3> HIDE DEF v
    <3>5. /\ Append(y, e) \in Seq(Samples)
          /\ v[e] \in Int
          /\ Total(v, y) \in Int
          /\ Total(v, Append(y, e)) = Total(v, y) + v[e]
      <4>1. v \in [Samples -> Int] /\ y \in Seq(Samples) /\ e \in Samples
        BY <2>2, <3>3
      <4> QED
        BY ONLY <4>1, TotalAppend
    <3>6. Total(v, x) \in Int /\ Total(v, timelines) = Total(v, x) + Total(v, y)
      BY <2>3, <3>3, Zenon
    <3>7. OfSamples(c, timelines', None) = Total(v, y) + v[e]
      <4>1. OfSamples(c, timelines', None) = Total(v, timelines') + 0
        BY DEF OfSamples, PointsOf, v
      <4> QED
        BY <2>2, <3>5, <4>1
    <3>8. A = Total(v, timelines) + PointsOf(c, s)
      BY DEF OfSamples, v
    <3>9. refcount'[c] = ((refcount[c] + E) - References(x, c)) - R
      <4> DEFINE refs == [refcount EXCEPT ![chunk] = @ + 1]
      <4>1. refs[c] = refcount[c] + E
        <5>1. refcount[c] \in Int
          BY <1>2
        <5> QED
          BY <1>2, <5>1 DEF OfHandler
      <4>2. refcount' = put_samples(refs, x)
        BY <2>2
      <4> HIDE DEF refs
      <4>3. refcount'[c] = (refs[c] - References(x, c)) - R
        BY <4>2 DEF put_samples, Returned
      <4> QED
        BY <4>1, <4>3
    <3> HIDE DEF A, B, C, D, E, R
    <3> DEFINE a == Total(v, x)
               b == Total(v, y)
               k == PointsOf(c, s)
    <3>10. /\ a \in Int /\ b \in Int /\ k \in Int
           /\ A = (a + b) + k /\ OfSamples(c, timelines', None) = b + (k + E)
           /\ refcount'[c] = ((refcount[c] + E) - a) - R
      BY <3>3, <3>4, <3>5, <3>6, <3>7, <3>8, <3>9
    <3> HIDE DEF a, b, k
    <3>11. refcount'[c] = OfSamples(c, timelines', None) + B + C + D + E
      BY ONLY <3>1, <3>2, <3>10
    <3> QED
      BY <3>11 DEF B, C, D, E
  <2>8. refcount' = [c \in Chunks |-> refcount'[c]]
    BY <2>2 DEF put_samples
  <2>9. Exact'
    BY <1>1, <2>2, <2>7, <2>8, ExactStep
  <2> QED
    BY <2>6, <2>9
<1> QED
  BY <1>3, <1>5, <1>6

\* What is kept and what is given up of graphs, with another one.
LEMMA KeptPoints ==
    ASSUME NEW q \in Seq(Samples), NEW s \in Samples, s.end = None, chunk \in Chunks,
           NEW c, c # None
    PROVE  /\ Kept(q, s) \in Seq(Samples) /\ References(GivenUp(q), c) \in Int
           /\ OfSamples(c, Kept(q, s), None) \in Int
           /\ OfSamples(c, Kept(q, s), None) + References(GivenUp(q), c)
                 = OfSamples(c, q, s) + OfHandler(c, chunk)
<1> DEFINE v == pointsInto(c)
           e == [s EXCEPT !.end = chunk]
<1>1. e \in Samples /\ e.start = s.start /\ e.end = chunk
  BY DEF Samples
<1>2. e = [s EXCEPT !.end = chunk]
  OBVIOUS
<1> HIDE DEF e
<1>3. v \in [Samples -> Int] /\ v[e] = PointsOf(c, s) + OfHandler(c, chunk)
      /\ PointsOf(c, s) \in Int /\ OfHandler(c, chunk) \in Int
  <2>1. PointsOf(c, s) = (IF s.start = c THEN 1 ELSE 0)
    BY PointsAre
  <2>2. v[e] = (IF e.start = c THEN 1 ELSE 0) + (IF e.end = c THEN 1 ELSE 0)
    BY <1>1 DEF pointsInto
  <2>3. v \in [Samples -> Int]
    BY PointsType
  <2> QED
    BY <1>1, <2>1, <2>2, <2>3 DEF OfHandler
<1>4. Total(v, q) \in Int
  BY ReferencesTotal, Zenon
<1> HIDE DEF v
<1>5. /\ GivenUp(q) \in Seq(Samples) /\ Kept(q, s) \in Seq(Samples)
      /\ Total(v, GivenUp(q)) \in Int
      /\ Total(v, Kept(q, s)) = (Total(v, q) - Total(v, GivenUp(q))) + v[e]
  <2>1. v \in [Samples -> Int]
    BY <1>3
  <2>2. e \in Samples
    BY <1>1
  <2> QED
    BY <1>2, <2>1, <2>2, KeptTotal, Zenon
<1>6. References(GivenUp(q), c) = Total(v, GivenUp(q))
  BY <1>5, ReferencesTotal, Zenon DEF v
<1>7. /\ OfSamples(c, Kept(q, s), None) = Total(v, Kept(q, s)) + 0
      /\ OfSamples(c, q, s) = Total(v, q) + PointsOf(c, s)
  BY DEF OfSamples, PointsOf, v
<1> QED
  BY <1>3, <1>4, <1>5, <1>6, <1>7

\* What the graphs that contexts give up give back.
ReturnedGraphs(c) ==
    SumFunction([hw \in {h \in HwIds : hw_contexts[h] # None} |->
                   References(GivenUp(hw_contexts[hw].graphs), c)])

\* The graphs of contexts end: each holds the chunk of the report.
LEMMA ContextsRecorded ==
    ASSUME IInv, IInv', Pointers, current_graph_samples # None, chunk \in Chunks, NEW c \in Chunks,
           hw_contexts' = [hw \in HwIds |->
              IF hw_contexts[hw] # None THEN hw_context_record_for_time(hw_contexts[hw]) ELSE None]
    PROVE  LET known == {hw \in HwIds : hw_contexts[hw] # None} IN
           /\ OfContexts(c, hw_contexts') \in Int /\ ReturnedGraphs(c) \in Int
           /\ Cardinality(known) \in Nat
           /\ OfContexts(c, hw_contexts') + ReturnedGraphs(c)
                 = OfContexts(c, hw_contexts) + (IF chunk = c THEN Cardinality(known) ELSE 0)
<1> DEFINE known == {hw \in HwIds : hw_contexts[hw] # None}
           k == OfHandler(c, chunk)
           l == [hw \in known |-> References(GivenUp(hw_contexts[hw].graphs), c)]
           f == Held(c, hw_contexts)
           g == Held(c, hw_contexts')
           up == Gained(known, k)
           down == [hw \in HwIds |-> IF hw \in known
                                     THEN References(GivenUp(hw_contexts[hw].graphs), c) ELSE 0]
<1>1. /\ hw_contexts \in [HwIds -> Contexts \cup {None}]
      /\ hw_contexts' \in [HwIds -> Contexts \cup {None}] /\ IsFiniteSet(HwIds)
  BY OaAssumption DEF IInv, Types
<1>2. c # None /\ k \in {0, 1} /\ known \in SUBSET HwIds
  <2>1. None \notin Nat
    BY OaAssumption
  <2> QED
    BY <2>1 DEF Chunks, OfHandler
<1>3. \A hw \in HwIds : f[hw] = HeldBy(c, hw_contexts[hw]) /\ g[hw] = HeldBy(c, hw_contexts'[hw])
  BY DEF Held
<1>4. \A hw \in HwIds : f[hw] \in Int /\ g[hw] \in Int
  BY <1>1, OfContextsIs, Zenon
<1>5. \A hw \in HwIds : up[hw] = IF hw \in known THEN k ELSE 0
  BY DEF Gained
<1>6. DOMAIN l = known /\ \A hw \in known : l[hw] = down[hw]
  OBVIOUS
<1>7. \A hw \in HwIds : down[hw] = IF hw \in known
                                   THEN References(GivenUp(hw_contexts[hw].graphs), c) ELSE 0
  OBVIOUS
<1> HIDE DEF f, g, up, down, l, k
<1>8. ASSUME NEW hw \in HwIds
      PROVE  down[hw] \in Int /\ up[hw] \in Int /\ g[hw] + down[hw] = f[hw] + up[hw]
  <2>1. CASE hw_contexts[hw] = None
    <3>1. hw_contexts'[hw] = None
      BY <2>1
    <3>2. f[hw] = 0 /\ g[hw] = 0 /\ up[hw] = 0 /\ down[hw] = 0
      BY <1>3, <1>5, <1>7, <2>1, <3>1 DEF HeldBy
    <3> QED
      BY <3>2
  <2>2. CASE hw_contexts[hw] # None
    <3> DEFINE o == hw_contexts[hw]
               q == o.graphs
               s == o.current_graph_samples
               x == hw_contexts'[hw]
    <3>1. x = [o EXCEPT !.graphs = Kept(@, o.current_graph_samples), !.current_graph_samples = None]
          /\ o \in Contexts
      BY <1>1, <2>2 DEF hw_context_record_for_time
    <3>2. s # None
      BY <2>2 DEF IInv, ContextsInStep
    <3>3. q \in Seq(Samples) /\ s \in Samples /\ s.end = None
      BY <2>2, <3>1, <3>2 DEF Contexts, Pointers, NoEnd
    <3>4. x = [o EXCEPT !.graphs = Kept(q, s), !.current_graph_samples = None]
      BY <3>1
    <3>5. HeldBy(c, o) = OfSamples(c, q, s)
      BY <2>2 DEF HeldBy, OfSamples
    <3> HIDE DEF q, s
    <3>6. /\ Kept(q, s) \in Seq(Samples) /\ References(GivenUp(q), c) \in Int
          /\ OfSamples(c, Kept(q, s), None) \in Int
          /\ OfSamples(c, Kept(q, s), None) + References(GivenUp(q), c)
                = OfSamples(c, q, s) + OfHandler(c, chunk)
      BY <1>2, <3>3, KeptPoints, Zenon
    <3>7. x.graphs = Kept(q, s) /\ x.current_graph_samples = None /\ x # None
      <4> DEFINE r == Kept(q, s)
      <4>1. x = [o EXCEPT !.graphs = r, !.current_graph_samples = None] /\ r \in Seq(Samples)
        BY <3>4, <3>6
      <4> HIDE DEF r, x, o
      <4>2. x.graphs = r /\ x.current_graph_samples = None /\ x \in Contexts
        BY <3>1, <4>1 DEF Contexts
      <4>3. x # None
        BY <4>2, NoneIsNothing
      <4> QED
        BY <4>2, <4>3 DEF r
    <3>8. HeldBy(c, x) = OfSamples(c, Kept(q, s), None)
      BY <3>7 DEF HeldBy, OfSamples
    <3>9. down[hw] = References(GivenUp(q), c) /\ up[hw] = k /\ k = OfHandler(c, chunk)
      BY <1>5, <1>7, <2>2 DEF q, k
    <3>10. f[hw] = OfSamples(c, q, s) /\ g[hw] = OfSamples(c, Kept(q, s), None)
      BY <1>3, <3>5, <3>8
    <3> QED
      BY <1>2, <3>6, <3>9, <3>10
  <2> QED
    BY <2>1, <2>2
<1>9. \A hw \in HwIds : f[hw] \in Int /\ g[hw] \in Int /\ up[hw] \in Int /\ down[hw] \in Int
  BY <1>4, <1>8
<1>10. \A hw \in HwIds : g[hw] + down[hw] = f[hw] + up[hw]
  BY <1>8
<1>11. IsFiniteSet(HwIds)
  BY <1>1
<1>12. /\ SumFunctionOnSet(f, HwIds) \in Int /\ SumFunctionOnSet(g, HwIds) \in Int
       /\ SumFunctionOnSet(up, HwIds) \in Int /\ SumFunctionOnSet(down, HwIds) \in Int
       /\ SumFunctionOnSet(g, HwIds) + SumFunctionOnSet(down, HwIds)
             = SumFunctionOnSet(f, HwIds) + SumFunctionOnSet(up, HwIds)
  <2> DEFINE h == [hw \in HwIds |-> f[hw] + up[hw]]
  <2>1. \A hw \in HwIds : f[hw] \in Int /\ up[hw] \in Int /\ h[hw] = f[hw] + up[hw]
    BY <1>9
  <2>2. \A hw \in HwIds : g[hw] \in Int /\ down[hw] \in Int /\ h[hw] = g[hw] + down[hw]
    BY <1>9, <1>10
  <2>3. HwIds \in SUBSET HwIds
    OBVIOUS
  <2> HIDE DEF h
  <2>4. SumFunctionOnSet(h, HwIds) = SumFunctionOnSet(f, HwIds) + SumFunctionOnSet(up, HwIds)
    BY ONLY <1>11, <2>1, SumPlus
  <2>5. SumFunctionOnSet(h, HwIds) = SumFunctionOnSet(g, HwIds) + SumFunctionOnSet(down, HwIds)
    BY ONLY <1>11, <2>2, SumPlus
  <2>6. SumFunctionOnSet(f, HwIds) \in Int /\ SumFunctionOnSet(up, HwIds) \in Int
    BY <1>11, <2>1, <2>3, SumPart, Zenon
  <2>7. SumFunctionOnSet(g, HwIds) \in Int /\ SumFunctionOnSet(down, HwIds) \in Int
    BY <1>11, <2>2, <2>3, SumPart, Zenon
  <2> QED
    BY <2>4, <2>5, <2>6, <2>7
<1>13. SumFunction(l) = SumFunctionOnSet(down, HwIds)
  <2>1. DOMAIN l \subseteq HwIds
    BY <1>2, <1>6
  <2>2. \A hw \in DOMAIN l : down[hw] = l[hw]
    BY <1>6
  <2>3. \A hw \in HwIds : hw \notin DOMAIN l => down[hw] = 0
    BY <1>6, <1>7
  <2>4. \A hw \in HwIds : down[hw] \in Int
    BY <1>9
  <2> QED
    BY ONLY <1>11, <2>1, <2>2, <2>3, <2>4, SumExtend
<1>14. SumFunctionOnSet(up, HwIds) = IF k = 1 THEN Cardinality(known) ELSE 0
  BY <1>2, AllGained DEF up
<1>15. Cardinality(known) \in Nat
  <2>1. IsFiniteSet(known)
    BY <1>2, <1>11, FS_Subset
  <2> QED
    BY <2>1, FS_CardinalityType
<1>16. ReturnedGraphs(c) = SumFunction(l)
  BY DEF ReturnedGraphs, l
<1>17. k = 1 <=> chunk = c
  BY DEF k, OfHandler
<1>18. /\ OfContexts(c, hw_contexts') = SumFunctionOnSet(g, HwIds)
       /\ OfContexts(c, hw_contexts) = SumFunctionOnSet(f, HwIds)
  BY DEF OfContexts, f, g
<1> HIDE DEF known
<1>19. /\ OfContexts(c, hw_contexts') \in Int /\ ReturnedGraphs(c) \in Int
       /\ OfContexts(c, hw_contexts') + ReturnedGraphs(c)
             = OfContexts(c, hw_contexts) + (IF chunk = c THEN Cardinality(known) ELSE 0)
  BY <1>12, <1>13, <1>14, <1>15, <1>16, <1>17, <1>18
<1> QED
  BY <1>15, <1>19 DEF known

\* The graph of all contexts goes on, or all graphs end.
LEMMA GraphExact ==
    ASSUME IInv, IInv', graphs \in Seq(Samples), graphs' \in Seq(Samples), Pointers, Exact,
           accumulate_graph
    PROVE  Pointers' /\ Exact'
<1> DEFINE s == current_graph_samples
           g == gputop_cc_oa_accumulate_reports(s, last, report)
<1>1. /\ UNCHANGED <<report, last, chunk, timelines, current_timeline_samples>>
      /\ pc = "global" /\ pc' = "finish"
  BY DEF accumulate_graph, lastVars
<1>2. /\ chunk \in Chunks /\ report.chunk = chunk /\ refcount \in [Chunks -> Int]
      /\ last \in Reports /\ report \in Reports /\ s # None /\ s \in Samples /\ s.end = None
  BY <1>1 DEF Pointers, NoEnd, InReport, IInv, Types, Exact, Phases
<1>3. /\ g \in Samples /\ g # None /\ g.end = s.end
      /\ \A c : PointsOf(c, g) = PointsOf(c, s)
  <2> HIDE DEF s
  <2> QED
    BY <1>2, AccumulatedPoints, Zenon
<1>4. CASE ~(Believed(last, report) /\ g.elapsed > Period)
  <2>1. current_graph_samples' = g /\ UNCHANGED <<graphs, hw_contexts, refcount>>
    BY <1>4, Zenon DEF accumulate_graph
  <2> HIDE DEF g
  <2>2. NoEnd(g)
    BY <1>2, <1>3 DEF NoEnd
  <2>3. Pointers'
    BY <1>1, <1>2, <2>1, <2>2 DEF Pointers, NoEnd
  <2>4. ASSUME NEW c \in Chunks
        PROVE  refcount'[c] = OfSamples(c, timelines, current_timeline_samples)
                 + OfSamples(c, graphs, g) + OfContexts(c, hw_contexts)
                 + OfLast(c, last) + OfHandler(c, chunk)
    <3>1. OfSamples(c, graphs, g) = OfSamples(c, graphs, current_graph_samples)
      BY <1>3 DEF OfSamples
    <3> QED
      BY <2>1, <3>1, UsesNow
  <2>5. refcount' = [c \in Chunks |-> refcount'[c]]
    BY <1>2, <2>1
  <2>6. Exact'
    BY <1>1, <2>1, <2>4, <2>5, ExactStep
  <2> QED
    BY <2>3, <2>6
<1>5. CASE Believed(last, report) /\ g.elapsed > Period
  <2> DEFINE known == {hw \in HwIds : hw_contexts[hw] # None}
  <2>1. i915_perf_record_for_time(g)
    BY <1>5, Zenon DEF accumulate_graph
  <2> HIDE DEF g
  <2>2. /\ graphs' = Kept(graphs, g) /\ current_graph_samples' = None
        /\ hw_contexts' = [hw \in HwIds |->
              IF hw_contexts[hw] # None THEN hw_context_record_for_time(hw_contexts[hw]) ELSE None]
    BY <2>1 DEF i915_perf_record_for_time
  <2>3. \A c \in Chunks : refcount'[c] = refcount[c]
            + (((IF c = chunk THEN 1 + Cardinality(known) ELSE 0) - References(GivenUp(graphs), c))
                 - ReturnedGraphs(c))
    BY <2>1 DEF i915_perf_record_for_time, ReturnedGraphs
  <2>4. Pointers'
    <3>1. ASSUME NEW hw \in HwIds, hw_contexts'[hw] # None
          PROVE  hw_contexts'[hw].current_graph_samples = None
      <4> DEFINE o == hw_contexts[hw]
                 r == Kept(o.graphs, o.current_graph_samples)
                 x == hw_contexts'[hw]
      <4>1. x = [o EXCEPT !.graphs = r, !.current_graph_samples = None] /\ o \in Contexts
        BY <2>2, <3>1 DEF hw_context_record_for_time, IInv, Types
      <4> HIDE DEF o, r, x
      <4>2. x.current_graph_samples = None
        BY <4>1 DEF Contexts
      <4> QED
        BY <4>2 DEF x
    <3> QED
      BY <1>1, <1>2, <2>2, <3>1 DEF Pointers, NoEnd
  <2>5. ASSUME NEW c \in Chunks
        PROVE  refcount'[c] = OfSamples(c, timelines, current_timeline_samples)
                 + OfSamples(c, graphs', None) + OfContexts(c, hw_contexts')
                 + OfLast(c, last) + OfHandler(c, chunk)
    <3> DEFINE A == OfSamples(c, timelines, current_timeline_samples)
               B == OfSamples(c, graphs, current_graph_samples)
               C == OfContexts(c, hw_contexts)
               F == OfContexts(c, hw_contexts')
               G == OfSamples(c, graphs', None)
               R == ReturnedGraphs(c)
               S == References(GivenUp(graphs), c)
               D == OfLast(c, last)
               E == OfHandler(c, chunk)
               n == Cardinality(known)
    <3>1. /\ A \in Int /\ B \in Int /\ C \in Int /\ D \in Int /\ E \in Int /\ c # None
          /\ refcount[c] = A + B + C + D + E
      BY UsesNow
    <3>2. /\ F \in Int /\ R \in Int /\ n \in Nat
          /\ F + R = C + (IF chunk = c THEN n ELSE 0)
      BY <1>2, <2>2, ContextsRecorded, Zenon
    <3>3. /\ S \in Int /\ G \in Int /\ G + S = B + E
      <4>1. g.end = None
        BY <1>2, <1>3
      <4>2. /\ S \in Int /\ OfSamples(c, Kept(graphs, g), None) \in Int
            /\ OfSamples(c, Kept(graphs, g), None) + S = OfSamples(c, graphs, g) + E
        BY <1>2, <1>3, <3>1, <4>1, KeptPoints, Zenon
      <4>3. OfSamples(c, graphs, g) = B
        BY <1>3 DEF OfSamples
      <4> QED
        BY <2>2, <4>2, <4>3
    <3>4. refcount'[c] = refcount[c] + (((IF chunk = c THEN 1 + n ELSE 0) - S) - R)
      BY <2>3
    <3>5. E = IF chunk = c THEN 1 ELSE 0
      BY DEF OfHandler
    <3> HIDE DEF A, B, C, F, G, R, S, D, E, n
    <3>6. refcount'[c] = A + G + F + D + E
      BY ONLY <3>1, <3>2, <3>3, <3>4, <3>5
    <3> QED
      BY <3>6 DEF A, G, F, D, E
  <2>6. refcount' = [c \in Chunks |-> refcount'[c]]
    BY <2>1 DEF i915_perf_record_for_time
  <2>7. Exact'
    BY <1>1, <2>2, <2>5, <2>6, ExactStep
  <2> QED
    BY <2>4, <2>7
<1> QED
  BY <1>4, <1>5

\* Every step keeps the counts exact.
LEMMA ExactInductive ==
    ASSUME IInv, IInv', Counted, Counted', Pointers, Exact, [Next]_vars
    PROVE  Pointers' /\ Exact'
<1>1. graphs \in Seq(Samples) /\ graphs' \in Seq(Samples)
  BY DEF Counted
<1>2. CASE gputop_client_context_start_sampling
  BY <1>1, <1>2, StartExact
<1>3. CASE handle_i915_perf_data \/ put_i915_perf_chunk
  BY <1>1, <1>3, HandlerExact
<1>4. CASE begin_graph
  BY <1>1, <1>4, BeginGraphExact
<1>5. CASE begin_timeline
  BY <1>1, <1>5, BeginTimelineExact
<1>6. CASE accumulate_timeline
  BY <1>1, <1>6, TimelineExact
<1>7. CASE accumulate_context
  BY <1>1, <1>7, ContextExact
<1>8. CASE accumulate_graph
  BY <1>1, <1>8, GraphExact
<1>9. CASE finish_record
  BY <1>1, <1>9, FinishExact
<1>10. CASE record_sample
  <2>1. /\ UNCHANGED <<refcount, chunk, last, hw_contexts, timelines, current_timeline_samples,
                       graphs, current_graph_samples>>
        /\ pc = "next" /\ pc' = "graph" /\ report'.chunk = chunk
    BY <1>10 DEF record_sample, lastVars, contextVars, sampleVars
  <2> QED
    BY <2>1, ExactKept
<1>11. CASE \/ gputop_client_context_stop_sampling \/ record_buffer_lost \/ chunk_done
            \/ UNCHANGED vars
  <2>1. /\ UNCHANGED <<refcount, chunk, last, hw_contexts, timelines, current_timeline_samples,
                       graphs, current_graph_samples, report>>
        /\ pc = "idle" <=> pc' = "idle"
        /\ pc' \in InReport => pc \in InReport
    BY <1>11 DEF gputop_client_context_stop_sampling, record_buffer_lost, chunk_done, vars,
       InReport, lastVars, contextVars, sampleVars
  <2>2. pc' \in InReport => report'.chunk = chunk
    BY <2>1 DEF Pointers
  <2> QED
    BY <2>1, <2>2, ExactKept
<1> QED
  BY <1>2, <1>3, <1>4, <1>5, <1>6, <1>7, <1>8, <1>9, <1>10, <1>11, Zenon DEF Next

\* Nothing is counted at first.
LEMMA ExactInit == Init => Pointers /\ Exact
<1> SUFFICES ASSUME Init
             PROVE  Pointers /\ Exact
  OBVIOUS
<1>1. Pointers
  BY DEF Init, Pointers, NoEnd, InReport
<1>2. ASSUME NEW c \in Chunks
      PROVE  refcount[c] = Uses(c, timelines, current_timeline_samples, graphs,
                                current_graph_samples, hw_contexts, last, chunk)
  <2>1. Total(pointsInto(c), <<>>) = 0
    BY TotalEmpty
  <2>2. OfSamples(c, timelines, current_timeline_samples) = 0
        /\ OfSamples(c, graphs, current_graph_samples) = 0
    BY <2>1 DEF Init, OfSamples, PointsOf
  <2>3. OfContexts(c, hw_contexts) = 0
    <3> DEFINE f == Held(c, hw_contexts)
    <3>1. \A hw \in HwIds : f[hw] = 0
      BY DEF Init, Held, HeldBy
    <3>2. IsFiniteSet(HwIds)
      BY OaAssumption
    <3> HIDE DEF f
    <3>3. SumFunctionOnSet(f, HwIds) = 0
      BY ONLY <3>1, <3>2, SumZero
    <3> QED
      BY <3>3 DEF OfContexts, f
  <2>4. OfLast(c, last) = 0 /\ OfHandler(c, chunk) = 0 /\ refcount[c] = 0
    <3>1. None \notin Nat
      BY OaAssumption
    <3> QED
      BY <3>1 DEF Init, OfLast, OfHandler, Chunks
  <2> QED
    BY <2>2, <2>3, <2>4 DEF Uses
<1>3. refcount \in [Chunks -> Int]
  BY DEF Init
<1> QED
  BY <1>1, <1>2, <1>3 DEF Exact

\* A chunk's count is the number of pointers into it, and a context's that of its
\* samples: what the assertions of i915_perf_empty_samples() and of a reset expect
\* holds, and no chunk is freed while something points into it.
THEOREM Exactly == Spec => []CountsAreExact
<1>1. Init => Pointers /\ Exact
  BY ExactInit
<1>2. IInv /\ IInv' /\ Counted /\ Counted' /\ Pointers /\ Exact /\ [Next]_vars => Pointers' /\ Exact'
  BY ExactInductive
<1>3. IInv /\ Counted /\ Exact => CountsAreExact
  BY ExactCounts DEF Counted
<1> QED
  BY <1>1, <1>2, <1>3, Accounts, PTL DEF Spec
=============================================================================
