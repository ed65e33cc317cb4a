---------------------------- MODULE SumTheorems -----------------------------
(***************************************************************************)
(* Sums of a function over a finite set, as SumFunctionOnSet adds them up: *)
(* a sum is a number, an empty one is 0, any element may be taken out of   *)
(* it, and only the values on the set count.  The library states no fact   *)
(* about them.                                                             *)
(*                                                                         *)
(* The induction over the set is an argument by a least counterexample.    *)
(***************************************************************************)
EXTENDS Integers, Functions, FiniteSetTheorems, WellFoundedInduction, TLAPS

(* Least counterexamples *)

\* Among some subsets of a finite set there is a minimal one.
LEMMA MinimalSubset ==
  ASSUME NEW S, IsFiniteSet(S), NEW T \in SUBSET SUBSET S, T # {}
  PROVE  \E t \in T : \A u \in T : u \subseteq t => u = t
<1>1. IsWellFoundedOn(StrictSubsetOrdering(S), FiniteSubsetsOf(S))
  BY FS_StrictSubsetOrderingWellFounded
<1>2. T \subseteq FiniteSubsetsOf(S)
  BY FS_Subset DEF FiniteSubsetsOf
<1>3. PICK t \in T : \A u \in T : ~(<<u, t>> \in StrictSubsetOrdering(S))
  BY <1>1, <1>2, WFMin
<1>4. ASSUME NEW u \in T, u \subseteq t PROVE u = t
  BY <1>3, <1>4 DEF StrictSubsetOrdering
<1>5. QED BY <1>4

\* A set of natural numbers has a least one.
LEMMA LeastNat ==
  ASSUME NEW T \in SUBSET Nat, T # {}
  PROVE  \E m \in T : \A n \in T : m <= n
<1>1. PICK b \in T : b \in Nat
  OBVIOUS
<1> DEFINE below == {n \in T : n <= b}
<1>2. \A n \in below : n \in T /\ n \in 0 .. b
  <2>1. \A n \in T : n \in Nat
    OBVIOUS
  <2>2. QED BY <1>1, <2>1
<1>3. b \in below /\ \A n \in T : n \in below \/ n > b
  BY <1>1
<1> HIDE DEF below
<1>4. IsFiniteSet(below)
  <2>1. IsFiniteSet(0 .. b)
    BY <1>1, FS_Interval
  <2>2. below \subseteq 0 .. b
    BY <1>2
  <2>3. QED BY <2>1, <2>2, FS_Subset
<1> DEFINE upTo(n) == {k \in below : k <= n}
           U == {upTo(n) : n \in below}
<1>5. \A n \in below : upTo(n) \in U
  OBVIOUS
<1>6. U \in SUBSET SUBSET below /\ U # {}
  BY <1>3
<1>7. \A u \in U : \E m \in below : u = upTo(m)
  OBVIOUS
<1>8. PICK u \in U : \A v \in U : v \subseteq u => v = u
  <2> HIDE DEF U
  <2>1. QED BY <1>4, <1>6, MinimalSubset
<1>9. PICK m \in below : u = upTo(m)
  BY <1>7
<1>10. ASSUME NEW n \in below, n < m PROVE FALSE
  <2>1. upTo(n) \subseteq upTo(m) /\ m \in upTo(m) /\ m \notin upTo(n)
    BY <1>1, <1>2, <1>10
  <2> HIDE DEF upTo, U
  <2>2. QED BY <1>5, <1>8, <1>9, <2>1
<1>11. QED BY <1>1, <1>2, <1>3, <1>10

-----------------------------------------------------------------------------
(* The function that SumFunctionOnSet adds up with *)

Chosen(s) == CHOOSE x \in s : TRUE

\* g adds up f over every subset of S, element by element.
Adds(g, f, S) ==
  g = [s \in SUBSET S |-> IF s = {} THEN 0 ELSE f[Chosen(s)] + g[s \ {Chosen(s)}]]

LEMMA SumIsAdds ==
  ASSUME NEW f, NEW S
  PROVE  SumFunctionOnSet(f, S) = (CHOOSE g : Adds(g, f, S))[S]
BY DEF SumFunctionOnSet, FoldFunctionOnSet, MapThenFoldSet, Adds, Chosen

LEMMA ChosenIn == ASSUME NEW s, s # {} PROVE Chosen(s) \in s
BY DEF Chosen

\* Such a g exists: it is found for the subsets of up to n elements, one n
\* after the other.
LEMMA AddsExists ==
  ASSUME NEW S, IsFiniteSet(S), NEW f
  PROVE  \E g : Adds(g, f, S)
<1> DEFINE Right(g, s) == g[s] = IF s = {} THEN 0 ELSE f[Chosen(s)] + g[s \ {Chosen(s)}]
           UpTo(n) == \E g : \A s \in SUBSET S : Cardinality(s) <= n => Right(g, s)
           Bad == {n \in Nat : ~UpTo(n)}
<1>1. \A s \in SUBSET S : IsFiniteSet(s) /\ Cardinality(s) \in Nat
  BY FS_Subset, FS_CardinalityType
<1>2. Bad = {}
  <2>1. SUFFICES ASSUME Bad # {} PROVE FALSE
    OBVIOUS
  <2>2. PICK m \in Bad : \A n \in Bad : m <= n
    <3> HIDE DEF Bad
    <3>1. Bad \in SUBSET Nat
      BY DEF Bad
    <3>2. QED BY <2>1, <3>1, LeastNat
  <2>3. CASE m = 0
    <3> DEFINE g == [s \in SUBSET S |-> 0]
    <3>1. \A s \in SUBSET S : Cardinality(s) <= 0 => s = {}
      BY <1>1, FS_EmptySet
    <3>2. \A s \in SUBSET S : Cardinality(s) <= 0 => Right(g, s)
      BY <3>1
    <3>3. QED BY <2>2, <2>3, <3>2
  <2>4. CASE m # 0
    <3>1. m - 1 \in Nat /\ m - 1 \notin Bad
      <4>1. m \in Nat
        BY <2>2
      <4> HIDE DEF Bad
      <4>2. QED BY <2>2, <2>4, <4>1
    <3>2. PICK g : \A s \in SUBSET S : Cardinality(s) <= m - 1 => Right(g, s)
      BY <3>1
    <3> DEFINE h == [s \in SUBSET S |->
                       IF Cardinality(s) <= m - 1 THEN g[s]
                       ELSE f[Chosen(s)] + g[s \ {Chosen(s)}]]
    <3>3. ASSUME NEW s \in SUBSET S, Cardinality(s) <= m PROVE Right(h, s)
      <4>1. CASE s = {}
        <5>1. Cardinality(s) <= m - 1
          BY <3>1, <4>1, FS_EmptySet
        <5>2. QED BY <3>2, <4>1, <5>1
      <4>2. CASE s # {}
        <5> DEFINE r == s \ {Chosen(s)}
        <5>1. r \in SUBSET S /\ Cardinality(r) = Cardinality(s) - 1
          BY <1>1, <4>2, ChosenIn, FS_RemoveElement
        <5>2. Cardinality(r) <= m - 1
          BY <1>1, <3>1, <3>3, <5>1
        <5>3. h[r] = g[r]
          BY <5>1, <5>2
        <5>4. h[s] = f[Chosen(s)] + g[r]
          BY <3>2, <4>2
        <5>5. QED BY <4>2, <5>3, <5>4
      <4>3. QED BY <4>1, <4>2
    <3>4. UpTo(m)
      <4> HIDE DEF h
      <4>1. QED BY <3>3
    <3>5. QED BY <2>2, <3>4
  <2>5. QED BY <2>3, <2>4
<1>3. Cardinality(S) \in Nat /\ UpTo(Cardinality(S))
  BY <1>1, <1>2
<1>4. PICK g : \A s \in SUBSET S : Right(g, s)
  <2>1. PICK g : \A s \in SUBSET S : Cardinality(s) <= Cardinality(S) => Right(g, s)
    BY <1>3
  <2>2. \A s \in SUBSET S : Cardinality(s) <= Cardinality(S)
    BY FS_Subset
  <2>3. QED BY <2>1, <2>2
<1> DEFINE h == [s \in SUBSET S |-> g[s]]
<1>5. ASSUME NEW s \in SUBSET S PROVE Right(h, s)
  <2>1. s \ {Chosen(s)} \in SUBSET S
    OBVIOUS
  <2>2. QED BY <1>4, <2>1
<1>6. Adds(h, f, S)
  <2> DEFINE k == [s \in SUBSET S |-> IF s = {} THEN 0 ELSE f[Chosen(s)] + h[s \ {Chosen(s)}]]
  <2>1. \A s \in SUBSET S : h[s] = k[s]
    BY <1>5
  <2>2. h = k
    BY <2>1
  <2> HIDE DEF h
  <2>3. QED BY <2>2 DEF Adds
<1>7. QED BY <1>6

\* The same, value by value.
AddsUp(g, f, S) ==
  \A s \in SUBSET S : g[s] = IF s = {} THEN 0 ELSE f[Chosen(s)] + g[s \ {Chosen(s)}]

\* The sum of a finite set is its value in a function that adds up all subsets.
LEMMA SumByAdds ==
  ASSUME NEW S, IsFiniteSet(S), NEW f
  PROVE  \E g : SumFunctionOnSet(f, S) = g[S] /\ AddsUp(g, f, S)
<1> DEFINE g == CHOOSE h : Adds(h, f, S)
<1>1. Adds(g, f, S)
  BY AddsExists
<1>2. SumFunctionOnSet(f, S) = g[S]
  BY SumIsAdds
<1> HIDE DEF g
<1>3. AddsUp(g, f, S)
  BY <1>1 DEF Adds, AddsUp
<1>4. QED BY <1>2, <1>3

\* Functions that add up the same values agree.
LEMMA AddsAgree ==
  ASSUME NEW S, IsFiniteSet(S), NEW f, NEW e, NEW g, NEW h,
         \A x \in S : f[x] = e[x],
         AddsUp(g, f, S),
         AddsUp(h, e, S)
  PROVE  \A s \in SUBSET S : g[s] = h[s]
<1> DEFINE Bad == {s \in SUBSET S : g[s] # h[s]}
<1>1. SUFFICES ASSUME Bad # {} PROVE FALSE
  OBVIOUS
<1>2. PICK s \in Bad : \A u \in Bad : u \subseteq s => u = s
  <2>1. Bad \in SUBSET SUBSET S
    OBVIOUS
  <2> HIDE DEF Bad
  <2>2. QED BY <1>1, <2>1, MinimalSubset
<1>3. s # {} /\ s \in SUBSET S
  BY DEF AddsUp
<1> DEFINE r == s \ {Chosen(s)}
<1>4. Chosen(s) \in s /\ r \in SUBSET S /\ r # s
  BY <1>3, ChosenIn
<1>5. g[r] = h[r]
  BY <1>2, <1>4
<1>6. g[s] = h[s]
  BY <1>3, <1>4, <1>5 DEF AddsUp
<1>7. QED BY <1>2, <1>6

\* In such a function every element can be taken out of a sum.
LEMMA AddsTakeOut ==
  ASSUME NEW S, IsFiniteSet(S), NEW f, \A x \in S : f[x] \in Int, NEW g,
         AddsUp(g, f, S)
  PROVE  \A s \in SUBSET S : g[s] \in Int /\ \A y \in s : g[s] = f[y] + g[s \ {y}]
<1> DEFINE Good(s) == g[s] \in Int /\ \A y \in s : g[s] = f[y] + g[s \ {y}]
           Bad == {s \in SUBSET S : ~Good(s)}
<1>1. SUFFICES ASSUME Bad # {} PROVE FALSE
  OBVIOUS
<1>2. PICK s \in Bad : \A u \in Bad : u \subseteq s => u = s
  <2>1. Bad \in SUBSET SUBSET S
    OBVIOUS
  <2> HIDE DEF Bad
  <2>2. QED BY <1>1, <2>1, MinimalSubset
<1>3. s # {} /\ s \in SUBSET S
  <2>1. g[{}] = 0
    <3>1. {} \in SUBSET S
      OBVIOUS
    <3>2. QED BY <3>1 DEF AddsUp
  <2>2. Good({})
    BY <2>1
  <2>3. s \in SUBSET S /\ ~Good(s)
    OBVIOUS
  <2> HIDE DEF Good
  <2>4. QED BY <2>2, <2>3
<1> DEFINE c == Chosen(s)
           r == s \ {c}
<1>4. c \in s /\ r \in SUBSET S
  BY <1>3, ChosenIn
<1>5. \A u \in SUBSET s : u # s => Good(u)
  BY <1>2, <1>3
<1>6. g[s] = f[c] + g[r] /\ g[r] \in Int /\ f[c] \in Int
  BY <1>3, <1>4, <1>5 DEF AddsUp
<1>7. ASSUME NEW x \in s PROVE g[s] = f[x] + g[s \ {x}]
  <2>1. CASE x = c
    BY <1>6, <2>1
  <2>2. CASE x # c
    <3> DEFINE q == s \ {x}
               t == r \ {x}
    <3>1. g[r] = f[x] + g[t] /\ f[x] \in Int
      BY <1>3, <1>4, <1>5, <2>2
    <3>2. g[q] = f[c] + g[q \ {c}]
      BY <1>4, <1>5, <2>2
    <3>3. q \ {c} = t
      OBVIOUS
    <3>4. t \in SUBSET s /\ t # s
      BY <1>4
    <3>5. g[t] \in Int
      BY <1>5, <3>4
    <3>6. g[s] = f[c] + (f[x] + g[t])
      BY <1>6, <3>1
    <3>7. g[q] = f[c] + g[t]
      BY <3>2, <3>3
    <3>8. f[c] \in Int /\ f[x] \in Int
      BY <1>6, <3>1
    <3> HIDE DEF c, r, t
    <3>9. QED BY <3>5, <3>6, <3>7, <3>8
  <2>3. QED BY <2>1, <2>2
<1>8. Good(s)
  <2>1. g[s] \in Int
    <3> HIDE DEF c, r
    <3>1. QED BY <1>6
  <2>2. QED BY <1>7, <2>1
<1>9. QED BY <1>8

-----------------------------------------------------------------------------
(* The facts the other modules cite *)

\* The empty sum.
LEMMA SumEmpty ==
  ASSUME NEW f
  PROVE  SumFunctionOnSet(f, {}) = 0
<1>1. PICK g : SumFunctionOnSet(f, {}) = g[{}] /\ AddsUp(g, f, {})
  BY FS_EmptySet, SumByAdds
<1>2. QED BY <1>1 DEF AddsUp

\* A sum of integers is an integer.
LEMMA SumType ==
  ASSUME NEW S, IsFiniteSet(S), NEW f, \A x \in S : f[x] \in Int
  PROVE  SumFunctionOnSet(f, S) \in Int
<1>1. PICK g : SumFunctionOnSet(f, S) = g[S] /\ AddsUp(g, f, S)
  BY SumByAdds
<1>2. g[S] \in Int
  BY <1>1, AddsTakeOut
<1>3. QED BY <1>1, <1>2

\* Only the values on the set count.
LEMMA SumSame ==
  ASSUME NEW S, IsFiniteSet(S), NEW f, NEW e, \A x \in S : f[x] = e[x]
  PROVE  SumFunctionOnSet(f, S) = SumFunctionOnSet(e, S)
<1>1. PICK g : SumFunctionOnSet(f, S) = g[S] /\ AddsUp(g, f, S)
  BY SumByAdds
<1>2. PICK h : SumFunctionOnSet(e, S) = h[S] /\ AddsUp(h, e, S)
  BY SumByAdds
<1>3. \A s \in SUBSET S : g[s] = h[s]
  BY <1>1, <1>2, AddsAgree
<1>4. QED BY <1>1, <1>2, <1>3

\* Any element may be taken out of a sum.
LEMMA SumTakeOut ==
  ASSUME NEW S, IsFiniteSet(S), NEW f, \A x \in S : f[x] \in Int, NEW x \in S
  PROVE  SumFunctionOnSet(f, S) = f[x] + SumFunctionOnSet(f, S \ {x})
<1> DEFINE R == S \ {x}
<1>1. PICK g : SumFunctionOnSet(f, S) = g[S] /\ AddsUp(g, f, S)
  BY SumByAdds
<1>2. IsFiniteSet(R) /\ R \in SUBSET S
  BY FS_Subset
<1> HIDE DEF R
<1>3. PICK h : SumFunctionOnSet(f, R) = h[R] /\ AddsUp(h, f, R)
  BY <1>2, SumByAdds
<1>4. \A s \in SUBSET R : s \in SUBSET S
  BY <1>2
<1>5. \A s \in SUBSET R : g[s] = h[s]
  <2>1. AddsUp(g, f, R)
    BY <1>1, <1>4 DEF AddsUp
  <2>2. QED BY <1>2, <1>3, <2>1, AddsAgree
<1>6. g[S] = f[x] + g[R]
  <2>1. \A s \in SUBSET S : g[s] \in Int /\ \A y \in s : g[s] = f[y] + g[s \ {y}]
    <3>1. AddsUp(g, f, S)
      BY <1>1
    <3>2. QED BY <3>1, AddsTakeOut
  <2>2. S \in SUBSET S
    OBVIOUS
  <2>3. QED BY <2>1, <2>2 DEF R
<1>7. QED BY <1>1, <1>3, <1>5, <1>6 DEF R

\* An element is added to a sum.
LEMMA SumPutIn ==
  ASSUME NEW S, IsFiniteSet(S), NEW x, x \notin S, NEW f, \A y \in S \cup {x} : f[y] \in Int
  PROVE  SumFunctionOnSet(f, S \cup {x}) = f[x] + SumFunctionOnSet(f, S)
<1> DEFINE T == S \cup {x}
<1>1. IsFiniteSet(T)
  BY FS_AddElement
<1>2. T \ {x} = S /\ x \in T /\ \A y \in T : f[y] \in Int
  OBVIOUS
<1> HIDE DEF T
<1>3. SumFunctionOnSet(f, T) = f[x] + SumFunctionOnSet(f, T \ {x})
  BY <1>1, <1>2, SumTakeOut
<1>4. QED BY <1>2, <1>3 DEF T

\* Nothing but zeros.
LEMMA SumZeros ==
  ASSUME NEW S, IsFiniteSet(S), NEW f, \A x \in S : f[x] = 0
  PROVE  SumFunctionOnSet(f, S) = 0
<1> DEFINE T == {t \in SUBSET S : SumFunctionOnSet(f, t) # 0}
<1>1. SUFFICES ASSUME S \in T PROVE FALSE
  OBVIOUS
<1>2. T \in SUBSET SUBSET S /\ T # {}
  BY <1>1
<1>3. PICK t \in T : \A u \in T : u \subseteq t => u = t
  <2> HIDE DEF T
  <2>1. QED BY <1>2, MinimalSubset
<1>4. t # {} /\ IsFiniteSet(t) /\ t \in SUBSET S
  BY SumEmpty, FS_Subset
<1>5. PICK x \in t : x \in S
  BY <1>4
<1>6. \A y \in t : f[y] \in Int
  BY <1>4
<1>7. SumFunctionOnSet(f, t) = f[x] + SumFunctionOnSet(f, t \ {x})
  BY <1>4, <1>6, SumTakeOut
<1>8. SumFunctionOnSet(f, t \ {x}) \in Int
  <2>1. IsFiniteSet(t \ {x})
    BY <1>4, FS_Subset
  <2>2. QED BY <1>6, <2>1, SumType
<1>9. t \ {x} \in T
  BY <1>3, <1>4, <1>5, <1>7, <1>8
<1>10. QED BY <1>3, <1>5, <1>9

\* Natural numbers add up to one that is no less than each of them.
LEMMA SumNats ==
  ASSUME NEW S, IsFiniteSet(S), NEW f, \A x \in S : f[x] \in Nat
  PROVE  SumFunctionOnSet(f, S) \in Nat /\ \A x \in S : f[x] <= SumFunctionOnSet(f, S)
<1> DEFINE T == {t \in SUBSET S : SumFunctionOnSet(f, t) \notin Nat}
<1>1. T = {}
  <2>1. SUFFICES ASSUME T # {} PROVE FALSE
    OBVIOUS
  <2>2. T \in SUBSET SUBSET S
    OBVIOUS
  <2>3. PICK t \in T : \A u \in T : u \subseteq t => u = t
    <3> HIDE DEF T
    <3>1. QED BY <2>1, <2>2, MinimalSubset
  <2>4. t # {} /\ IsFiniteSet(t) /\ t \in SUBSET S
    <3>1. SumFunctionOnSet(f, {}) = 0
      BY SumEmpty
    <3>2. t # {} /\ t \in SUBSET S
      BY <3>1
    <3>3. QED BY <3>2, FS_Subset
  <2>5. PICK x \in t : x \in S
    BY <2>4
  <2>6. \A y \in t : f[y] \in Int
    BY <2>4
  <2>7. SumFunctionOnSet(f, t) = f[x] + SumFunctionOnSet(f, t \ {x})
    BY <2>4, <2>6, SumTakeOut
  <2>8. t \ {x} \notin T /\ t \ {x} \in SUBSET S
    BY <2>3, <2>4, <2>5
  <2>9. QED BY <2>3, <2>5, <2>7, <2>8
<1>2. SumFunctionOnSet(f, S) \in Nat
  BY <1>1
<1>3. ASSUME NEW x \in S PROVE f[x] <= SumFunctionOnSet(f, S)
  <2>1. \A y \in S : f[y] \in Int
    OBVIOUS
  <2>2. SumFunctionOnSet(f, S) = f[x] + SumFunctionOnSet(f, S \ {x})
    BY <2>1, SumTakeOut
  <2>3. S \ {x} \in SUBSET S
    OBVIOUS
  <2>4. SumFunctionOnSet(f, S \ {x}) \in Nat
    BY <1>1, <2>3
  <2>5. QED BY <2>2, <2>4
<1>4. QED BY <1>2, <1>3

\* Two functions whose values are integers and differ in one place.
SameBut(f, e, S, x) ==
  /\ x \in S /\ \A y \in S : f[y] \in Int /\ e[y] \in Int
  /\ \A y \in S \ {x} : f[y] = e[y]

LEMMA SumChange ==
  ASSUME NEW S, IsFiniteSet(S), NEW f, NEW e, NEW x, SameBut(f, e, S, x)
  PROVE  SumFunctionOnSet(e, S) = SumFunctionOnSet(f, S) - f[x] + e[x]
<1>0. /\ x \in S /\ \A y \in S : f[y] \in Int /\ e[y] \in Int
      /\ \A y \in S \ {x} : f[y] = e[y]
  BY DEF SameBut
<1> DEFINE R == S \ {x}
<1>1. IsFiniteSet(R)
  BY FS_Subset
<1>2. SumFunctionOnSet(f, S) = f[x] + SumFunctionOnSet(f, R)
  BY <1>0, SumTakeOut
<1>3. SumFunctionOnSet(e, S) = e[x] + SumFunctionOnSet(e, R)
  BY <1>0, SumTakeOut
<1>4. \A y \in R : f[y] = e[y] /\ f[y] \in Int
  BY <1>0
<1> HIDE DEF R
<1>5. SumFunctionOnSet(f, R) = SumFunctionOnSet(e, R) /\ SumFunctionOnSet(f, R) \in Int
  BY <1>1, <1>4, SumSame, SumType
<1>6. QED BY <1>0, <1>2, <1>3, <1>5

\* The sum of the first n values of a function on the natural numbers.
LEMMA SumUpTo ==
  ASSUME NEW n \in Nat, NEW f, \A i \in 1 .. n + 1 : f[i] \in Int
  PROVE  /\ SumFunctionOnSet(f, 1 .. n) \in Int
         /\ SumFunctionOnSet(f, 1 .. n + 1) = SumFunctionOnSet(f, 1 .. n) + f[n + 1]
<1>1. IsFiniteSet(1 .. n)
  BY FS_Interval
<1>2. 1 .. n + 1 = (1 .. n) \cup {n + 1} /\ n + 1 \notin 1 .. n
  OBVIOUS
<1>3. \A i \in 1 .. n : f[i] \in Int
  OBVIOUS
<1>4. SumFunctionOnSet(f, 1 .. n) \in Int
  BY <1>1, <1>3, SumType
<1>5. SumFunctionOnSet(f, (1 .. n) \cup {n + 1}) = f[n + 1] + SumFunctionOnSet(f, 1 .. n)
  BY <1>1, <1>2, SumPutIn
<1>6. f[n + 1] \in Int
  OBVIOUS
<1>7. SumFunctionOnSet(f, 1 .. n + 1) = f[n + 1] + SumFunctionOnSet(f, 1 .. n)
  BY <1>2, <1>5
<1>8. QED BY <1>4, <1>6, <1>7
=============================================================================
