------------------------------ MODULE FoldLemmas ------------------------------
(***************************************************************************)
(* Facts about data that the theorems about the algorithms rest on: least  *)
(* elements, the sum over a finite set, the places of a finite order,      *)
(* recursion over an interval, sequences put one after the other.          *)
(*                                                                         *)
(* Induction is replaced by the least counterexample.                      *)
(***************************************************************************)
EXTENDS Ordering, SequencesExt, Functions, FiniteSetTheorems, FunctionTheorems, SequenceTheorems,
        WellFoundedInduction, TLAPS

\* Of a set of naturals one is the least.
LEMMA LeastNatural ==
    ASSUME NEW T \in SUBSET Nat, T # {}
    PROVE  \E least \in T : \A k \in T : least <= k
<1> DEFINE Less == OpToRel(<, Nat)
<1>1. IsWellFoundedOn(Less, Nat)
  BY NatLessThanWellFounded
<1>2. \A x, y \in Nat : <<y, x>> \in Less <=> y < x
  BY DEF OpToRel
<1> HIDE DEF Less
<1>3. PICK least \in T : \A k \in T : ~(<<k, least>> \in Less)
  BY <1>1, WFMin
<1>4. \A k \in T : ~(k < least)
  <2>1. \A k \in T : k \in Nat /\ least \in Nat
    OBVIOUS
  <2> QED BY <1>2, <1>3, <2>1, Zenon
<1>5. \A k \in T : least <= k
  BY <1>4
<1> QED BY <1>5

\* Of a set of naturals with a bound one is the greatest.
LEMMA GreatestNatural ==
    ASSUME NEW n \in Nat, NEW T \in SUBSET (0 .. n), T # {}
    PROVE  \E greatest \in T : \A k \in T : k <= greatest
<1> DEFINE Down == {i \in 0 .. n : n - i \in T}
<1>1. PICK k \in T : TRUE
  OBVIOUS
<1>2. n - k \in Down /\ Down \in SUBSET Nat
  OBVIOUS
<1>3. PICK i \in Down : \A j \in Down : i <= j
  <2> HIDE DEF Down
  <2>1. QED
    BY <1>2, LeastNatural
<1>4. i \in 0 .. n /\ n - i \in T
  OBVIOUS
<1>5. ASSUME NEW j \in T PROVE j <= n - i
  <2>1. j \in 0 .. n /\ n - j \in Down
    OBVIOUS
  <2>2. i <= n - j
    BY <1>3, <2>1
  <2>3. QED
    BY <1>4, <2>1, <2>2
<1>6. QED
  BY <1>4, <1>5

\* Of a family of finite sets one has no proper subset in the family.
LEMMA LeastSet ==
    ASSUME NEW F, F # {}, \A T \in F : IsFiniteSet(T)
    PROVE  \E least \in F : \A T \in F : ~(T \subseteq least /\ T # least)
<1> DEFINE Sizes == {Cardinality(T) : T \in F}
<1>1. Sizes \in SUBSET Nat /\ Sizes # {}
  BY FS_CardinalityType
<1>2. PICK n \in Sizes : \A k \in Sizes : n <= k
  BY <1>1, LeastNatural
<1>3. PICK least \in F : Cardinality(least) = n
  BY <1>2
<1>4. ASSUME NEW T \in F, T \subseteq least, T # least PROVE FALSE
  <2>1. Cardinality(T) <= Cardinality(least) /\ Cardinality(T) # Cardinality(least)
    BY <1>4, FS_Subset
  <2>2. n <= Cardinality(T) /\ n \in Nat /\ Cardinality(T) \in Nat
    BY <1>1, <1>2
  <2>3. QED
    BY <1>3, <2>1, <2>2
<1>5. QED
  BY <1>4

-------------------------------------------------------------------------------
(* Sums.  A fold over a set takes its elements in the order of CHOOSE; w gives
   what each of them adds. *)

First(s) == CHOOSE x \in s : TRUE

SumStep(w, S, g) == [s \in SUBSET S |-> IF s = {} THEN 0 ELSE w[First(s)] + g[s \ {First(s)}]]

\* g gives every subset of S its sum.
IsSum(w, S, g) == g = SumStep(w, S, g)

LEMMA FirstOf == ASSUME NEW s, s # {} PROVE First(s) \in s
BY DEF First

LEMMA SumSteps ==
    ASSUME NEW w, NEW S, NEW g, IsSum(w, S, g), NEW T \in SUBSET S
    PROVE  g[T] = IF T = {} THEN 0 ELSE w[First(T)] + g[T \ {First(T)}]
BY DEF IsSum, SumStep

\* There is one for every finite set.
LEMMA SumExists ==
    ASSUME NEW D, NEW w \in [D -> Int], NEW S \in SUBSET D, IsFiniteSet(S)
    PROVE  \E g \in [SUBSET S -> Int] : IsSum(w, S, g)
<1> DEFINE Right(n, g) == \A s \in SUBSET S : Cardinality(s) <= n => g[s] = SumStep(w, S, g)[s]
           Bad == {n \in Nat : ~ \E g \in [SUBSET S -> Int] : Right(n, g)}
<1>1. \A s \in SUBSET S : /\ IsFiniteSet(s) /\ Cardinality(s) \in Nat
                          /\ Cardinality(s) <= Cardinality(S)
                          /\ Cardinality(s) = 0 <=> s = {}
  BY FS_Subset, FS_CardinalityType, FS_EmptySet
<1>2. \A s \in SUBSET S : s # {} =>
        /\ First(s) \in s /\ w[First(s)] \in Int /\ s \ {First(s)} \in SUBSET S
        /\ Cardinality(s \ {First(s)}) = Cardinality(s) - 1
  BY <1>1, FirstOf, FS_RemoveElement
<1>3. Bad = {}
  <2> SUFFICES ASSUME Bad # {} PROVE FALSE
    OBVIOUS
  <2>1. PICK n \in Bad : \A k \in Bad : n <= k
    BY LeastNatural
  <2>2. n # 0
    <3> DEFINE zero == [s \in SUBSET S |-> 0]
    <3>1. zero \in [SUBSET S -> Int]
      OBVIOUS
    <3>2. ASSUME NEW s \in SUBSET S, Cardinality(s) <= 0
          PROVE  zero[s] = SumStep(w, S, zero)[s]
      <4>1. s = {}
        BY <1>1, <3>2
      <4>2. QED
        BY <4>1 DEF SumStep
    <3>3. Right(0, zero)
      BY <3>2
    <3>4. QED
      BY <3>1, <3>3
  <2>3. n \in Nat /\ n - 1 \in Nat /\ n - 1 \notin Bad
    <3>1. n \in Nat
      OBVIOUS
    <3> HIDE DEF Bad
    <3>2. QED
      BY <2>1, <2>2, <3>1
  <2>4. PICK g \in [SUBSET S -> Int] : Right(n - 1, g)
    BY <2>3
  <2> DEFINE h == SumStep(w, S, g)
  <2>5. h \in [SUBSET S -> Int]
    <3> DEFINE e(s) == IF s = {} THEN 0 ELSE w[First(s)] + g[s \ {First(s)}]
    <3>1. \A s \in SUBSET S : e(s) \in Int
      BY <1>2
    <3>2. h = [s \in SUBSET S |-> e(s)]
      BY DEF SumStep
    <3> HIDE DEF e, h
    <3>3. QED
      BY <3>1, <3>2
  <2>6. ASSUME NEW s \in SUBSET S, Cardinality(s) <= n
        PROVE  h[s] = SumStep(w, S, h)[s]
    <3>1. CASE s = {}
      BY <3>1 DEF SumStep
    <3>2. CASE s # {}
      <4> DEFINE rest == s \ {First(s)}
      <4>1. rest \in SUBSET S /\ Cardinality(rest) <= n - 1
        BY <1>1, <1>2, <2>3, <2>6, <3>2
      <4>2. g[rest] = h[rest]
        BY <2>4, <4>1
      <4>3. h[s] = w[First(s)] + g[rest]
        BY <3>2 DEF SumStep
      <4>4. SumStep(w, S, h)[s] = w[First(s)] + h[rest]
        BY <3>2 DEF SumStep
      <4>5. QED
        BY <4>2, <4>3, <4>4
    <3>3. QED
      BY <3>1, <3>2
  <2>7. Right(n, h)
    BY <2>6
  <2>8. QED
    BY <2>1, <2>5, <2>7
<1>4. Cardinality(S) \in Nat
  BY FS_CardinalityType
<1>5. PICK g \in [SUBSET S -> Int] : Right(Cardinality(S), g)
  BY <1>3, <1>4
<1>6. g = SumStep(w, S, g)
  <2>1. \A s \in SUBSET S : g[s] = SumStep(w, S, g)[s]
    BY <1>1, <1>5
  <2>2. QED
    BY <2>1 DEF SumStep
<1>7. QED
  BY <1>6 DEF IsSum

\* It is the same in any set that has the elements.
LEMMA SumAgrees ==
    ASSUME NEW w, NEW S, NEW R, NEW g, NEW h, IsSum(w, S, g), IsSum(w, R, h),
           NEW T, T \subseteq S, T \subseteq R, IsFiniteSet(T)
    PROVE  g[T] = h[T]
<1> DEFINE Bad == {s \in SUBSET T : g[s] # h[s]}
<1>1. \A s \in Bad : IsFiniteSet(s)
  BY FS_Subset
<1>2. SUFFICES ASSUME Bad # {} PROVE FALSE
  OBVIOUS
<1> HIDE DEF Bad
<1>3. PICK s \in Bad : \A t \in Bad : ~(t \subseteq s /\ t # s)
  BY <1>1, <1>2, LeastSet
<1>4. s \in SUBSET S /\ s \in SUBSET R /\ g[s] # h[s] /\ s \subseteq T
  BY DEF Bad
<1>5. s # {}
  BY <1>4, SumSteps
<1>6. First(s) \in s
  BY <1>5, FirstOf
<1>7. s \ {First(s)} \in SUBSET T /\ s \ {First(s)} \notin Bad
  BY <1>3, <1>4, <1>6
<1>8. g[s \ {First(s)}] = h[s \ {First(s)}]
  BY <1>7 DEF Bad
<1>9. QED
  BY <1>4, <1>5, <1>8, SumSteps

\* Any element of T may be taken first.
Takes(w, g, T) == \A x \in T : g[T] = w[x] + g[T \ {x}]

LEMMA SumTakes ==
    ASSUME NEW D, NEW w \in [D -> Int], NEW S \in SUBSET D, NEW g \in [SUBSET S -> Int],
           IsSum(w, S, g), NEW T \in SUBSET S, IsFiniteSet(T)
    PROVE  Takes(w, g, T)
<1> SUFFICES ASSUME NEW x \in T
             PROVE  g[T] = w[x] + g[T \ {x}]
  BY DEF Takes
<1> DEFINE Bad == {s \in SUBSET T : \E y \in s : g[s] # w[y] + g[s \ {y}]}
<1>1. \A s \in Bad : IsFiniteSet(s)
  BY FS_Subset
<1>2. SUFFICES ASSUME Bad # {} PROVE FALSE
  OBVIOUS
<1> HIDE DEF Bad
<1>3. PICK s \in Bad : \A t \in Bad : ~(t \subseteq s /\ t # s)
  BY <1>1, <1>2, LeastSet
<1>4. PICK y \in s : g[s] # w[y] + g[s \ {y}]
  BY DEF Bad
<1>5. s \subseteq T
  BY DEF Bad
<1> DEFINE f == First(s)
<1>6. f \in s /\ g[s] = w[f] + g[s \ {f}]
  BY <1>4, <1>5, FirstOf, SumSteps
<1> HIDE DEF f
<1>7. f # y
  BY <1>4, <1>6
<1>8. g[s \ {f}] = w[y] + g[(s \ {f}) \ {y}]
  <2>1. s \ {f} \in SUBSET T /\ s \ {f} \notin Bad /\ y \in s \ {f}
    BY <1>3, <1>4, <1>5, <1>6, <1>7
  <2>2. QED
    BY <2>1 DEF Bad
<1>9. g[s \ {y}] = w[f] + g[(s \ {y}) \ {f}]
  <2>1. s \ {y} \in SUBSET T /\ s \ {y} \notin Bad /\ f \in s \ {y}
    BY <1>3, <1>4, <1>5, <1>6, <1>7
  <2>2. QED
    BY <2>1 DEF Bad
<1> DEFINE c == g[(s \ {y}) \ {f}]
<1>10. g[(s \ {f}) \ {y}] = c
  <2>1. (s \ {f}) \ {y} = (s \ {y}) \ {f}
    OBVIOUS
  <2>2. QED
    BY <2>1
<1>11. /\ w[f] \in Int /\ w[y] \in Int /\ c \in Int
  BY <1>5, <1>6
<1> HIDE DEF c
<1>12. g[s] = w[f] + (w[y] + c) /\ w[y] + g[s \ {y}] = w[y] + (w[f] + c)
  BY <1>6, <1>8, <1>9, <1>10 DEF c
<1>13. QED
  BY <1>4, <1>11, <1>12

-------------------------------------------------------------------------------
(* Orders.  before[s] is what of a finite set S comes before s. *)

IsOrder(S, before) ==
  /\ before \in [S -> SUBSET S]
  /\ \A s \in S : s \notin before[s]
  /\ \A s, t \in S : s \in before[t] => before[s] \subseteq before[t]
  /\ \A s, t \in S : s # t => s \in before[t] \/ t \in before[s]

\* As many as come before it: the places of the elements are 0, 1, 2 and so on.
LEMMA Places ==
    ASSUME NEW S, IsFiniteSet(S), NEW before, IsOrder(S, before)
    PROVE  /\ \A s \in S : Cardinality(before[s]) \in 0 .. Cardinality(S) - 1
           /\ \A s, t \in S : s \in before[t] => Cardinality(before[s]) < Cardinality(before[t])
           /\ \A s, t \in S : Cardinality(before[s]) = Cardinality(before[t]) => s = t
           /\ \A i \in 0 .. Cardinality(S) - 1 : \E s \in S : Cardinality(before[s]) = i
<1> DEFINE n == Cardinality(S)
           place == [s \in S |-> Cardinality(before[s])]
<1>1. n \in Nat /\ IsFiniteSet(0 .. n - 1) /\ Cardinality(0 .. n - 1) = n
  <2>1. n \in Nat
    BY FS_CardinalityType
  <2> HIDE DEF n
  <2>2. 0 \in Int /\ n - 1 \in Int
    BY <2>1
  <2>3. IsFiniteSet(0 .. n - 1) /\ Cardinality(0 .. n - 1) = IF 0 > n - 1 THEN 0 ELSE n - 1 - 0 + 1
    BY <2>2, FS_Interval, Zenon
  <2>4. QED
    BY <2>1, <2>3
<1>2. \A s \in S : IsFiniteSet(before[s]) /\ Cardinality(before[s]) \in Nat
  BY FS_Subset, FS_CardinalityType DEF IsOrder
<1>3. ASSUME NEW s \in S PROVE Cardinality(before[s]) \in 0 .. n - 1
  <2>1. before[s] \in SUBSET S /\ before[s] # S
    BY DEF IsOrder
  <2>2. Cardinality(before[s]) <= n /\ Cardinality(before[s]) # n
    BY <2>1, FS_Subset
  <2>3. QED
    BY <1>1, <1>2, <2>2
<1>4. ASSUME NEW s \in S, NEW t \in S, s \in before[t]
      PROVE  Cardinality(before[s]) < Cardinality(before[t])
  <2>1. before[s] \in SUBSET before[t] /\ before[s] # before[t]
    BY <1>4 DEF IsOrder
  <2>2. /\ Cardinality(before[s]) <= Cardinality(before[t])
        /\ Cardinality(before[s]) # Cardinality(before[t])
    BY <1>2, <2>1, FS_Subset
  <2>3. QED
    BY <1>2, <2>2
<1>5. ASSUME NEW s \in S, NEW t \in S, Cardinality(before[s]) = Cardinality(before[t]) PROVE s = t
  BY <1>2, <1>4, <1>5 DEF IsOrder
<1>6. ASSUME NEW i \in 0 .. n - 1 PROVE \E s \in S : Cardinality(before[s]) = i
  <2>1. place \in Injection(S, 0 .. n - 1)
    BY <1>3, <1>5 DEF Injection, IsInjective
  <2>2. place \in Surjection(S, 0 .. n - 1)
    BY <1>1, <2>1, FS_Injection
  <2>3. PICK s \in S : place[s] = i
    BY <2>2 DEF Surjection
  <2>4. QED
    BY <2>3
<1>7. QED
  BY <1>3, <1>4, <1>5, <1>6

\* seq has the elements of S, each in its place.
Sorts(seq, S, before) ==
  /\ Cardinality(S) \in Nat /\ seq \in [1 .. Cardinality(S) -> S]
  /\ \A p \in 1 .. Cardinality(S) : Cardinality(before[seq[p]]) = p - 1
  /\ \A x \in S : \E p \in 1 .. Cardinality(S) : seq[p] = x
  /\ \A p, q \in 1 .. Cardinality(S) : p < q <=> seq[p] \in before[seq[q]]

LEMMA SortedSorts ==
    ASSUME NEW S, IsFiniteSet(S), NEW before, IsOrder(S, before)
    PROVE  Sorts(Sorted(S, before), S, before)
<1> DEFINE n == Cardinality(S)
           seq == Sorted(S, before)
<1>1. n \in Nat
  BY FS_CardinalityType
<1>2. seq = [i \in 1 .. n |-> CHOOSE x \in S : Cardinality(before[x]) = i - 1]
  BY DEF Sorted
<1> HIDE DEF seq, n
<1>3. /\ \A s \in S : Cardinality(before[s]) \in 0 .. n - 1
      /\ \A s, t \in S : s \in before[t] => Cardinality(before[s]) < Cardinality(before[t])
      /\ \A s, t \in S : Cardinality(before[s]) = Cardinality(before[t]) => s = t
      /\ \A i \in 0 .. n - 1 : \E s \in S : Cardinality(before[s]) = i
  BY Places DEF n
<1>4. \A p \in 1 .. n : seq[p] \in S /\ Cardinality(before[seq[p]]) = p - 1
  <2> SUFFICES ASSUME NEW p \in 1 .. n
               PROVE  seq[p] \in S /\ Cardinality(before[seq[p]]) = p - 1
    OBVIOUS
  <2>1. \E s \in S : Cardinality(before[s]) = p - 1
    <3>1. p - 1 \in 0 .. n - 1
      BY <1>1
    <3>2. QED
      BY <1>3, <3>1
  <2>2. QED
    BY <1>2, <2>1
<1>5. seq \in [1 .. n -> S]
  BY <1>2, <1>4
<1>6. ASSUME NEW x \in S PROVE \E p \in 1 .. n : seq[p] = x
  <2> DEFINE p == Cardinality(before[x]) + 1
  <2>1. p \in 1 .. n /\ p - 1 = Cardinality(before[x])
    BY <1>1, <1>3
  <2> HIDE DEF p
  <2>2. seq[p] = x
    BY <1>3, <1>4, <2>1
  <2>3. QED
    BY <2>1, <2>2
<1>7. ASSUME NEW p \in 1 .. n, NEW q \in 1 .. n PROVE p < q <=> seq[p] \in before[seq[q]]
  <2>1. /\ seq[p] \in S /\ Cardinality(before[seq[p]]) = p - 1
        /\ seq[q] \in S /\ Cardinality(before[seq[q]]) = q - 1
    BY <1>4
  <2>2. ASSUME seq[p] \in before[seq[q]] PROVE p < q
    BY <1>3, <2>1, <2>2
  <2>3. ASSUME p < q PROVE seq[p] \in before[seq[q]]
    <3>1. seq[p] # seq[q] /\ ~ seq[q] \in before[seq[p]]
      BY <1>3, <2>1, <2>3
    <3>2. QED
      BY <2>1, <3>1 DEF IsOrder
  <2>4. QED
    BY <2>2, <2>3
<1>8. QED
  BY <1>1, <1>4, <1>5, <1>6, <1>7 DEF Sorts, seq, n

-------------------------------------------------------------------------------
(* Recursion over an interval. *)

Stepped(m, n, a, step, f) == f = [i \in m .. n |-> IF i = m THEN a ELSE step[<<i, f[i - 1]>>]]

LEMMA RecursionExists ==
    ASSUME NEW m \in Nat, NEW n \in Nat, m <= n, NEW T, NEW a \in T,
           NEW step \in [(m + 1 .. n) \X T -> T]
    PROVE  \E f \in [m .. n -> T] : Stepped(m, n, a, step, f)
<1> DEFINE Right(k, f) == \A i \in m .. n : i <= k => f[i] = IF i = m THEN a ELSE step[<<i, f[i - 1]>>]
           Bad == {k \in Nat : k >= m /\ ~ \E f \in [m .. n -> T] : Right(k, f)}
<1>1. Bad = {}
  <2> SUFFICES ASSUME Bad # {} PROVE FALSE
    OBVIOUS
  <2>1. PICK k \in Bad : \A j \in Bad : k <= j
    BY LeastNatural
  <2>2. k # m
    <3> DEFINE all == [i \in m .. n |-> a]
    <3>1. all \in [m .. n -> T] /\ Right(m, all)
      OBVIOUS
    <3>2. QED
      BY <3>1
  <2>3. k \in Nat /\ k > m /\ k - 1 \in Nat /\ k - 1 >= m /\ k - 1 \notin Bad
    <3>1. k \in Nat /\ k >= m
      OBVIOUS
    <3> HIDE DEF Bad
    <3>2. QED
      BY <2>1, <2>2, <3>1
  <2>4. PICK f \in [m .. n -> T] : Right(k - 1, f)
    BY <2>3
  <2> DEFINE h == [i \in m .. n |-> IF i = m THEN a ELSE step[<<i, f[i - 1]>>]]
  <2>5. ASSUME NEW i \in m .. n, i # m
        PROVE  i - 1 \in m .. n /\ <<i, f[i - 1]>> \in (m + 1 .. n) \X T
    BY <2>5
  <2>6. h \in [m .. n -> T]
    <3> DEFINE e(i) == IF i = m THEN a ELSE step[<<i, f[i - 1]>>]
    <3>1. \A i \in m .. n : e(i) \in T
      BY <2>5
    <3>2. h = [i \in m .. n |-> e(i)]
      OBVIOUS
    <3> HIDE DEF e, h
    <3>3. QED
      BY <3>1, <3>2
  <2>7. ASSUME NEW i \in m .. n, i <= k PROVE h[i] = IF i = m THEN a ELSE step[<<i, h[i - 1]>>]
    <3>1. CASE i = m
      BY <3>1
    <3>2. CASE i # m
      <4>1. i - 1 \in m .. n /\ i - 1 <= k - 1
        BY <2>3, <2>5, <2>7, <3>2
      <4>2. h[i - 1] = f[i - 1]
        BY <2>4, <4>1
      <4>3. QED
        BY <3>2, <4>2
    <3>3. QED
      BY <3>1, <3>2
  <2>8. Right(k, h)
    BY <2>7
  <2>9. QED
    BY <2>6, <2>8
<1>2. PICK f \in [m .. n -> T] : Right(n, f)
  BY <1>1
<1>3. Stepped(m, n, a, step, f)
  <2>1. \A i \in m .. n : f[i] = IF i = m THEN a ELSE step[<<i, f[i - 1]>>]
    BY <1>2
  <2>2. QED
    BY <2>1 DEF Stepped
<1>4. QED
  BY <1>3

\* Two functions that follow the same steps are one.
LEMMA RecursionAgrees ==
    ASSUME NEW m \in Nat, NEW n \in Nat, m <= n, NEW a, NEW step, NEW f, NEW g,
           Stepped(m, n, a, step, f), Stepped(m, n, a, step, g)
    PROVE  f = g
<1> DEFINE Bad == {i \in m .. n : f[i] # g[i]}
<1>0. /\ f = [i \in m .. n |-> f[i]] /\ g = [i \in m .. n |-> g[i]]
      /\ \A i \in m .. n : /\ f[i] = IF i = m THEN a ELSE step[<<i, f[i - 1]>>]
                           /\ g[i] = IF i = m THEN a ELSE step[<<i, g[i - 1]>>]
  BY DEF Stepped
<1>1. SUFFICES ASSUME Bad # {} PROVE FALSE
  BY <1>0
<1>2. Bad \in SUBSET Nat
  OBVIOUS
<1>3. PICK i \in Bad : \A j \in Bad : i <= j
  BY <1>1, <1>2, LeastNatural
<1>4. i # m /\ i - 1 \in m .. n
  <2>1. i \in m .. n /\ f[i] # g[i]
    OBVIOUS
  <2>2. i # m
    BY <1>0, <2>1
  <2>3. QED
    BY <2>1, <2>2
<1>5. i - 1 \notin Bad
  <2>1. i \in Nat
    BY <1>2
  <2> HIDE DEF Bad
  <2>2. QED
    BY <1>3, <2>1
<1>6. f[i - 1] = g[i - 1]
  BY <1>4, <1>5
<1>7. QED
  BY <1>0, <1>4, <1>6

-------------------------------------------------------------------------------
(* Sequences that are put one after the other. *)

\* FlattenSeq, one sequence at a time.
Flattens(seqs, n, flat) ==
  /\ flat[1] = seqs[1]
  /\ \A i \in 2 .. n : flat[i] = flat[i - 1] \o seqs[i]
  /\ FlattenSeq(seqs) = flat[n]

LEMMA FlattenSteps ==
    ASSUME NEW T, NEW n \in Nat \ {0}, NEW seqs \in [1 .. n -> Seq(T)]
    PROVE  \E flat \in [1 .. n -> Seq(T)] : Flattens(seqs, n, flat)
<1> DEFINE step == [x \in (2 .. n) \X Seq(T) |-> x[2] \o seqs[x[1]]]
           Step(f) == [i \in 1 .. n |-> IF i = 1 THEN seqs[i] ELSE f[i - 1] \o seqs[i]]
           c == CHOOSE f : f = Step(f)
<1>1. step \in [(1 + 1 .. n) \X Seq(T) -> Seq(T)]
  <2>1. \A x \in (2 .. n) \X Seq(T) : x[2] \o seqs[x[1]] \in Seq(T)
    <3> SUFFICES ASSUME NEW x \in (2 .. n) \X Seq(T) PROVE x[2] \o seqs[x[1]] \in Seq(T)
      OBVIOUS
    <3>1. x[2] \in Seq(T) /\ seqs[x[1]] \in Seq(T)
      OBVIOUS
    <3>2. QED
      BY <3>1, ConcatProperties
  <2>2. 1 + 1 = 2
    OBVIOUS
  <2>3. QED
    BY <2>1, <2>2
<1>2. seqs[1] \in Seq(T) /\ 1 <= n
  OBVIOUS
<1> HIDE DEF step
<1>3. PICK f \in [1 .. n -> Seq(T)] : Stepped(1, n, seqs[1], step, f)
  BY <1>1, <1>2, RecursionExists
<1>4. \A i \in 2 .. n : step[<<i, f[i - 1]>>] = f[i - 1] \o seqs[i]
  <2> SUFFICES ASSUME NEW i \in 2 .. n PROVE step[<<i, f[i - 1]>>] = f[i - 1] \o seqs[i]
    OBVIOUS
  <2>1. <<i, f[i - 1]>> \in (2 .. n) \X Seq(T)
    <3>1. i - 1 \in 1 .. n
      OBVIOUS
    <3>2. QED
      BY <3>1
  <2>2. QED
    BY <2>1 DEF step
<1>5. \A i \in 1 .. n : f[i] = IF i = 1 THEN seqs[i] ELSE f[i - 1] \o seqs[i]
  <2>1. \A i \in 1 .. n : f[i] = IF i = 1 THEN seqs[1] ELSE step[<<i, f[i - 1]>>]
    BY <1>3 DEF Stepped
  <2>2. \A i \in 1 .. n : i = 1 \/ i \in 2 .. n
    OBVIOUS
  <2>3. QED
    BY <1>4, <2>1, <2>2
<1>6. f = Step(f)
  BY <1>5
<1>7. c = Step(c)
  BY <1>6, Zenon
<1>8. FlattenSeq(seqs) = c[n]
  <2>1. Len(seqs) = n /\ n # 0
    OBVIOUS
  <2> QED
    BY <2>1 DEF FlattenSeq
<1> HIDE DEF c
<1>9. c = f
  <2> DEFINE Bad == {i \in 1 .. n : c[i] # f[i]}
  <2>1. \A i \in 1 .. n : c[i] = IF i = 1 THEN seqs[i] ELSE c[i - 1] \o seqs[i]
    BY <1>7
  <2>2. ASSUME Bad # {} PROVE FALSE
    <3>1. PICK i \in Bad : \A j \in Bad : i <= j
      <4>1. Bad \in SUBSET Nat
        OBVIOUS
      <4> HIDE DEF Bad
      <4>2. QED
        BY <2>2, <4>1, LeastNatural
    <3>2. i \in 1 .. n /\ c[i] # f[i]
      OBVIOUS
    <3>3. i # 1
      BY <1>5, <2>1, <3>2
    <3>4. i - 1 \in 1 .. n /\ ~(i <= i - 1)
      BY <3>2, <3>3
    <3>5. c[i - 1] = f[i - 1]
      BY <3>1, <3>4
    <3>6. QED
      BY <1>5, <2>1, <3>2, <3>3, <3>5
  <2>3. \A i \in 1 .. n : c[i] = f[i]
    BY <2>2
  <2>4. c = [i \in 1 .. n |-> c[i]] /\ f = [i \in 1 .. n |-> f[i]]
    BY <1>7
  <2>5. QED
    BY <2>3, <2>4
<1>10. \A i \in 2 .. n : i \in 1 .. n /\ i # 1
  OBVIOUS
<1>11. n \in 1 .. n /\ 1 \in 1 .. n
  OBVIOUS
<1>12. Flattens(seqs, n, f)
  BY <1>5, <1>8, <1>9, <1>10, <1>11 DEF Flattens
<1>13. QED
  BY <1>12

\* Where the p-th sequence begins: flat holds what seqs hold, in their order.
Concatenated(seqs, n, flat, begins) ==
  /\ \A p \in 1 .. n, q \in Nat :
        q \in 1 .. Len(seqs[p]) => /\ begins[p] + q \in 1 .. Len(flat)
                                   /\ flat[begins[p] + q] = seqs[p][q]
  /\ \A j \in 1 .. Len(flat) : \E p \in 1 .. n : \E q \in 1 .. Len(seqs[p]) : j = begins[p] + q

LEMMA Concatenation ==
    ASSUME NEW T, NEW n \in Nat \ {0}, NEW seqs \in [1 .. n -> Seq(T)]
    PROVE  /\ FlattenSeq(seqs) \in Seq(T)
           /\ \E begins \in [1 .. n -> Nat] : Concatenated(seqs, n, FlattenSeq(seqs), begins)
<1>0. PICK flat \in [1 .. n -> Seq(T)] : Flattens(seqs, n, flat)
  BY FlattenSteps
<1>1. /\ flat[1] = seqs[1]
      /\ \A i \in 2 .. n : flat[i] = flat[i - 1] \o seqs[i]
      /\ FlattenSeq(seqs) = flat[n]
  BY <1>0 DEF Flattens
<1> DEFINE begins == [p \in 1 .. n |-> IF p = 1 THEN 0 ELSE Len(flat[p - 1])]
           Bad == {m \in 1 .. n : ~Concatenated(seqs, m, flat[m], begins)}
<1>2. begins \in [1 .. n -> Nat] /\ begins[1] = 0 /\ \A p \in 2 .. n : begins[p] = Len(flat[p - 1])
  <2>1. \A p \in 1 .. n : p # 1 => Len(flat[p - 1]) \in Nat
    <3> SUFFICES ASSUME NEW p \in 1 .. n, p # 1 PROVE Len(flat[p - 1]) \in Nat
      OBVIOUS
    <3>1. p - 1 \in 1 .. n
      OBVIOUS
    <3>2. QED
      BY <3>1, LenProperties
  <2>2. QED
    BY <2>1
<1> HIDE DEF begins
<1>3. ASSUME NEW m \in Bad, \A k \in Bad : m <= k PROVE FALSE
  <2>1. m \in 1 .. n /\ ~Concatenated(seqs, m, flat[m], begins)
    OBVIOUS
  <2>2. m # 1
    <3>1. Concatenated(seqs, 1, flat[1], begins)
      <4>1. seqs[1] \in Seq(T)
        OBVIOUS
      <4>2. Len(seqs[1]) \in Nat
        BY <4>1, LenProperties
      <4>3. \A p \in 1 .. 1 : begins[p] = 0 /\ seqs[p] = flat[1]
        BY <1>1, <1>2
      <4>4. ASSUME NEW p \in 1 .. 1, NEW q \in Nat, q \in 1 .. Len(seqs[p])
            PROVE  begins[p] + q \in 1 .. Len(flat[1]) /\ flat[1][begins[p] + q] = seqs[p][q]
        <5>1. begins[p] + q = q
          BY <4>3
        <5>2. QED
          BY <4>3, <4>4, <5>1
      <4>5. ASSUME NEW j \in 1 .. Len(flat[1])
            PROVE  \E p \in 1 .. 1 : \E q \in 1 .. Len(seqs[p]) : j = begins[p] + q
        <5>1. 1 \in 1 .. 1 /\ j \in 1 .. Len(seqs[1]) /\ j = begins[1] + j
          BY <1>1, <1>2, <4>2
        <5>2. QED
          BY <5>1
      <4>6. QED
        BY <4>4, <4>5 DEF Concatenated
    <3>2. QED
      BY <2>1, <3>1
  <2>3. m - 1 \in 1 .. n /\ m \in 2 .. n /\ m - 1 \notin Bad
    <3>1. m - 1 \in 1 .. n /\ m \in 2 .. n /\ ~(m <= m - 1)
      BY <2>1, <2>2
    <3> HIDE DEF Bad
    <3>2. QED
      BY <1>3, <3>1
  <2> DEFINE old == flat[m - 1]
             new == seqs[m]
             both == flat[m]
  <2>4. old \in Seq(T) /\ new \in Seq(T) /\ both = old \o new /\ begins[m] = Len(old)
    BY <1>1, <1>2, <2>1, <2>3
  <2>5. Concatenated(seqs, m - 1, old, begins)
    BY <2>3
  <2>6. /\ Len(old) \in Nat /\ Len(new) \in Nat /\ Len(both) = Len(old) + Len(new)
        /\ \A i \in 1 .. Len(old) + Len(new) : both[i] = IF i <= Len(old) THEN old[i] ELSE new[i - Len(old)]
    BY <2>4, ConcatProperties, LenProperties
  <2> HIDE DEF old, both, Bad
  <2>7. ASSUME NEW p \in 1 .. m, NEW q \in Nat, q \in 1 .. Len(seqs[p])
        PROVE  begins[p] + q \in 1 .. Len(both) /\ both[begins[p] + q] = seqs[p][q]
    <3>1. CASE p = m
      <4>1. begins[p] = Len(old) /\ seqs[p] = new /\ q \in 1 .. Len(new)
        BY <2>4, <2>7, <3>1
      <4> DEFINE j == Len(old) + q
      <4>2. j \in 1 .. Len(old) + Len(new) /\ ~(j <= Len(old)) /\ j - Len(old) = q
        BY <2>6, <4>1
      <4>3. begins[p] + q = j
        BY <4>1
      <4> HIDE DEF j, new
      <4>4. j \in 1 .. Len(both) /\ both[j] = new[q]
        BY <2>6, <4>2
      <4>5. QED
        BY <4>1, <4>3, <4>4
    <3>2. CASE p # m
      <4>1. p \in 1 .. m - 1
        BY <2>1, <3>2
      <4>2. begins[p] + q \in 1 .. Len(old) /\ old[begins[p] + q] = seqs[p][q]
        BY <2>5, <2>7, <4>1 DEF Concatenated
      <4> DEFINE j == begins[p] + q
      <4> HIDE DEF j, new
      <4>3. j \in 1 .. Len(old) /\ old[j] = seqs[p][q]
        BY <4>2 DEF j
      <4>4. j \in 1 .. Len(old) + Len(new) /\ j <= Len(old)
        BY <2>6, <4>3
      <4>5. j \in 1 .. Len(both) /\ both[j] = old[j]
        BY <2>6, <4>4
      <4>6. QED
        BY <4>3, <4>5 DEF j
    <3>3. QED
      BY <3>1, <3>2
  <2>8. ASSUME NEW j \in 1 .. Len(both)
        PROVE  \E p \in 1 .. m : \E q \in 1 .. Len(seqs[p]) : j = begins[p] + q
    <3>1. CASE j <= Len(old)
      <4>1. j \in 1 .. Len(old)
        BY <2>6, <3>1
      <4>2. PICK p \in 1 .. m - 1 : \E q \in 1 .. Len(seqs[p]) : j = begins[p] + q
        BY <2>5, <4>1 DEF Concatenated
      <4>3. p \in 1 .. m
        BY <2>1
      <4>4. QED
        BY <4>2, <4>3
    <3>2. CASE ~(j <= Len(old))
      <4>1. j - Len(old) \in 1 .. Len(seqs[m]) /\ j = begins[m] + (j - Len(old)) /\ m \in 1 .. m
        BY <2>1, <2>4, <2>6, <3>2
      <4>2. QED
        BY <4>1
    <3>3. QED
      BY <3>1, <3>2
  <2>9. Concatenated(seqs, m, both, begins)
    BY <2>7, <2>8 DEF Concatenated
  <2>10. QED
    BY <2>1, <2>9 DEF both
<1>4. Bad = {}
  <2>1. Bad \in SUBSET Nat
    OBVIOUS
  <2> HIDE DEF Bad
  <2>2. QED
    BY <1>3, <2>1, LeastNatural
<1>5. Concatenated(seqs, n, flat[n], begins)
  <2>1. n \in 1 .. n
    OBVIOUS
  <2>2. QED
    BY <1>4, <2>1
<1>6. FlattenSeq(seqs) = flat[n] /\ flat[n] \in Seq(T)
  <2>1. n \in 1 .. n
    OBVIOUS
  <2>2. QED
    BY <1>1, <2>1
<1>7. QED
  BY <1>2, <1>5, <1>6

-------------------------------------------------------------------------------
(* Sums, by the community modules' SumFunction: of sums, of multiples, of matrices. *)

\* The sum of w over T.
SumOver(w, T) == SumFunction([i \in T |-> w[i]])

\* What a sum is of.
Terms(w, D) == w \in [D -> Int] /\ IsFiniteSet(D)

\* v is the sum of w over S, in the sense of FoldLemmas.
SumsTo(w, S, v) == \E g \in [SUBSET S -> Int] : IsSum(w, S, g) /\ v = g[S]

\* It is one of the sums of FoldLemmas.
LEMMA OverIsSum ==
  ASSUME NEW D, NEW w, Terms(w, D), NEW S, S \in SUBSET D
  PROVE  SumsTo(w, S, SumOver(w, S))
<1> DEFINE v == [i \in S |-> w[i]]
           Step(g) == [s \in SUBSET S |-> IF s = {} THEN 0 ELSE v[First(s)] + g[s \ {First(s)}]]
           c == CHOOSE g : g = Step(g)
<1>0. w \in [D -> Int] /\ IsFiniteSet(S)
  BY FS_Subset DEF Terms
<1>1. PICK g \in [SUBSET S -> Int] : IsSum(w, S, g)
  BY <1>0, SumExists
<1>2. \A h : SumStep(w, S, h) = Step(h)
  <2>1. \A s \in SUBSET S : s # {} => w[First(s)] = v[First(s)]
    BY FirstOf
  <2>2. QED
    BY <2>1 DEF SumStep
<1>3. g = Step(g)
  BY <1>1, <1>2 DEF IsSum
<1>4. c = Step(c)
  BY <1>3, Zenon
<1>5. SumFunction(v) = c[DOMAIN v]
  BY DEF SumFunction, SumFunctionOnSet, FoldFunctionOnSet, MapThenFoldSet, First
<1>6. DOMAIN v = S /\ SumOver(w, S) = SumFunction(v)
  BY DEF SumOver
<1> HIDE DEF c, Step, v
<1>7. IsSum(w, S, c)
  BY <1>2, <1>4 DEF IsSum
<1>8. c[S] = g[S]
  BY <1>0, <1>1, <1>7, SumAgrees
<1>9. QED
  BY <1>1, <1>5, <1>6, <1>8 DEF SumsTo

\* Nothing adds up to nothing, and a sum is any of its terms and the sum of the others.
LEMMA OverTakes ==
  ASSUME NEW D, NEW w, Terms(w, D), NEW S, S \in SUBSET D
  PROVE  /\ SumOver(w, {}) = 0 /\ SumOver(w, S) \in Int
         /\ \A x \in S : SumOver(w, S) = w[x] + SumOver(w, S \ {x})
<1>1. SumOver(w, {}) = 0
  <2>1. PICK g \in [SUBSET {} -> Int] : IsSum(w, {}, g) /\ SumOver(w, {}) = g[{}]
    BY OverIsSum DEF SumsTo
  <2>2. QED
    BY <2>1, SumSteps
<1>2. PICK g \in [SUBSET S -> Int] : IsSum(w, S, g) /\ SumOver(w, S) = g[S]
  <2>1. SumsTo(w, S, SumOver(w, S))
    BY OverIsSum
  <2>2. QED
    BY <2>1 DEF SumsTo
<1>0. w \in [D -> Int] /\ IsFiniteSet(S)
  BY FS_Subset DEF Terms
<1>3. ASSUME NEW x \in S PROVE SumOver(w, S) = w[x] + SumOver(w, S \ {x})
  <2> DEFINE R == S \ {x}
  <2>1. R \in SUBSET D /\ R \subseteq S /\ IsFiniteSet(R)
    BY <1>0, FS_Subset
  <2>2. PICK h \in [SUBSET R -> Int] : IsSum(w, R, h) /\ SumOver(w, R) = h[R]
    <3>1. SumsTo(w, R, SumOver(w, R))
      BY <2>1, OverIsSum
    <3>2. QED
      BY <3>1 DEF SumsTo
  <2>3. Takes(w, g, S)
    BY <1>0, <1>2, SumTakes
  <2>4. g[S] = w[x] + g[R]
    BY <2>3 DEF Takes
  <2> HIDE DEF R
  <2>5. h[R] = g[R]
    BY <1>2, <2>1, <2>2, SumAgrees
  <2>6. QED
    BY <1>2, <2>2, <2>4, <2>5 DEF R
<1>4. QED
  BY <1>1, <1>2, <1>3

\* What holds of no terms, and of some whenever it holds of all of them but one, holds of all.
\* Any set in D has something to leave out whose return does not take it out of Good.
Grows(D, Good) == \A T \in SUBSET D : T # {} => \E x \in T : T \ {x} \in Good => T \in Good

\* So what holds of nothing and is kept so holds of D: the least set it fails of is none.
LEMMA SetInduction ==
  ASSUME NEW D, IsFiniteSet(D), NEW Good, {} \in Good, Grows(D, Good)
  PROVE  D \in Good
<1> DEFINE Bad == {T \in SUBSET D : T \notin Good}
<1> SUFFICES ASSUME Bad # {} PROVE FALSE
  OBVIOUS
<1>1. \A T \in Bad : IsFiniteSet(T)
  BY FS_Subset
<1>2. PICK least \in Bad : \A T \in Bad : ~(T \subseteq least /\ T # least)
  <2> HIDE DEF Bad
  <2>1. QED
    BY <1>1, LeastSet
<1>3. least # {} /\ least \in SUBSET D
  OBVIOUS
<1>4. PICK x \in least : least \ {x} \in Good => least \in Good
  BY <1>3 DEF Grows
<1>5. least \ {x} \in SUBSET D /\ least \ {x} \subseteq least /\ least \ {x} # least
  BY <1>3
<1>6. QED
  BY <1>2, <1>4, <1>5

\* The sum of sums.
LEMMA OverPlus ==
  ASSUME NEW D, NEW a, NEW b, NEW c, Terms(a, D), Terms(b, D), Terms(c, D),
         \A i \in D : c[i] = a[i] + b[i]
  PROVE  SumOver(c, D) = SumOver(a, D) + SumOver(b, D)
<1> DEFINE Good == {T \in SUBSET D : SumOver(c, T) = SumOver(a, T) + SumOver(b, T)}
<1>1. {} \in Good
  BY OverTakes
<1>2. ASSUME NEW T \in SUBSET D, NEW x \in T, T \ {x} \in Good PROVE T \in Good
  <2> DEFINE R == T \ {x}
  <2>1. T \in SUBSET D /\ R \in SUBSET D
    OBVIOUS
  <2>2. /\ SumOver(c, T) = c[x] + SumOver(c, R) /\ SumOver(a, T) = a[x] + SumOver(a, R)
        /\ SumOver(b, T) = b[x] + SumOver(b, R)
    BY <2>1, OverTakes
  <2>3. SumOver(a, R) \in Int /\ SumOver(b, R) \in Int /\ a[x] \in Int /\ b[x] \in Int
    BY <2>1, OverTakes DEF Terms
  <2>4. SumOver(c, R) = SumOver(a, R) + SumOver(b, R) /\ c[x] = a[x] + b[x]
    BY <1>2
  <2> HIDE DEF R
  <2>5. SumOver(c, T) = SumOver(a, T) + SumOver(b, T)
    BY <2>2, <2>3, <2>4
  <2>6. QED
    BY <2>5
<1>3. Grows(D, Good)
  BY <1>2 DEF Grows
<1> HIDE DEF Good
<1>4. D \in Good
  BY <1>1, <1>3, SetInduction DEF Terms
<1>5. QED
  BY <1>4 DEF Good

\* A factor of all terms is one of the sum.
LEMMA OverTimes ==
  ASSUME NEW D, NEW a, NEW c, Terms(a, D), Terms(c, D), NEW k, k \in Int,
         \A i \in D : c[i] = k * a[i]
  PROVE  SumOver(c, D) = k * SumOver(a, D)
<1> DEFINE Good == {T \in SUBSET D : SumOver(c, T) = k * SumOver(a, T)}
<1>1. {} \in Good
  <2>1. SumOver(c, {}) = 0 /\ SumOver(a, {}) = 0
    BY OverTakes
  <2>2. QED
    BY <2>1
<1>2. ASSUME NEW T \in SUBSET D, NEW x \in T, T \ {x} \in Good PROVE T \in Good
  <2> DEFINE R == T \ {x}
  <2>1. T \in SUBSET D /\ R \in SUBSET D
    OBVIOUS
  <2>2. SumOver(c, T) = c[x] + SumOver(c, R) /\ SumOver(a, T) = a[x] + SumOver(a, R)
    BY <2>1, OverTakes
  <2>3. SumOver(a, R) \in Int /\ a[x] \in Int
    BY <2>1, OverTakes DEF Terms
  <2>4. SumOver(c, R) = k * SumOver(a, R) /\ c[x] = k * a[x]
    BY <1>2
  <2> HIDE DEF R
  <2>5. k * a[x] + k * SumOver(a, R) = k * (a[x] + SumOver(a, R))
    <3>1. \A p, q \in Int : k * p + k * q = k * (p + q)
      OBVIOUS
    <3>2. QED
      BY <2>3, <3>1
  <2>6. SumOver(c, T) = k * SumOver(a, T)
    BY <2>2, <2>4, <2>5
  <2>7. QED
    BY <2>6
<1>3. Grows(D, Good)
  BY <1>2 DEF Grows
<1> HIDE DEF Good
<1>4. D \in Good
  BY <1>1, <1>3, SetInduction DEF Terms
<1>5. QED
  BY <1>4 DEF Good

\* A sum of zeros is zero.
LEMMA OverZero ==
  ASSUME NEW D, NEW w, Terms(w, D), NEW S, S \in SUBSET D, \A i \in S : w[i] = 0
  PROVE  SumOver(w, S) = 0
<1> DEFINE Good == {T \in SUBSET S : SumOver(w, T) = 0}
<1>1. {} \in Good
  BY OverTakes
<1>2. ASSUME NEW T \in SUBSET S, NEW x \in T, T \ {x} \in Good PROVE T \in Good
  <2> DEFINE R == T \ {x}
  <2>1. T \in SUBSET D /\ w[x] = 0 /\ SumOver(w, R) = 0
    BY <1>2
  <2>2. SumOver(w, T) = w[x] + SumOver(w, R)
    BY <2>1, OverTakes
  <2> HIDE DEF R
  <2>3. SumOver(w, T) = 0
    BY <2>1, <2>2
  <2>4. QED
    BY <2>3
<1>3. Grows(S, Good)
  BY <1>2 DEF Grows
<1>4. IsFiniteSet(S)
  BY FS_Subset DEF Terms
<1> HIDE DEF Good
<1>5. S \in Good
  BY <1>1, <1>3, <1>4, SetInduction
<1>6. QED
  BY <1>5 DEF Good

\* A sum with one term that counts is that term.
LEMMA OverOne ==
  ASSUME NEW D, NEW w, Terms(w, D), NEW x, x \in D, \A i \in D : i # x => w[i] = 0
  PROVE  SumOver(w, D) = w[x]
<1>1. D \in SUBSET D /\ D \ {x} \in SUBSET D /\ \A i \in D \ {x} : w[i] = 0
  OBVIOUS
<1>2. SumOver(w, D) = w[x] + SumOver(w, D \ {x})
  BY <1>1, OverTakes
<1>3. SumOver(w, D \ {x}) = 0
  BY <1>1, OverZero
<1>4. w[x] \in Int
  BY DEF Terms
<1>5. QED
  BY <1>2, <1>3, <1>4

\* A matrix of whole numbers, its rows and its columns summed.
Grid(a, D, E) == a \in [D -> [E -> Int]] /\ IsFiniteSet(D) /\ IsFiniteSet(E)
Column(a, D, j) == [i \in D |-> a[i][j]]
RowSums(a, D, E) == [i \in D |-> SumOver(a[i], E)]
ColumnSums(a, D, E, T) == [j \in E |-> SumOver(Column(a, D, j), T)]

\* The rows and columns of a matrix, and the sums of either, can be summed.
LEMMA GridTerms ==
  ASSUME NEW D, NEW E, NEW a, Grid(a, D, E)
  PROVE  /\ \A i \in D : Terms(a[i], E)
         /\ \A j \in E : Terms(Column(a, D, j), D)
         /\ Terms(RowSums(a, D, E), D)
         /\ \A T \in SUBSET D : Terms(ColumnSums(a, D, E, T), E)
<1>1. ASSUME NEW i \in D PROVE Terms(a[i], E) /\ SumOver(a[i], E) \in Int
  <2>1. Terms(a[i], E) /\ E \in SUBSET E
    BY DEF Grid, Terms
  <2>2. QED
    BY <2>1, OverTakes
<1>2. ASSUME NEW j \in E PROVE Terms(Column(a, D, j), D) /\ \A T \in SUBSET D : SumOver(Column(a, D, j), T) \in Int
  <2>1. Terms(Column(a, D, j), D)
    BY DEF Grid, Terms, Column
  <2>2. QED
    BY <2>1, OverTakes
<1>3. QED
  BY <1>1, <1>2 DEF Terms, RowSums, ColumnSums, Grid

\* Sums of sums may be taken in either order.
LEMMA OverExchange ==
  ASSUME NEW D, NEW E, NEW a, Grid(a, D, E)
  PROVE  SumOver(RowSums(a, D, E), D) = SumOver(ColumnSums(a, D, E, D), E)
<1> DEFINE rows == RowSums(a, D, E)
           Columns(T) == ColumnSums(a, D, E, T)
           Good == {T \in SUBSET D : SumOver(rows, T) = SumOver(Columns(T), E)}
<1>0. /\ \A i \in D : Terms(a[i], E)
      /\ \A j \in E : Terms(Column(a, D, j), D)
      /\ Terms(rows, D)
      /\ \A T \in SUBSET D : Terms(Columns(T), E)
  BY GridTerms
<1>1. {} \in Good
  <2>1. {} \in SUBSET D /\ E \in SUBSET E
    OBVIOUS
  <2>2. SumOver(rows, {}) = 0
    BY <1>0, <2>1, OverTakes
  <2>3. \A j \in E : Columns({})[j] = 0
    <3>1. ASSUME NEW j \in E PROVE SumOver(Column(a, D, j), {}) = 0
      <4>1. Terms(Column(a, D, j), D)
        BY <1>0
      <4> HIDE DEF Column
      <4>2. QED
        BY <2>1, <4>1, OverTakes
    <3>2. QED
      BY <3>1 DEF ColumnSums
  <2>4. Terms(Columns({}), E)
    BY <1>0, <2>1
  <2> HIDE DEF Columns
  <2>5. SumOver(Columns({}), E) = 0
    BY <2>1, <2>3, <2>4, OverZero
  <2>6. QED
    BY <2>1, <2>2, <2>5
<1>2. ASSUME NEW T \in SUBSET D, NEW x \in T, T \ {x} \in Good PROVE T \in Good
  <2> DEFINE R == T \ {x}
  <2>1. T \in SUBSET D /\ R \in SUBSET D /\ E \in SUBSET E /\ x \in D
    OBVIOUS
  <2>2. SumOver(rows, T) = rows[x] + SumOver(rows, R)
    BY <1>0, <2>1, OverTakes
  <2>3. rows[x] = SumOver(a[x], E)
    BY <2>1 DEF RowSums
  <2>4. \A j \in E : Columns(T)[j] = a[x][j] + Columns(R)[j]
    <3>1. ASSUME NEW j \in E
          PROVE  SumOver(Column(a, D, j), T) = a[x][j] + SumOver(Column(a, D, j), R)
      <4>1. Terms(Column(a, D, j), D) /\ Column(a, D, j)[x] = a[x][j]
        BY <1>0, <2>1 DEF Column
      <4> HIDE DEF Column
      <4>2. SumOver(Column(a, D, j), T) = Column(a, D, j)[x] + SumOver(Column(a, D, j), R)
        BY <2>1, <4>1, OverTakes
      <4>3. QED
        BY <4>1, <4>2
    <3>2. QED
      BY <3>1 DEF ColumnSums
  <2>5. Terms(Columns(T), E) /\ Terms(Columns(R), E) /\ Terms(a[x], E)
    BY <1>0, <2>1
  <2>6. SumOver(Columns(T), E) = SumOver(a[x], E) + SumOver(Columns(R), E)
    <3> HIDE DEF Columns, R
    <3>1. QED
      BY <2>4, <2>5, OverPlus
  <2>7. SumOver(rows, R) = SumOver(Columns(R), E)
    BY <1>2
  <2> HIDE DEF Columns, R, rows
  <2>8. SumOver(rows, T) = SumOver(Columns(T), E)
    BY <2>2, <2>3, <2>6, <2>7
  <2>9. QED
    BY <2>8
<1>3. Grows(D, Good)
  BY <1>2 DEF Grows
<1>4. IsFiniteSet(D)
  BY DEF Grid
<1> HIDE DEF Good
<1>5. D \in Good
  BY <1>1, <1>3, <1>4, SetInduction
<1>6. QED
  BY <1>5 DEF Good
===============================================================================
