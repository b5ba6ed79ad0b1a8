-------------------------------- MODULE Sums --------------------------------
(***************************************************************************)
(* Facts about sums, counts and ranks of finite sets, which the components *)
(* add up and sort by, and the inductions they rest on: over sets of good  *)
(* numbers and of good subsets.                                            *)
(***************************************************************************)
EXTENDS FiniteSetsExt, FiniteSetTheorems, WellFoundedInduction, TLAPS

(* Every number is good when zero is, and what follows a good one.         *)
LEMMA CountingUp ==
  ASSUME NEW good, 0 \in good, \A n \in Nat : n \in good => n + 1 \in good
  PROVE  Nat \subseteq good
<1> DEFINE below == {pair \in Nat \X Nat : pair[1] < pair[2]}
           bad == Nat \ good
<1>1. IsWellFoundedOn(below, Nat)
  BY NatLessThanWellFounded DEF OpToRel
<1> SUFFICES ASSUME bad # {} PROVE FALSE
  OBVIOUS
<1>2. PICK least \in bad : \A n \in bad : <<n, least>> \notin below
  <2>1. bad \subseteq Nat
    OBVIOUS
  <2> HIDE DEF below, bad
  <2> QED BY <1>1, <2>1, WFMin
<1>3. least \in Nat /\ least # 0 /\ least - 1 \in Nat
  OBVIOUS
<1>4. least - 1 \notin bad
  <2>1. <<least - 1, least>> \in below
    BY <1>3
  <2> HIDE DEF below, bad
  <2> QED BY <1>2, <2>1
<1>5. least - 1 + 1 \in good
  BY <1>3, <1>4
<1> QED
  BY <1>3, <1>5

(* A finite set is good when the empty one is, and a good subset with one  *)
(* element more.                                                           *)
LEMMA OneByOne ==
  ASSUME NEW S, IsFiniteSet(S), NEW good, {} \in good,
         \A T \in SUBSET S : \A x \in S \ T : T \in good => T \union {x} \in good
  PROVE  S \in good
<1> DEFINE sized == {n \in Nat : \A T \in SUBSET S : Cardinality(T) = n => T \in good}
<1>1. \A T \in SUBSET S : IsFiniteSet(T) /\ Cardinality(T) \in Nat
  BY FS_Subset, FS_CardinalityType
<1>2. 0 \in sized
  <2>1. \A T \in SUBSET S : Cardinality(T) = 0 => T = {}
    BY <1>1, FS_EmptySet
  <2> QED BY <2>1
<1>3. ASSUME NEW n \in Nat, n \in sized PROVE n + 1 \in sized
  <2> SUFFICES ASSUME NEW T \in SUBSET S, Cardinality(T) = n + 1 PROVE T \in good
    OBVIOUS
  <2>1. PICK x \in T : TRUE
    <3>1. Cardinality(T) # 0
      OBVIOUS
    <3>2. T # {}
      BY <3>1, FS_EmptySet
    <3> QED BY <3>2
  <2>2. Cardinality(T \ {x}) = n
    <3>1. Cardinality(T \ {x}) = Cardinality(T) - 1
      BY <1>1, <2>1, FS_RemoveElement
    <3> QED BY <3>1
  <2>3. T \ {x} \in good
    BY <1>3, <2>2
  <2>4. (T \ {x}) \union {x} = T
    BY <2>1
  <2> QED
    BY <2>1, <2>3, <2>4
<1>4. Nat \subseteq sized
  <2> HIDE DEF sized
  <2> QED BY <1>2, <1>3, CountingUp
<1> QED
  BY <1>1, <1>4

(* A recursion over 0..N has a solution.                                   *)
Steps(N, base, step, g) == g = [n \in 0..N |-> IF n = 0 THEN base ELSE step[n][g[n - 1]]]

LEMMA StepByStep ==
  ASSUME NEW N \in Nat, NEW V, NEW base \in V, NEW step,
         \A n \in 1..N : \A v \in V : step[n][v] \in V
  PROVE  \E g \in [0..N -> V] : Steps(N, base, step, g)
<1> DEFINE next(g, n) == IF n = 0 THEN base ELSE step[n][g[n - 1]]
           good == {m \in Nat : \E g \in [0..N -> V] : \A n \in 0..N : n <= m => g[n] = next(g, n)}
<1>1. 0 \in good
  <2> DEFINE g == [n \in 0..N |-> base]
  <2>1. g \in [0..N -> V] /\ \A n \in 0..N : n <= 0 => g[n] = next(g, n)
    OBVIOUS
  <2> QED
    BY <2>1
<1>2. ASSUME NEW m \in Nat, m \in good PROVE m + 1 \in good
  <2>1. PICK g \in [0..N -> V] : \A n \in 0..N : n <= m => g[n] = next(g, n)
    BY <1>2
  <2> DEFINE h == [n \in 0..N |-> next(g, n)]
  <2>2. ASSUME NEW n \in 0..N PROVE next(g, n) \in V
    <3>1. CASE n = 0
      BY <3>1
    <3>2. CASE n # 0
      <4>1. n \in 1..N /\ g[n - 1] \in V
        BY <3>2
      <4> QED
        BY <4>1, <3>2
    <3> QED
      BY <3>1, <3>2
  <2>3. h \in [0..N -> V]
    <3> HIDE DEF next
    <3> QED
      BY <2>2
  <2>4. ASSUME NEW n \in 0..N, n <= m + 1 PROVE h[n] = next(h, n)
    <3>1. CASE n = 0
      BY <3>1
    <3>2. CASE n # 0
      <4>1. n - 1 \in 0..N /\ n - 1 <= m
        BY <2>4, <3>2
      <4>2. h[n - 1] = g[n - 1]
        <5> HIDE DEF next
        <5> QED
          BY <2>1, <4>1
      <4>3. h[n] = step[n][g[n - 1]]
        BY <3>2
      <4> HIDE DEF h
      <4> QED
        BY <3>2, <4>2, <4>3
    <3> QED
      BY <3>1, <3>2
  <2>5. \E some \in [0..N -> V] : \A n \in 0..N : n <= m + 1 => some[n] = next(some, n)
    <3> HIDE DEF h, next
    <3>1. h \in [0..N -> V]
      BY <2>3
    <3> WITNESS h \in [0..N -> V]
    <3> QED
      BY <2>4
  <2> QED
    BY <2>5
<1>3. N \in good
  <2> HIDE DEF good
  <2> QED
    BY <1>1, <1>2, CountingUp
<1>4. PICK g \in [0..N -> V] : \A n \in 0..N : n <= N => g[n] = next(g, n)
  BY <1>3
<1>5. g = [n \in 0..N |-> next(g, n)]
  <2> HIDE DEF next
  <2>1. \A n \in 0..N : g[n] = next(g, n)
    BY <1>4
  <2> QED
    BY <2>1
<1> QED
  BY <1>5 DEF Steps

-----------------------------------------------------------------------------
(* The recursion that a sum is.                                            *)

SomeOf(s) == CHOOSE x \in s : TRUE

Recursion(f, S, g) ==
  g = [s \in SUBSET S |-> IF s = {} THEN 0 ELSE f[SomeOf(s)] + g[s \ {SomeOf(s)}]]

LEMMA SomeOfIsIn ==
  ASSUME NEW s, s # {} PROVE SomeOf(s) \in s
BY DEF SomeOf

(* It has a solution.                                                      *)
LEMMA RecursionSolved ==
  ASSUME NEW S, IsFiniteSet(S), NEW f, \A x \in S : f[x] \in Int
  PROVE  \E g \in [SUBSET S -> Int] : Recursion(f, S, g)
<1> DEFINE rest(g, s) == IF s = {} THEN 0 ELSE f[SomeOf(s)] + g[s \ {SomeOf(s)}]
           good == {n \in Nat : \E g \in [SUBSET S -> Int] :
                      \A s \in SUBSET S : Cardinality(s) <= n => g[s] = rest(g, s)}
<1>1. \A s \in SUBSET S : IsFiniteSet(s) /\ Cardinality(s) \in Nat
  BY FS_Subset, FS_CardinalityType
<1>2. ASSUME NEW s \in SUBSET S, s # {}
      PROVE  /\ SomeOf(s) \in s /\ f[SomeOf(s)] \in Int
             /\ s \ {SomeOf(s)} \in SUBSET S
             /\ Cardinality(s \ {SomeOf(s)}) = Cardinality(s) - 1
  BY <1>1, <1>2, SomeOfIsIn, FS_RemoveElement
<1>3. 0 \in good
  <2> DEFINE g == [s \in SUBSET S |-> 0]
  <2>1. \A s \in SUBSET S : Cardinality(s) <= 0 => s = {}
    BY <1>1, FS_EmptySet
  <2>2. g \in [SUBSET S -> Int] /\ \A s \in SUBSET S : Cardinality(s) <= 0 => g[s] = rest(g, s)
    BY <2>1
  <2> QED
    BY <2>2
<1>4. ASSUME NEW n \in Nat, n \in good PROVE n + 1 \in good
  <2>1. PICK g \in [SUBSET S -> Int] :
          \A s \in SUBSET S : Cardinality(s) <= n => g[s] = rest(g, s)
    BY <1>4
  <2> DEFINE h == [s \in SUBSET S |-> rest(g, s)]
  <2>2. h \in [SUBSET S -> Int]
    <3> SUFFICES ASSUME NEW s \in SUBSET S PROVE rest(g, s) \in Int
      OBVIOUS
    <3>1. CASE s = {}
      BY <3>1
    <3>2. CASE s # {}
      <4>1. f[SomeOf(s)] \in Int /\ g[s \ {SomeOf(s)}] \in Int
        BY <1>2, <3>2
      <4> QED BY <3>2, <4>1
    <3> QED BY <3>1, <3>2
  <2>3. ASSUME NEW s \in SUBSET S, Cardinality(s) <= n + 1 PROVE h[s] = rest(h, s)
    <3>1. CASE s = {}
      BY <3>1
    <3>2. CASE s # {}
      <4> DEFINE less == s \ {SomeOf(s)}
      <4>1. less \in SUBSET S /\ Cardinality(less) <= n
        BY <1>1, <1>2, <2>3, <3>2
      <4>2. h[less] = g[less]
        <5> HIDE DEF less
        <5> QED BY <2>1, <4>1
      <4> QED
        BY <3>2, <4>2
    <3> QED BY <3>1, <3>2
  <2>4. \E fit \in [SUBSET S -> Int] :
          \A s \in SUBSET S : Cardinality(s) <= n + 1 => fit[s] = rest(fit, s)
    <3> HIDE DEF h
    <3>1. h \in [SUBSET S -> Int]
      BY <2>2
    <3> WITNESS h \in [SUBSET S -> Int]
    <3> QED BY <2>3
  <2>5. n + 1 \in Nat
    OBVIOUS
  <2> QED
    BY <2>4, <2>5
<1>5. Nat \subseteq good
  <2> HIDE DEF good
  <2> QED BY <1>3, <1>4, CountingUp
<1>6. PICK g \in [SUBSET S -> Int] :
        \A s \in SUBSET S : Cardinality(s) <= Cardinality(S) => g[s] = rest(g, s)
  <2>1. Cardinality(S) \in good
    <3> HIDE DEF good
    <3> QED BY <1>1, <1>5
  <2> QED BY <2>1
<1>7. \A s \in SUBSET S : g[s] = rest(g, s)
  <2>1. \A s \in SUBSET S : Cardinality(s) <= Cardinality(S)
    BY FS_Subset
  <2> QED BY <1>6, <2>1
<1>8. g = [s \in SUBSET S |-> rest(g, s)]
  <2> HIDE DEF rest
  <2> QED BY <1>7
<1> QED
  BY <1>8 DEF Recursion

(* It has one: two agree on the sets that both speak of, if what is summed *)
(* does.                                                                   *)
LEMMA RecursionsAgree ==
  ASSUME NEW S, IsFiniteSet(S), NEW f, NEW g, Recursion(f, S, g),
         NEW T, NEW e, NEW h, Recursion(e, T, h),
         \A x \in S \intersect T : f[x] = e[x]
  PROVE  \A U \in SUBSET (S \intersect T) : g[U] = h[U]
<1> DEFINE good == {n \in Nat : \A U \in SUBSET (S \intersect T) :
                                  Cardinality(U) = n => g[U] = h[U]}
<1>1. \A U \in SUBSET (S \intersect T) : IsFiniteSet(U) /\ Cardinality(U) \in Nat
  BY FS_Subset, FS_CardinalityType
<1>2. 0 \in good
  <2> SUFFICES ASSUME NEW U \in SUBSET (S \intersect T), Cardinality(U) = 0
               PROVE  g[U] = h[U]
    OBVIOUS
  <2>1. U = {}
    BY <1>1, FS_EmptySet
  <2> QED
    BY <2>1 DEF Recursion
<1>3. ASSUME NEW n \in Nat, n \in good PROVE n + 1 \in good
  <2> SUFFICES ASSUME NEW U \in SUBSET (S \intersect T), Cardinality(U) = n + 1
               PROVE  g[U] = h[U]
    OBVIOUS
  <2> DEFINE less == U \ {SomeOf(U)}
  <2>1. U # {}
    <3>1. Cardinality(U) # 0
      OBVIOUS
    <3> QED BY <3>1, FS_EmptySet
  <2>2. SomeOf(U) \in S \intersect T /\ less \in SUBSET (S \intersect T) /\ Cardinality(less) = n
    <3>1. SomeOf(U) \in U
      BY <2>1, SomeOfIsIn
    <3>2. Cardinality(less) = Cardinality(U) - 1
      BY <1>1, <3>1, FS_RemoveElement
    <3> QED BY <3>1, <3>2
  <2>3. g[less] = h[less] /\ f[SomeOf(U)] = e[SomeOf(U)]
    <3> HIDE DEF less
    <3> QED BY <1>3, <2>2
  <2>4. g[U] = f[SomeOf(U)] + g[less] /\ h[U] = e[SomeOf(U)] + h[less]
    BY <2>1 DEF Recursion
  <2> QED
    BY <2>3, <2>4
<1>4. Nat \subseteq good
  <2> HIDE DEF good
  <2> QED BY <1>2, <1>3, CountingUp
<1> QED
  BY <1>1, <1>4

(* So a sum is what any solution says of the whole set.                    *)
LEMMA SumIsRecursive ==
  ASSUME NEW S, IsFiniteSet(S), NEW f, \A x \in S : f[x] \in Int
  PROVE  \E g \in [SUBSET S -> Int] : Recursion(f, S, g) /\ SumFunctionOnSet(f, S) = g[S]
<1> DEFINE sum == CHOOSE g : Recursion(f, S, g)
<1>1. PICK g \in [SUBSET S -> Int] : Recursion(f, S, g)
  BY RecursionSolved
<1>2. Recursion(f, S, sum)
  BY <1>1
<1>3. SumFunctionOnSet(f, S) = sum[S]
  BY DEF SumFunctionOnSet, FoldFunctionOnSet, MapThenFoldSet, Recursion, SomeOf
<1>4. sum[S] = g[S]
  <2> HIDE DEF sum
  <2>1. \A U \in SUBSET (S \intersect S) : sum[U] = g[U]
    BY <1>1, <1>2, RecursionsAgree
  <2> QED BY <2>1
<1> QED
  BY <1>1, <1>3, <1>4

-----------------------------------------------------------------------------
(* Sums.                                                                   *)

LEMMA SumIsInt ==
  ASSUME NEW S, IsFiniteSet(S), NEW f, \A x \in S : f[x] \in Int
  PROVE  SumFunctionOnSet(f, S) \in Int
<1>1. PICK g \in [SUBSET S -> Int] : SumFunctionOnSet(f, S) = g[S]
  BY SumIsRecursive
<1> QED
  BY <1>1

LEMMA SumOfNone ==
  ASSUME NEW f PROVE SumFunctionOnSet(f, {}) = 0
<1>1. IsFiniteSet({}) /\ \A x \in {} : f[x] \in Int
  BY FS_EmptySet
<1>2. PICK g : Recursion(f, {}, g) /\ SumFunctionOnSet(f, {}) = g[{}]
  BY <1>1, SumIsRecursive
<1> QED
  BY <1>2 DEF Recursion

(* Sums of the same figures are the same.                                  *)
LEMMA SumOfTheSame ==
  ASSUME NEW S, IsFiniteSet(S), NEW f, \A x \in S : f[x] \in Int,
         NEW e, \A x \in S : e[x] = f[x]
  PROVE  SumFunctionOnSet(f, S) = SumFunctionOnSet(e, S)
<1>1. PICK g : Recursion(f, S, g) /\ SumFunctionOnSet(f, S) = g[S]
  BY SumIsRecursive
<1>2. PICK h : Recursion(e, S, h) /\ SumFunctionOnSet(e, S) = h[S]
  BY SumIsRecursive
<1>3. \A U \in SUBSET (S \intersect S) : g[U] = h[U]
  BY <1>1, <1>2, RecursionsAgree
<1> QED
  BY <1>1, <1>2, <1>3

(* The choice of the recursion taken out ...                               *)
LEMMA SumLessItsFirst ==
  ASSUME NEW S, IsFiniteSet(S), S # {}, NEW f, \A x \in S : f[x] \in Int
  PROVE  SumFunctionOnSet(f, S) = f[SomeOf(S)] + SumFunctionOnSet(f, S \ {SomeOf(S)})
<1> DEFINE less == S \ {SomeOf(S)}
<1>1. IsFiniteSet(less) /\ less \subseteq S
  BY FS_RemoveElement
<1>2. PICK g : Recursion(f, S, g) /\ SumFunctionOnSet(f, S) = g[S]
  BY SumIsRecursive
<1>3. PICK h : Recursion(f, less, h) /\ SumFunctionOnSet(f, less) = h[less]
  <2> HIDE DEF less
  <2> QED BY <1>1, SumIsRecursive
<1>4. \A U \in SUBSET (S \intersect less) : g[U] = h[U]
  <2> HIDE DEF less
  <2> QED BY <1>2, <1>3, RecursionsAgree
<1>5. g[S] = f[SomeOf(S)] + g[less]
  BY <1>2 DEF Recursion
<1> QED
  BY <1>1, <1>2, <1>3, <1>4, <1>5

(* ... or any other element.                                               *)
LEMMA SumLessOne ==
  ASSUME NEW S, IsFiniteSet(S), NEW f, \A x \in S : f[x] \in Int, NEW y \in S
  PROVE  SumFunctionOnSet(f, S) = f[y] + SumFunctionOnSet(f, S \ {y})
<1> DEFINE good == {n \in Nat : \A T \in SUBSET S : \A x \in T :
                      Cardinality(T) = n =>
                        SumFunctionOnSet(f, T) = f[x] + SumFunctionOnSet(f, T \ {x})}
<1>1. \A T \in SUBSET S : IsFiniteSet(T) /\ Cardinality(T) \in Nat
  BY FS_Subset, FS_CardinalityType
<1>2. 0 \in good
  BY <1>1, FS_EmptySet
<1>3. ASSUME NEW n \in Nat, n \in good PROVE n + 1 \in good
  <2> SUFFICES ASSUME NEW T \in SUBSET S, NEW x \in T, Cardinality(T) = n + 1
               PROVE  SumFunctionOnSet(f, T) = f[x] + SumFunctionOnSet(f, T \ {x})
    OBVIOUS
  <2> DEFINE c == SomeOf(T)
             others == T \ {x}
  <2>1. c \in T /\ IsFiniteSet(T)
    BY <1>1, SomeOfIsIn
  <2>2. SumFunctionOnSet(f, T) = f[c] + SumFunctionOnSet(f, T \ {c})
    BY <2>1, SumLessItsFirst
  <2>3. CASE x = c
    BY <2>2, <2>3
  <2>4. CASE x # c
    <3>1. Cardinality(T \ {c}) = n /\ Cardinality(others) = n
      <4>1. Cardinality(T \ {c}) = Cardinality(T) - 1
        <5> HIDE DEF c
        <5> QED BY <2>1, FS_RemoveElement
      <4>2. Cardinality(others) = Cardinality(T) - 1
        BY <2>1, FS_RemoveElement
      <4> QED BY <4>1, <4>2
    <3>2. SumFunctionOnSet(f, T \ {c}) = f[x] + SumFunctionOnSet(f, (T \ {c}) \ {x})
      <4>1. T \ {c} \in SUBSET S /\ x \in T \ {c}
        BY <2>4
      <4> QED BY <1>3, <3>1, <4>1
    <3>3. SumFunctionOnSet(f, others) = f[c] + SumFunctionOnSet(f, others \ {c})
      <4>1. others \in SUBSET S /\ c \in others
        BY <2>1, <2>4
      <4> HIDE DEF others, c
      <4> QED BY <1>3, <3>1, <4>1
    <3>4. others \ {c} = (T \ {c}) \ {x} /\ IsFiniteSet(others \ {c})
      <4>1. others \ {c} \in SUBSET S
        OBVIOUS
      <4> QED BY <1>1, <4>1
    <3>5. f[x] \in Int /\ f[c] \in Int /\ SumFunctionOnSet(f, others \ {c}) \in Int
      <4>1. x \in S /\ c \in S /\ \A z \in others \ {c} : f[z] \in Int
        BY <2>1
      <4> HIDE DEF others, c
      <4> QED BY <3>4, <4>1, SumIsInt
    <3>6. SumFunctionOnSet(f, T) = f[x] + SumFunctionOnSet(f, others)
      <4> DEFINE rest == SumFunctionOnSet(f, others \ {c})
      <4>1. SumFunctionOnSet(f, T \ {c}) = f[x] + rest
        <5> HIDE DEF others, c
        <5> QED BY <3>2, <3>4
      <4>2. SumFunctionOnSet(f, T) = f[c] + (f[x] + rest)
        BY <2>2, <4>1
      <4>3. SumFunctionOnSet(f, others) = f[c] + rest
        BY <3>3
      <4>4. rest \in Int /\ f[x] \in Int /\ f[c] \in Int
        BY <3>5
      <4> HIDE DEF others, c, rest
      <4> QED BY <4>2, <4>3, <4>4
    <3> QED
      BY <3>6
  <2> QED
    BY <2>3, <2>4
<1>4. Nat \subseteq good
  <2> HIDE DEF good
  <2> QED BY <1>2, <1>3, CountingUp
<1>5. S \in SUBSET S /\ Cardinality(S) \in good
  <2> HIDE DEF good
  <2> QED BY <1>1, <1>4
<1> QED
  BY <1>5

(* One element more.                                                       *)
LEMMA SumOfOneMore ==
  ASSUME NEW S, IsFiniteSet(S), NEW f, NEW y, y \notin S,
         \A x \in S \union {y} : f[x] \in Int
  PROVE  SumFunctionOnSet(f, S \union {y}) = f[y] + SumFunctionOnSet(f, S)
<1>1. IsFiniteSet(S \union {y}) /\ y \in S \union {y} /\ (S \union {y}) \ {y} = S
  BY FS_AddElement
<1> QED
  BY <1>1, SumLessOne

(* What holds of each figure, up to two factors, holds of the sums.        *)
LEMMA SumsCompare ==
  ASSUME NEW S, IsFiniteSet(S), NEW f, \A x \in S : f[x] \in Int,
         NEW e, \A x \in S : e[x] \in Int, NEW a \in Int, NEW b \in Int,
         \A x \in S : a * f[x] <= b * e[x]
  PROVE  a * SumFunctionOnSet(f, S) <= b * SumFunctionOnSet(e, S)
<1> DEFINE good == {T \in SUBSET S : a * SumFunctionOnSet(f, T) <= b * SumFunctionOnSet(e, T)}
<1>1. {} \in good
  BY SumOfNone
<1>2. ASSUME NEW T \in SUBSET S, NEW x \in S \ T, T \in good
      PROVE  T \union {x} \in good
  <2> DEFINE m == SumFunctionOnSet(f, T)
             n == SumFunctionOnSet(e, T)
  <2>1. IsFiniteSet(T)
    BY FS_Subset
  <2>2. m \in Int /\ n \in Int /\ f[x] \in Int /\ e[x] \in Int
    BY <2>1, SumIsInt
  <2>3. SumFunctionOnSet(f, T \union {x}) = f[x] + m
    BY <2>1, SumOfOneMore
  <2>4. SumFunctionOnSet(e, T \union {x}) = e[x] + n
    BY <2>1, SumOfOneMore
  <2>5. a * (f[x] + m) = a * f[x] + a * m /\ b * (e[x] + n) = b * e[x] + b * n
    <3> HIDE DEF m, n
    <3> QED BY <2>2
  <2>6. a * m <= b * n /\ a * f[x] <= b * e[x]
    BY <1>2
  <2>7. a * (f[x] + m) <= b * (e[x] + n)
    <3>1. a * m \in Int /\ b * n \in Int /\ a * f[x] \in Int /\ b * e[x] \in Int
      BY <2>2
    <3> HIDE DEF m, n
    <3> QED BY <2>5, <2>6, <3>1
  <2> QED
    BY <2>3, <2>4, <2>7
<1>3. S \in good
  <2> HIDE DEF good
  <2> QED BY <1>1, <1>2, OneByOne
<1> QED
  BY <1>3

LEMMA SumIsNat ==
  ASSUME NEW S, IsFiniteSet(S), NEW f, \A x \in S : f[x] \in Nat
  PROVE  SumFunctionOnSet(f, S) \in Nat
<1> DEFINE good == {T \in SUBSET S : SumFunctionOnSet(f, T) \in Nat}
<1>1. {} \in good
  BY SumOfNone
<1>2. ASSUME NEW T \in SUBSET S, NEW x \in S \ T, T \in good
      PROVE  T \union {x} \in good
  <2>1. IsFiniteSet(T)
    BY FS_Subset
  <2>2. SumFunctionOnSet(f, T \union {x}) = f[x] + SumFunctionOnSet(f, T)
    BY <2>1, SumOfOneMore
  <2> QED
    BY <1>2, <2>2
<1>3. S \in good
  <2> HIDE DEF good
  <2> QED BY <1>1, <1>2, OneByOne
<1> QED
  BY <1>3

LEMMA SumIsPositive ==
  ASSUME NEW S, IsFiniteSet(S), NEW f, \A x \in S : f[x] \in Nat, \E x \in S : f[x] > 0
  PROVE  SumFunctionOnSet(f, S) \in Nat /\ SumFunctionOnSet(f, S) > 0
<1>1. PICK y \in S : f[y] > 0
  OBVIOUS
<1> DEFINE T == S \ {y}
<1>2. IsFiniteSet(T) /\ y \notin T /\ T \union {y} = S
  BY FS_RemoveElement
<1>3. \A x \in T : f[x] \in Nat
  OBVIOUS
<1>4. \A x \in T \union {y} : f[x] \in Int
  OBVIOUS
<1> HIDE DEF T
<1>5. SumFunctionOnSet(f, T) \in Nat
  BY <1>2, <1>3, SumIsNat
<1>6. SumFunctionOnSet(f, T \union {y}) = f[y] + SumFunctionOnSet(f, T)
  BY <1>2, <1>4, SumOfOneMore
<1>7. f[y] \in Nat
  OBVIOUS
<1>8. SumFunctionOnSet(f, S) = f[y] + SumFunctionOnSet(f, T)
  BY <1>2, <1>6
<1> QED
  BY <1>1, <1>5, <1>7, <1>8

(* A sum is in two parts; of naturals, a part is at most the whole.        *)
LEMMA SumInParts ==
  ASSUME NEW S, IsFiniteSet(S), NEW f, \A x \in S : f[x] \in Int, NEW R \in SUBSET S
  PROVE  SumFunctionOnSet(f, S) = SumFunctionOnSet(f, R) + SumFunctionOnSet(f, S \ R)
<1> DEFINE others == S \ R
           good == {T \in SUBSET others :
                      SumFunctionOnSet(f, R \union T) =
                        SumFunctionOnSet(f, R) + SumFunctionOnSet(f, T)}
<1>1. IsFiniteSet(R) /\ IsFiniteSet(others) /\ SumFunctionOnSet(f, R) \in Int
  BY FS_Subset, SumIsInt
<1>2. {} \in good
  <2>1. R \union {} = R
    OBVIOUS
  <2> QED BY <1>1, <2>1, SumOfNone
<1>3. ASSUME NEW T \in SUBSET others, NEW x \in others \ T, T \in good
      PROVE  T \union {x} \in good
  <2> DEFINE whole == R \union T
  <2>1. IsFiniteSet(T) /\ IsFiniteSet(whole)
    <3>1. whole \in SUBSET S /\ T \in SUBSET S
      OBVIOUS
    <3> QED BY <3>1, FS_Subset
  <2>2. SumFunctionOnSet(f, T) \in Int /\ f[x] \in Int
    BY <2>1, SumIsInt
  <2>3. SumFunctionOnSet(f, T \union {x}) = f[x] + SumFunctionOnSet(f, T)
    BY <2>1, SumOfOneMore
  <2>4. SumFunctionOnSet(f, whole \union {x}) = f[x] + SumFunctionOnSet(f, whole)
    <3>1. x \notin whole /\ \A y \in whole \union {x} : f[y] \in Int
      OBVIOUS
    <3> HIDE DEF whole
    <3> QED BY <2>1, <3>1, SumOfOneMore
  <2>5. R \union (T \union {x}) = whole \union {x}
    OBVIOUS
  <2>6. SumFunctionOnSet(f, whole) = SumFunctionOnSet(f, R) + SumFunctionOnSet(f, T)
    BY <1>3
  <2>7. SumFunctionOnSet(f, R \union (T \union {x}))
          = SumFunctionOnSet(f, R) + SumFunctionOnSet(f, T \union {x})
    <3>1. SumFunctionOnSet(f, R \union (T \union {x}))
            = f[x] + (SumFunctionOnSet(f, R) + SumFunctionOnSet(f, T))
      <4> HIDE DEF whole
      <4> QED BY <2>4, <2>5, <2>6
    <3> QED BY <1>1, <2>2, <2>3, <3>1
  <2> QED
    BY <2>7
<1>4. others \in good
  <2> HIDE DEF good, others
  <2> QED BY <1>1, <1>2, <1>3, OneByOne
<1>5. R \union others = S
  OBVIOUS
<1>6. SumFunctionOnSet(f, R \union others) = SumFunctionOnSet(f, R) + SumFunctionOnSet(f, others)
  BY <1>4
<1> QED
  BY <1>5, <1>6

LEMMA SumOfFewer ==
  ASSUME NEW S, IsFiniteSet(S), NEW f, \A x \in S : f[x] \in Nat, NEW R \in SUBSET S
  PROVE  SumFunctionOnSet(f, R) <= SumFunctionOnSet(f, S)
<1>1. SumFunctionOnSet(f, S) = SumFunctionOnSet(f, R) + SumFunctionOnSet(f, S \ R)
  BY SumInParts
<1>2. IsFiniteSet(R) /\ IsFiniteSet(S \ R)
  BY FS_Subset
<1>3. SumFunctionOnSet(f, R) \in Nat /\ SumFunctionOnSet(f, S \ R) \in Nat
  BY <1>2, SumIsNat
<1> QED
  BY <1>1, <1>3

(* The figures of S that are not zero, carried to other elements that no   *)
(* two of them share, sum up to the same.                                  *)
LEMMA SumOfTheCarried ==
  ASSUME NEW S, IsFiniteSet(S), NEW f, \A x \in S : f[x] \in Nat,
         NEW to, NEW e,
         \A x \in S : f[x] > 0 => e[to[x]] = f[x],
         \A x, y \in S : f[x] > 0 /\ f[y] > 0 /\ to[x] = to[y] => x = y
  PROVE  /\ IsFiniteSet({to[x] : x \in {y \in S : f[y] > 0}})
         /\ SumFunctionOnSet(e, {to[x] : x \in {y \in S : f[y] > 0}}) = SumFunctionOnSet(f, S)
<1> DEFINE image(T) == {to[x] : x \in {y \in T : f[y] > 0}}
           good == {T \in SUBSET S : /\ IsFiniteSet(image(T))
                                     /\ SumFunctionOnSet(e, image(T)) = SumFunctionOnSet(f, T)}
<1>1. {} \in good
  <2>1. image({}) = {}
    OBVIOUS
  <2> QED BY <2>1, SumOfNone, FS_EmptySet
<1>2. ASSUME NEW T \in SUBSET S, NEW x \in S \ T, T \in good
      PROVE  T \union {x} \in good
  <2>1. IsFiniteSet(T) /\ IsFiniteSet(image(T)) /\ SumFunctionOnSet(e, image(T)) = SumFunctionOnSet(f, T)
    BY <1>2, FS_Subset
  <2>2. SumFunctionOnSet(f, T \union {x}) = f[x] + SumFunctionOnSet(f, T)
    <3>1. IsFiniteSet(T) /\ x \notin T /\ \A y \in T \union {x} : f[y] \in Int
      BY <2>1
    <3> HIDE DEF image, good
    <3> QED BY <3>1, SumOfOneMore
  <2>3. SumFunctionOnSet(f, T) \in Nat /\ f[x] \in Nat
    BY <2>1, SumIsNat
  <2>4. CASE f[x] > 0
    <3>1. image(T \union {x}) = image(T) \union {to[x]}
      BY <2>4
    <3>2. to[x] \notin image(T)
      BY <2>4
    <3>3. \A y \in image(T) \union {to[x]} : e[y] \in Int
      BY <2>4
    <3> DEFINE earlier == image(T)
    <3>4. IsFiniteSet(earlier \union {to[x]})
      <4> HIDE DEF earlier
      <4> QED BY <2>1, FS_AddElement DEF earlier
    <3>5. SumFunctionOnSet(e, earlier \union {to[x]}) = e[to[x]] + SumFunctionOnSet(e, earlier)
      <4>1. IsFiniteSet(earlier) /\ to[x] \notin earlier
              /\ \A y \in earlier \union {to[x]} : e[y] \in Int
        BY <2>1, <3>2, <3>3
      <4> HIDE DEF earlier
      <4> QED BY <4>1, SumOfOneMore
    <3>6. SumFunctionOnSet(e, image(T \union {x})) = SumFunctionOnSet(f, T \union {x})
      <4>1. e[to[x]] = f[x]
        BY <2>4
      <4>2. SumFunctionOnSet(e, earlier) = SumFunctionOnSet(f, T)
        BY <2>1
      <4>3. image(T \union {x}) = earlier \union {to[x]}
        BY <3>1
      <4> HIDE DEF earlier, image
      <4> QED BY <2>2, <3>5, <4>1, <4>2, <4>3
    <3>7. IsFiniteSet(image(T \union {x}))
      BY <3>1, <3>4
    <3> QED
      BY <3>6, <3>7
  <2>5. CASE ~(f[x] > 0)
    <3>1. image(T \union {x}) = image(T)
      BY <2>5
    <3>2. f[x] = 0
      BY <2>3, <2>5
    <3>3. SumFunctionOnSet(f, T \union {x}) = SumFunctionOnSet(f, T)
      BY <2>2, <2>3, <3>2
    <3> QED
      <4> HIDE DEF image
      <4> QED BY <2>1, <3>1, <3>3
  <2> QED
    BY <2>4, <2>5
<1>3. S \in good
  <2> HIDE DEF good
  <2> QED BY <1>1, <1>2, OneByOne
<1> QED
  BY <1>3

-----------------------------------------------------------------------------
(* Extremes.                                                               *)

(* A finite set of integers that has an element has a least one.           *)
LEMMA LeastOfFinite ==
  ASSUME NEW S \in SUBSET Int, IsFiniteSet(S), S # {}
  PROVE  Min(S) \in S /\ \A x \in S : Min(S) <= x
<1> DEFINE good == {T \in SUBSET S : T = {} \/ \E m \in T : \A x \in T : m <= x}
<1>1. {} \in good
  OBVIOUS
<1>2. ASSUME NEW T \in SUBSET S, NEW x \in S \ T, T \in good
      PROVE  T \union {x} \in good
  <2>1. CASE T = {}
    <3>1. \A y \in T \union {x} : x <= y
      BY <2>1
    <3> QED BY <3>1
  <2>2. CASE T # {}
    <3>1. PICK m \in T : \A y \in T : m <= y
      BY <1>2, <2>2
    <3>2. CASE m <= x
      <4>1. \A y \in T \union {x} : m <= y
        BY <3>1, <3>2
      <4> QED BY <4>1
    <3>3. CASE ~(m <= x)
      <4>1. \A y \in T \union {x} : x <= y
        BY <3>1, <3>3
      <4> QED BY <4>1
    <3> QED BY <3>2, <3>3
  <2> QED BY <2>1, <2>2
<1>3. S \in good
  <2> HIDE DEF good
  <2> QED BY <1>1, <1>2, OneByOne
<1>4. PICK m \in S : \A x \in S : m <= x
  BY <1>3
<1> QED
  BY <1>4 DEF Min

LEMMA GreatestOfFinite ==
  ASSUME NEW S \in SUBSET Int, IsFiniteSet(S), S # {}
  PROVE  Max(S) \in S /\ \A x \in S : x <= Max(S)
<1> DEFINE good == {T \in SUBSET S : T = {} \/ \E m \in T : \A x \in T : m >= x}
<1>1. {} \in good
  OBVIOUS
<1>2. ASSUME NEW T \in SUBSET S, NEW x \in S \ T, T \in good
      PROVE  T \union {x} \in good
  <2>1. CASE T = {}
    <3>1. \A y \in T \union {x} : x >= y
      BY <2>1
    <3> QED BY <3>1
  <2>2. CASE T # {}
    <3>1. PICK m \in T : \A y \in T : m >= y
      BY <1>2, <2>2
    <3>2. CASE m >= x
      <4>1. \A y \in T \union {x} : m >= y
        BY <3>1, <3>2
      <4> QED BY <4>1
    <3>3. CASE ~(m >= x)
      <4>1. \A y \in T \union {x} : x >= y
        BY <3>1, <3>3
      <4> QED BY <4>1
    <3> QED BY <3>2, <3>3
  <2> QED BY <2>1, <2>2
<1>3. S \in good
  <2> HIDE DEF good
  <2> QED BY <1>1, <1>2, OneByOne
<1>4. PICK m \in S : \A x \in S : m >= x
  BY <1>3
<1>5. Max(S) \in S /\ \A x \in S : Max(S) >= x
  BY <1>4 DEF Max
<1> QED
  BY <1>5

(* The image of a finite set is finite.                                    *)
LEMMA ImageIsFinite ==
  ASSUME NEW S, IsFiniteSet(S), NEW to
  PROVE  IsFiniteSet({to[x] : x \in S})
<1> DEFINE image == {to[x] : x \in S}
           onto == [x \in S |-> to[x]]
<1>1. onto \in Surjection(S, image)
  BY DEF Surjection
<1> QED
  BY <1>1, FS_Surjection

(* A set of two is finite.                                                 *)
LEMMA PairIsFinite ==
  ASSUME NEW x, NEW y PROVE IsFiniteSet({x, y})
<1>1. IsFiniteSet({x}) /\ IsFiniteSet({y}) /\ {x} \union {y} = {x, y}
  BY FS_Singleton
<1>2. IsFiniteSet({x} \union {y})
  BY <1>1, FS_Union
<1> QED
  BY <1>1, <1>2

(* The greater and the lesser of two integers.                             *)
LEMMA MaxOfTwo ==
  ASSUME NEW a \in Int, NEW b \in Int
  PROVE  /\ Max({a, b}) \in {a, b} /\ a <= Max({a, b}) /\ b <= Max({a, b})
         /\ Min({a, b}) \in {a, b} /\ Min({a, b}) <= a /\ Min({a, b}) <= b
<1>1. IsFiniteSet({a, b})
  BY PairIsFinite
<1>2. {a, b} \in SUBSET Int /\ {a, b} # {} /\ a \in {a, b} /\ b \in {a, b}
  OBVIOUS
<1>3. Max({a, b}) \in {a, b} /\ \A x \in {a, b} : x <= Max({a, b})
  BY <1>1, <1>2, GreatestOfFinite
<1>4. Min({a, b}) \in {a, b} /\ \A x \in {a, b} : Min({a, b}) <= x
  BY <1>1, <1>2, LeastOfFinite
<1> QED
  BY <1>2, <1>3, <1>4

-----------------------------------------------------------------------------
(* Counting.                                                               *)

(* The sum of two functions' values is the sum of both sums.               *)
LEMMA SumsAdd ==
  ASSUME NEW S, IsFiniteSet(S), NEW f, \A x \in S : f[x] \in Int,
         NEW e, \A x \in S : e[x] \in Int,
         NEW g, \A x \in S : g[x] = f[x] + e[x]
  PROVE  SumFunctionOnSet(g, S) = SumFunctionOnSet(f, S) + SumFunctionOnSet(e, S)
<1> DEFINE Adds(T) == SumFunctionOnSet(g, T) = SumFunctionOnSet(f, T) + SumFunctionOnSet(e, T)
           good == {T \in SUBSET S : Adds(T)}
<1>1. {} \in good
  BY SumOfNone
<1>2. ASSUME NEW T \in SUBSET S, NEW x \in S \ T, T \in good
      PROVE  T \union {x} \in good
  <2>1. IsFiniteSet(T) /\ x \notin T /\ \A y \in T \union {x} : y \in S
    BY FS_Subset
  <2>2. /\ \A y \in T \union {x} : f[y] \in Int /\ e[y] \in Int /\ g[y] \in Int
        /\ g[x] = f[x] + e[x]
    BY <2>1
  <2>3. SumFunctionOnSet(f, T \union {x}) = f[x] + SumFunctionOnSet(f, T)
    BY <2>1, <2>2, SumOfOneMore
  <2>4. SumFunctionOnSet(e, T \union {x}) = e[x] + SumFunctionOnSet(e, T)
    BY <2>1, <2>2, SumOfOneMore
  <2>5. SumFunctionOnSet(g, T \union {x}) = g[x] + SumFunctionOnSet(g, T)
    BY <2>1, <2>2, SumOfOneMore
  <2>6. SumFunctionOnSet(f, T) \in Int /\ SumFunctionOnSet(e, T) \in Int
    <3>1. \A y \in T : f[y] \in Int /\ e[y] \in Int
      BY <2>2
    <3>2. SumFunctionOnSet(f, T) \in Int
      BY <2>1, <3>1, SumIsInt
    <3>3. SumFunctionOnSet(e, T) \in Int
      BY <2>1, <3>1, SumIsInt
    <3> QED
      BY <3>2, <3>3
  <2>7. Adds(T)
    BY <1>2
  <2>8. Adds(T \union {x})
    BY <2>2, <2>3, <2>4, <2>5, <2>6, <2>7
  <2> QED
    BY <2>8
<1>3. S \in good
  <2> HIDE DEF good
  <2> QED
    BY <1>1, <1>2, OneByOne
<1> QED
  BY <1>3

(* A sum of ones and noughts counts the ones.                              *)
LEMMA SumOfOnes ==
  ASSUME NEW S, IsFiniteSet(S), NEW f, NEW R \in SUBSET S,
         \A x \in R : f[x] = 1, \A x \in S \ R : f[x] = 0
  PROVE  SumFunctionOnSet(f, S) = Cardinality(R)
<1> DEFINE Counts(T) == SumFunctionOnSet(f, T) = Cardinality(T \intersect R)
           good == {T \in SUBSET S : Counts(T)}
<1>1. {} \in good
  <2>1. {} \intersect R = {} /\ Cardinality({}) = 0
    BY FS_EmptySet
  <2> QED
    BY <2>1, SumOfNone
<1>2. ASSUME NEW T \in SUBSET S, NEW x \in S \ T, T \in good
      PROVE  T \union {x} \in good
  <2>1. IsFiniteSet(T) /\ IsFiniteSet(T \intersect R) /\ x \notin T
    BY FS_Subset
  <2>2. \A y \in T \union {x} : f[y] \in Int
    OBVIOUS
  <2>3. SumFunctionOnSet(f, T \union {x}) = f[x] + SumFunctionOnSet(f, T)
    BY <2>1, <2>2, SumOfOneMore
  <2>4. SumFunctionOnSet(f, T) = Cardinality(T \intersect R) /\ Cardinality(T \intersect R) \in Nat
    BY <1>2, <2>1, FS_CardinalityType
  <2>5. Cardinality((T \union {x}) \intersect R) = f[x] + Cardinality(T \intersect R)
    <3> DEFINE more == Cardinality((T \union {x}) \intersect R)
               less == Cardinality(T \intersect R)
    <3>0. f[x] \in Int /\ less \in Nat
      BY <2>2, <2>4
    <3>1. CASE x \in R
      <4>1. (T \union {x}) \intersect R = (T \intersect R) \union {x} /\ x \notin T \intersect R
        BY <3>1, <2>1
      <4>2. Cardinality((T \intersect R) \union {x}) = Cardinality(T \intersect R) + 1
        BY <2>1, <4>1, FS_AddElement
      <4>3. more = less + 1 /\ f[x] = 1
        BY <3>1, <4>1, <4>2, Zenon
      <4> HIDE DEF more, less
      <4>4. more = f[x] + less
        BY <4>3, <3>0
      <4> QED
        BY <4>4 DEF more, less
    <3>2. CASE x \notin R
      <4>1. (T \union {x}) \intersect R = T \intersect R /\ f[x] = 0
        BY <3>2
      <4>3. more = less
        BY <4>1, Zenon
      <4> HIDE DEF more, less
      <4>4. more = f[x] + less
        BY <4>1, <4>3, <3>0
      <4> QED
        BY <4>4 DEF more, less
    <3> QED
      BY <3>1, <3>2
  <2>6. Counts(T \union {x})
    BY <2>3, <2>4, <2>5
  <2> QED
    BY <2>6
<1>3. S \in good
  <2> HIDE DEF good
  <2> QED
    BY <1>1, <1>2, OneByOne
<1>4. S \intersect R = R
  OBVIOUS
<1> QED
  BY <1>3, <1>4

(* Counting twice: sets, each element of which is in at most m of them,    *)
(* have together at most m times as many elements as their union.          *)
LEMMA SumOfOverlaps ==
  ASSUME NEW K, IsFiniteSet(K), NEW X, IsFiniteSet(X), NEW m \in Nat,
         NEW part, \A k \in K : part[k] \subseteq X,
         \A x \in X : Cardinality({k \in K : x \in part[k]}) <= m
  PROVE  SumFunctionOnSet([k \in K |-> Cardinality(part[k])], K) <= m * Cardinality(X)
<1> DEFINE of(T) == [k \in K |-> Cardinality(part[k] \intersect T)]
           Bounded(T) == SumFunctionOnSet(of(T), K) <= m * Cardinality(T)
           good == {T \in SUBSET X : Bounded(T)}
<1>0. \A T \in SUBSET X : /\ IsFiniteSet(T)
                          /\ \A k \in K : /\ IsFiniteSet(part[k] \intersect T)
                                           /\ of(T)[k] \in Nat
  <2> SUFFICES ASSUME NEW T \in SUBSET X
               PROVE  /\ IsFiniteSet(T)
                      /\ \A k \in K : /\ IsFiniteSet(part[k] \intersect T)
                                       /\ of(T)[k] \in Nat
    OBVIOUS
  <2>1. IsFiniteSet(T) /\ \A k \in K : IsFiniteSet(part[k] \intersect T)
    BY FS_Subset
  <2> QED
    BY <2>1, FS_CardinalityType
<1>1. {} \in good
  <2>1. Cardinality({}) = 0 /\ \A k \in K : part[k] \intersect {} = {}
    BY FS_EmptySet
  <2>2. \A k \in K : of({})[k] = 0
    BY <2>1
  <2> DEFINE none == of({})
  <2>3. SumFunctionOnSet(none, K) = Cardinality({})
    <3>1. /\ {} \in SUBSET K /\ \A k \in {} : none[k] = 1
          /\ \A k \in K \ {} : none[k] = 0
      BY <2>2
    <3> HIDE DEF none
    <3> QED
      BY <3>1, SumOfOnes
  <2>4. Bounded({})
    BY <2>1, <2>3
  <2> QED
    BY <2>4
<1>2. ASSUME NEW T \in SUBSET X, NEW x \in X \ T, T \in good
      PROVE  T \union {x} \in good
  <2> DEFINE having == {k \in K : x \in part[k]}
             ones == [k \in K |-> IF x \in part[k] THEN 1 ELSE 0]
             before == of(T)
             after == of(T \union {x})
  <2>1. \A k \in K : before[k] \in Int /\ ones[k] \in Int /\ after[k] = before[k] + ones[k]
    <3> SUFFICES ASSUME NEW k \in K
                 PROVE  before[k] \in Int /\ ones[k] \in Int /\ after[k] = before[k] + ones[k]
      OBVIOUS
    <3>1. /\ IsFiniteSet(part[k] \intersect T) /\ before[k] = Cardinality(part[k] \intersect T)
          /\ before[k] \in Nat /\ after[k] = Cardinality(part[k] \intersect (T \union {x}))
      BY <1>0
    <3>2. CASE x \in part[k]
      <4>1. /\ part[k] \intersect (T \union {x}) = (part[k] \intersect T) \union {x}
            /\ x \notin part[k] \intersect T
        BY <3>2
      <4>2. Cardinality((part[k] \intersect T) \union {x}) = Cardinality(part[k] \intersect T) + 1
        BY <3>1, <4>1, FS_AddElement
      <4>3. after[k] = before[k] + 1
        BY <3>1, <4>1, <4>2, Zenon
      <4>4. ones[k] = 1
        BY <3>2
      <4> HIDE DEF before, after, ones
      <4> QED
        BY <3>1, <4>3, <4>4
    <3>3. CASE x \notin part[k]
      <4>1. part[k] \intersect (T \union {x}) = part[k] \intersect T
        BY <3>3
      <4>3. after[k] = before[k]
        BY <3>1, <4>1, Zenon
      <4>4. ones[k] = 0
        BY <3>3
      <4> HIDE DEF before, after, ones
      <4> QED
        BY <3>1, <4>3, <4>4
    <3> QED
      BY <3>2, <3>3
  <2>2. /\ having \in SUBSET K /\ \A k \in having : ones[k] = 1
        /\ \A k \in K \ having : ones[k] = 0
        /\ Cardinality(having) <= m
    OBVIOUS
  <2>3. IsFiniteSet(having)
    BY FS_Subset
  <2>4. Bounded(T)
    BY <1>2
  <2>5. Cardinality(T \union {x}) = Cardinality(T) + 1 /\ Cardinality(T) \in Nat
    BY <1>0, FS_AddElement, FS_CardinalityType
  <2> HIDE DEF having, ones, before, after
  <2>6. SumFunctionOnSet(after, K) = SumFunctionOnSet(before, K) + SumFunctionOnSet(ones, K)
    BY <2>1, SumsAdd
  <2>7. SumFunctionOnSet(ones, K) = Cardinality(having)
    BY <2>2, SumOfOnes
  <2>8. SumFunctionOnSet(before, K) \in Int /\ Cardinality(having) \in Nat
    BY <2>1, <2>3, SumIsInt, FS_CardinalityType
  <2>9. SumFunctionOnSet(before, K) <= m * Cardinality(T)
    BY <2>4 DEF before
  <2>10. SumFunctionOnSet(after, K) <= m * (Cardinality(T) + 1)
    <3>1. m * (Cardinality(T) + 1) = m * Cardinality(T) + m /\ m * Cardinality(T) \in Int
      BY <2>5
    <3> QED
      BY <3>1, <2>2, <2>6, <2>7, <2>8, <2>9
  <2>11. Bounded(T \union {x})
    BY <2>5, <2>10 DEF after
  <2> QED
    BY <2>11
<1>3. X \in good
  <2> HIDE DEF good
  <2> QED
    BY <1>1, <1>2, OneByOne
<1>4. Bounded(X)
  BY <1>3
<1>5. \A k \in K : part[k] \intersect X = part[k]
  OBVIOUS
<1>6. of(X) = [k \in K |-> Cardinality(part[k])]
  BY <1>5
<1> QED
  BY <1>4, <1>6

-----------------------------------------------------------------------------
(* Ranking: of finitely many places, each has a rank of its own.           *)

IsScored(places, score) ==
  IsFiniteSet(places) /\ \A k \in places : k \in Int /\ score[k] \in Int

Before(places, score, k) ==
  {j \in places : score[j] > score[k] \/ (score[j] = score[k] /\ j < k)}

Rank(places, score, k) == Cardinality(Before(places, score, k))

LEMMA RankType ==
  ASSUME NEW places, NEW score, IsScored(places, score), NEW k \in places
  PROVE  /\ Before(places, score, k) \in SUBSET places
         /\ IsFiniteSet(Before(places, score, k))
         /\ Rank(places, score, k) \in 0..(Cardinality(places) - 1)
<1> DEFINE b == Before(places, score, k)
<1>1. IsFiniteSet(places) /\ b \in SUBSET places /\ k \notin b
  BY DEF IsScored, Before
<1> HIDE DEF b
<1>2. IsFiniteSet(b) /\ Cardinality(b) <= Cardinality(places) /\ Cardinality(b) # Cardinality(places)
  BY <1>1, FS_Subset
<1>3. Cardinality(b) \in Nat /\ Cardinality(places) \in Nat
  BY <1>1, <1>2, FS_CardinalityType
<1>4. Cardinality(b) \in 0..(Cardinality(places) - 1)
  BY <1>2, <1>3
<1> QED
  BY <1>1, <1>2, <1>4 DEF b, Rank

LEMMA LowerRank ==
  ASSUME NEW places, NEW score, IsScored(places, score), NEW j \in places, NEW k \in places,
         j \in Before(places, score, k)
  PROVE  Rank(places, score, j) < Rank(places, score, k)
<1> DEFINE a == Before(places, score, j)
           b == Before(places, score, k)
<1>1. a \in SUBSET b /\ j \in b /\ j \notin a
  BY DEF IsScored, Before
<1>2. IsFiniteSet(a) /\ IsFiniteSet(b)
  BY RankType
<1> HIDE DEF a, b
<1>3. Cardinality(a) <= Cardinality(b) /\ Cardinality(a) # Cardinality(b)
  BY <1>1, <1>2, FS_Subset
<1>4. Cardinality(a) \in Nat /\ Cardinality(b) \in Nat
  BY <1>2, FS_CardinalityType
<1>5. Cardinality(a) < Cardinality(b)
  BY <1>3, <1>4
<1> QED
  BY <1>5 DEF Rank, a, b

LEMMA OneOrTheOther ==
  ASSUME NEW places, NEW score, IsScored(places, score), NEW j \in places, NEW k \in places, j # k
  PROVE  j \in Before(places, score, k) \/ k \in Before(places, score, j)
BY DEF IsScored, Before

LEMMA OneOfEachRank ==
  ASSUME NEW places, NEW score, IsScored(places, score)
  PROVE  /\ \A j, k \in places : Rank(places, score, j) = Rank(places, score, k) => j = k
         /\ \A n \in 0..(Cardinality(places) - 1) : \E k \in places : Rank(places, score, k) = n
<1> DEFINE ranks == 0..(Cardinality(places) - 1)
           rank == [k \in places |-> Rank(places, score, k)]
<1>1. ASSUME NEW j \in places, NEW k \in places, j # k
      PROVE  Rank(places, score, j) # Rank(places, score, k)
  <2>1. Rank(places, score, j) \in Int /\ Rank(places, score, k) \in Int
    BY RankType
  <2>2. CASE j \in Before(places, score, k)
    <3>1. Rank(places, score, j) < Rank(places, score, k)
      BY <2>2, LowerRank
    <3> QED
      BY <2>1, <3>1
  <2>3. CASE k \in Before(places, score, j)
    <3>1. Rank(places, score, k) < Rank(places, score, j)
      BY <2>3, LowerRank
    <3> QED
      BY <2>1, <3>1
  <2> QED
    BY <1>1, <2>2, <2>3, OneOrTheOther
<1>2. \A k \in places : Rank(places, score, k) \in ranks
  BY RankType
<1>3. Cardinality(places) \in Nat /\ IsFiniteSet(places)
  BY FS_CardinalityType DEF IsScored
<1>4. IsFiniteSet(ranks) /\ Cardinality(ranks) = Cardinality(places)
  <2> DEFINE n == Cardinality(places)
  <2>1. n \in Nat
    BY <1>3
  <2> HIDE DEF n
  <2>2. IsFiniteSet(0..(n - 1)) /\ Cardinality(0..(n - 1)) = IF 0 > n - 1 THEN 0 ELSE (n - 1) - 0 + 1
    BY <2>1, FS_Interval
  <2>3. Cardinality(0..(n - 1)) = n
    BY <2>1, <2>2
  <2> QED
    BY <2>2, <2>3 DEF n
<1> HIDE DEF ranks
<1>5. rank \in [places -> ranks]
  BY <1>2
<1>6. rank \in Injection(places, ranks)
  BY <1>1, <1>5 DEF Injection, IsInjective
<1>7. rank \in Surjection(places, ranks)
  <2> HIDE DEF rank
  <2> QED
    BY <1>4, <1>6, FS_Injection
<1>8. \A n \in ranks : \E k \in places : rank[k] = n
  <2> HIDE DEF rank
  <2> QED
    BY <1>7 DEF Surjection
<1> QED
  BY <1>1, <1>8 DEF ranks
=============================================================================
