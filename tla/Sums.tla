-------------------------------- MODULE Sums --------------------------------
(***************************************************************************)
(* Lemmas about SumFunctionOnSet, the sum of a function over a finite set,  *)
(* in which the money of Hand, Table and Withdrawals is counted.            *)
(*                                                                          *)
(* The sum is a recursive function over the subsets of the set, so these    *)
(* are facts about data of any size.  They are proved from one principle    *)
(* of induction, SetInduction, which speaks of the set of the subsets a     *)
(* statement holds of, and not of the statement; it follows from strict     *)
(* inclusion being well founded on finite sets.                             *)
(***************************************************************************)
EXTENDS FiniteSetsExt, FiniteSetTheorems, TLAPS

\* Induction over the subsets of a finite set: a set of subsets that has
\* every T of which it has all the T \ {x} has them all.
LEMMA SetInduction ==
  ASSUME NEW S, IsFiniteSet(S), NEW Good,
         \A T \in SUBSET S : (\A x \in T : T \ {x} \in Good) => T \in Good
  PROVE  SUBSET S \subseteq Good
<1> DEFINE Bad == {T \in SUBSET S : T \notin Good}
<1>1. SUFFICES ASSUME Bad # {} PROVE FALSE
  OBVIOUS
<1>2. IsWellFoundedOn(StrictSubsetOrdering(S), FiniteSubsetsOf(S))
  BY FS_StrictSubsetOrderingWellFounded
<1>3. FiniteSubsetsOf(S) = SUBSET S
  BY FS_FiniteSubsetsOfFinite
<1>4. PICK T \in Bad : \A U \in Bad : ~ (<<U, T>> \in StrictSubsetOrdering(S))
  <2>1. Bad \subseteq SUBSET S
    BY DEF Bad
  <2> HIDE DEF Bad
  <2> QED BY <1>1, <1>2, <1>3, <2>1, WFMin
<1>5. PICK x \in T : T \ {x} \in Bad
  BY <1>4
<1>6. <<T \ {x}, T>> \in StrictSubsetOrdering(S)
  BY <1>5 DEF StrictSubsetOrdering
<1> QED BY <1>4, <1>5, <1>6

\* A set of natural numbers that is not empty has a least element.
LEMMA LeastNatural ==
  ASSUME NEW T \in SUBSET Nat, T # {}
  PROVE  \E n \in T : \A m \in T : n <= m
<1> DEFINE Initials == {0 .. n : n \in T}
<1>1. IsWellFoundedOn(StrictSubsetOrdering(Nat), FiniteSubsetsOf(Nat))
  BY FS_StrictSubsetOrderingWellFounded
<1>2. Initials \subseteq FiniteSubsetsOf(Nat)
  <2>1. ASSUME NEW n \in T
        PROVE  0 .. n \in FiniteSubsetsOf(Nat)
    <3>1. IsFiniteSet(0 .. n)
      BY FS_Interval
    <3> QED BY <3>1 DEF FiniteSubsetsOf
  <2> QED BY <2>1
<1>3. Initials # {}
  OBVIOUS
<1>4. PICK I \in Initials : \A J \in Initials : ~ (<<J, I>> \in StrictSubsetOrdering(Nat))
  <2> HIDE DEF Initials
  <2> QED BY <1>1, <1>2, <1>3, WFMin
<1>5. PICK n \in T : I = 0 .. n
  BY <1>4
<1>6. ASSUME NEW m \in T, m < n
      PROVE  <<0 .. m, 0 .. n>> \in StrictSubsetOrdering(Nat)
  <2>1. n \in 0 .. n /\ n \notin 0 .. m
    BY <1>6
  <2>2. 0 .. m \subseteq 0 .. n /\ 0 .. n \subseteq Nat
    BY <1>6
  <2> QED BY <2>1, <2>2 DEF StrictSubsetOrdering
<1>7. ASSUME NEW m \in T
      PROVE  n <= m
  <2>1. ~ (m < n)
    BY <1>4, <1>5, <1>6
  <2> QED BY <2>1
<1> QED BY <1>7

\* The sum as the definitions of the community modules spell it.
LEMMA SumUnfolds ==
  ASSUME NEW S, NEW f
  PROVE  SumFunctionOnSet(f, S) = (CHOOSE iter : iter = [s \in SUBSET S |->
            IF s = {} THEN 0 ELSE f[CHOOSE x \in s : TRUE] + iter[s \ {CHOOSE x \in s : TRUE}]])[S]
BY Zenon DEF SumFunctionOnSet, FoldFunctionOnSet, MapThenFoldSet

\* The subsets with n elements or fewer, and the element the sum takes next.
SmallSubsets(S, n) == {s \in SUBSET S : Cardinality(s) <= n}
Chosen(s) == CHOOSE x \in s : TRUE

\* The recursive function inside the fold: h[s] sums f over s.
AddsUp(h, D, f) ==
  h = [s \in D |-> IF s = {} THEN 0 ELSE f[Chosen(s)] + h[s \ {Chosen(s)}]]

\* The equation of the sum has a solution on the subsets with up to n
\* elements.
LEMMA PartialSum ==
  ASSUME NEW S, IsFiniteSet(S), NEW f, NEW n \in Nat
  PROVE  \E h : AddsUp(h, SmallSubsets(S, n), f)
<1> DEFINE Bad == {k \in Nat : ~ \E h : AddsUp(h, SmallSubsets(S, k), f)}
<1>1. SUFFICES ASSUME Bad # {} PROVE FALSE
  BY DEF Bad
<1>2. PICK k \in Bad : \A m \in Bad : k <= m
  <2> HIDE DEF Bad
  <2>1. Bad \in SUBSET Nat
    BY DEF Bad
  <2> QED BY <1>1, <2>1, LeastNatural
<1> k \in Nat
  BY <1>2
<1> HIDE DEF Bad
<1>3. ASSUME NEW s \in SUBSET S
      PROVE  /\ IsFiniteSet(s)
             /\ Cardinality(s) \in Nat
             /\ s # {} => /\ Chosen(s) \in s
                          /\ s \ {Chosen(s)} \in SUBSET S
                          /\ Cardinality(s \ {Chosen(s)}) = Cardinality(s) - 1
                          /\ Cardinality(s) # 0
  <2>1. IsFiniteSet(s)
    BY FS_Subset
  <2>2. Cardinality(s) \in Nat
    BY <2>1, FS_CardinalityType
  <2>3. ASSUME s # {}
        PROVE  Chosen(s) \in s
    BY <2>3 DEF Chosen
  <2>4. s # {} => Cardinality(s \ {Chosen(s)}) = Cardinality(s) - 1
    BY <2>1, <2>3, FS_RemoveElement
  <2>5. s # {} => Cardinality(s) # 0
    BY <2>1, FS_EmptySet
  <2> QED BY <2>1, <2>2, <2>3, <2>4, <2>5
<1>4. CASE k = 0
  <2> DEFINE h0 == [s \in SmallSubsets(S, 0) |-> 0]
  <2>1. ASSUME NEW s \in SmallSubsets(S, 0)
        PROVE  s = {}
    <3>1. s \in SUBSET S /\ Cardinality(s) <= 0
      BY DEF SmallSubsets
    <3>2. Cardinality(s) \in Nat /\ IsFiniteSet(s)
      BY <3>1, <1>3
    <3> QED BY <3>1, <3>2, FS_EmptySet
  <2>2. AddsUp(h0, SmallSubsets(S, 0), f)
    BY <2>1 DEF AddsUp
  <2> HIDE DEF h0
  <2> QED BY <2>2, <1>2, <1>4 DEF Bad
<1>5. CASE k # 0
  <2>1. k - 1 \in Nat /\ k - 1 \notin Bad
    <3>1. k - 1 \in Nat /\ ~(k <= k - 1)
      BY <1>5
    <3> QED BY <3>1, <1>2
  <2>2. PICK h : AddsUp(h, SmallSubsets(S, k - 1), f)
    BY <2>1 DEF Bad
  <2> DEFINE val(s) == IF s = {} THEN 0 ELSE f[Chosen(s)] + h[s \ {Chosen(s)}]
             g == [s \in SmallSubsets(S, k) |-> val(s)]
  <2>3. \A s \in SmallSubsets(S, k - 1) : h[s] = val(s) /\ s \in SmallSubsets(S, k)
    <3>1. \A s \in SmallSubsets(S, k - 1) : h[s] = val(s)
      BY <2>2 DEF AddsUp
    <3>2. ASSUME NEW s \in SmallSubsets(S, k - 1)
          PROVE  s \in SmallSubsets(S, k)
      <4>1. s \in SUBSET S /\ Cardinality(s) <= k - 1
        BY DEF SmallSubsets
      <4>2. Cardinality(s) \in Nat
        BY <4>1, <1>3
      <4>3. Cardinality(s) <= k
        BY <4>1, <4>2
      <4> QED BY <4>1, <4>3 DEF SmallSubsets
    <3> QED BY <3>1, <3>2
  <2>4. ASSUME NEW s \in SmallSubsets(S, k), s # {}
        PROVE  s \ {Chosen(s)} \in SmallSubsets(S, k - 1)
    <3>1. s \in SUBSET S /\ Cardinality(s) <= k
      BY DEF SmallSubsets
    <3>2. s \ {Chosen(s)} \in SUBSET S /\ Cardinality(s \ {Chosen(s)}) <= k - 1
      BY <3>1, <2>4, <1>3
    <3> QED BY <3>2 DEF SmallSubsets
  <2>5. \A s \in SmallSubsets(S, k) : s # {} => g[s \ {Chosen(s)}] = h[s \ {Chosen(s)}]
    BY <2>3, <2>4
  <2>6. g = [s \in SmallSubsets(S, k) |->
              IF s = {} THEN 0 ELSE f[Chosen(s)] + g[s \ {Chosen(s)}]]
    <3> HIDE DEF g
    <3>1. \A s \in SmallSubsets(S, k) :
            val(s) = IF s = {} THEN 0 ELSE f[Chosen(s)] + g[s \ {Chosen(s)}]
      BY <2>5
    <3>2. g = [s \in SmallSubsets(S, k) |-> val(s)]
      BY DEF g
    <3> HIDE DEF val
    <3> QED BY <3>1, <3>2
  <2>7. AddsUp(g, SmallSubsets(S, k), f)
    BY <2>6 DEF AddsUp
  <2> HIDE DEF g
  <2> QED BY <2>7 DEF Bad
<1> QED BY <1>4, <1>5

\* The sum is given by a solution of its equation.
LEMMA SumEquation ==
  ASSUME NEW S, IsFiniteSet(S), NEW f
  PROVE  \E h : AddsUp(h, SUBSET S, f) /\ SumFunctionOnSet(f, S) = h[S]
<1>1. PICK c \in Nat : c = Cardinality(S)
  BY FS_CardinalityType
<1>2. SmallSubsets(S, c) = SUBSET S
  BY <1>1, FS_Subset DEF SmallSubsets
<1>3. \E h : AddsUp(h, SUBSET S, f)
  BY <1>2, PartialSum
<1>4. SumFunctionOnSet(f, S) = (CHOOSE h : AddsUp(h, SUBSET S, f))[S]
  BY SumUnfolds, Zenon DEF Chosen, AddsUp
<1>5. AddsUp(CHOOSE h : AddsUp(h, SUBSET S, f), SUBSET S, f)
  BY <1>3, Zenon
<1> QED BY <1>4, <1>5

\* One solution of the equation sums up every subset.
LEMMA SumOfPart ==
  ASSUME NEW S, IsFiniteSet(S), NEW f, NEW iter,
         AddsUp(iter, SUBSET S, f),
         NEW T \in SUBSET S
  PROVE  SumFunctionOnSet(f, T) = iter[T]
<1>1. IsFiniteSet(T)
  BY FS_Subset
<1>2. PICK part :
        /\ AddsUp(part, SUBSET T, f)
        /\ SumFunctionOnSet(f, T) = part[T]
  BY <1>1, SumEquation
<1> USE DEF AddsUp
<1> DEFINE Good == {U \in SUBSET T : part[U] = iter[U]}
<1>3. ASSUME NEW U \in SUBSET T, \A x \in U : U \ {x} \in Good
      PROVE  U \in Good
  <2>1. CASE U = {}
    <3>1. part[U] = 0 /\ iter[U] = 0
      BY <2>1, <1>2
    <3> QED BY <3>1
  <2>2. CASE U # {}
    <3>1. Chosen(U) \in U
      BY <2>2 DEF Chosen
    <3>2. part[U] = f[Chosen(U)] + part[U \ {Chosen(U)}]
      BY <2>2, <1>2
    <3>3. iter[U] = f[Chosen(U)] + iter[U \ {Chosen(U)}]
      <4>1. U \in SUBSET S
        OBVIOUS
      <4> QED BY <4>1, <2>2
    <3> QED BY <3>1, <3>2, <3>3, <1>3
  <2> QED BY <2>1, <2>2
<1>4. SUBSET T \subseteq Good
  <2> HIDE DEF Good
  <2> QED BY <1>1, <1>3, SetInduction
<1> QED BY <1>2, <1>4

\* The sum over the empty set is 0.
LEMMA SumOfNothing ==
  ASSUME NEW f
  PROVE  SumFunctionOnSet(f, {}) = 0
<1>1. IsFiniteSet({})
  BY FS_EmptySet
<1>2. PICK iter :
        /\ AddsUp(iter, SUBSET {}, f)
        /\ SumFunctionOnSet(f, {}) = iter[{}]
  BY <1>1, SumEquation
<1> QED BY <1>2 DEF AddsUp

\* One step of the recursion: some element, and the sum over the others.
LEMMA SumOfChosen ==
  ASSUME NEW S, IsFiniteSet(S), NEW f, S # {}
  PROVE  /\ Chosen(S) \in S
         /\ SumFunctionOnSet(f, S) = f[Chosen(S)] + SumFunctionOnSet(f, S \ {Chosen(S)})
<1>1. Chosen(S) \in S
  BY DEF Chosen
<1>2. PICK iter : AddsUp(iter, SUBSET S, f)
  BY SumEquation
<1>3. iter[S] = f[Chosen(S)] + iter[S \ {Chosen(S)}]
  BY <1>2 DEF AddsUp
<1>4. SumFunctionOnSet(f, S) = iter[S]
  BY <1>2, SumOfPart
<1>5. SumFunctionOnSet(f, S \ {Chosen(S)}) = iter[S \ {Chosen(S)}]
  BY <1>2, SumOfPart
<1> QED BY <1>1, <1>3, <1>4, <1>5

\* The sum of integers is an integer.
LEMMA SumType ==
  ASSUME NEW S, IsFiniteSet(S), NEW f, \A x \in S : f[x] \in Int
  PROVE  SumFunctionOnSet(f, S) \in Int
<1> DEFINE Good == {T \in SUBSET S : SumFunctionOnSet(f, T) \in Int}
<1>1. ASSUME NEW T \in SUBSET S, \A x \in T : T \ {x} \in Good
      PROVE  T \in Good
  <2>1. IsFiniteSet(T)
    BY FS_Subset
  <2>2. CASE T = {}
    BY <2>2, SumOfNothing
  <2>3. CASE T # {}
    <3>1. Chosen(T) \in T /\ SumFunctionOnSet(f, T)
                             = f[Chosen(T)] + SumFunctionOnSet(f, T \ {Chosen(T)})
      BY <2>1, <2>3, SumOfChosen
    <3>2. SumFunctionOnSet(f, T \ {Chosen(T)}) \in Int
      BY <3>1, <1>1
    <3>3. f[Chosen(T)] \in Int
      BY <3>1
    <3> QED BY <3>1, <3>2, <3>3
  <2> QED BY <2>2, <2>3
<1>2. SUBSET S \subseteq Good
  <2> HIDE DEF Good
  <2> QED BY <1>1, SetInduction
<1> QED BY <1>2

\* The sum of natural numbers is a natural number.
LEMMA SumNat ==
  ASSUME NEW S, IsFiniteSet(S), NEW f, \A x \in S : f[x] \in Nat
  PROVE  SumFunctionOnSet(f, S) \in Nat
<1> DEFINE Good == {T \in SUBSET S : SumFunctionOnSet(f, T) \in Nat}
<1>1. ASSUME NEW T \in SUBSET S, \A x \in T : T \ {x} \in Good
      PROVE  T \in Good
  <2>1. IsFiniteSet(T)
    BY FS_Subset
  <2>2. CASE T = {}
    BY <2>2, SumOfNothing
  <2>3. CASE T # {}
    <3>1. Chosen(T) \in T /\ SumFunctionOnSet(f, T)
                             = f[Chosen(T)] + SumFunctionOnSet(f, T \ {Chosen(T)})
      BY <2>1, <2>3, SumOfChosen
    <3>2. SumFunctionOnSet(f, T \ {Chosen(T)}) \in Nat
      BY <3>1, <1>1
    <3>3. f[Chosen(T)] \in Nat
      BY <3>1
    <3> QED BY <3>1, <3>2, <3>3
  <2> QED BY <2>2, <2>3
<1>2. SUBSET S \subseteq Good
  <2> HIDE DEF Good
  <2> QED BY <1>1, SetInduction
<1> QED BY <1>2

\* The sum of nothing but zeros is 0.
LEMMA SumZero ==
  ASSUME NEW S, IsFiniteSet(S), NEW f, \A x \in S : f[x] = 0
  PROVE  SumFunctionOnSet(f, S) = 0
<1> DEFINE Good == {T \in SUBSET S : SumFunctionOnSet(f, T) = 0}
<1>1. ASSUME NEW T \in SUBSET S, \A x \in T : T \ {x} \in Good
      PROVE  T \in Good
  <2>1. IsFiniteSet(T)
    BY FS_Subset
  <2>2. CASE T = {}
    BY <2>2, SumOfNothing
  <2>3. CASE T # {}
    <3>1. Chosen(T) \in T /\ SumFunctionOnSet(f, T)
                             = f[Chosen(T)] + SumFunctionOnSet(f, T \ {Chosen(T)})
      BY <2>1, <2>3, SumOfChosen
    <3>2. SumFunctionOnSet(f, T \ {Chosen(T)}) = 0
      BY <3>1, <1>1
    <3> QED BY <3>1, <3>2
  <2> QED BY <2>2, <2>3
<1>2. SUBSET S \subseteq Good
  <2> HIDE DEF Good
  <2> QED BY <1>1, SetInduction
<1> QED BY <1>2

\* Any element may be taken out of the sum.
LEMMA SumSplit ==
  ASSUME NEW S, IsFiniteSet(S), NEW f, \A x \in S : f[x] \in Int, NEW i \in S
  PROVE  SumFunctionOnSet(f, S) = f[i] + SumFunctionOnSet(f, S \ {i})
<1> DEFINE Good == {T \in SUBSET S : \A y \in T :
                      SumFunctionOnSet(f, T) = f[y] + SumFunctionOnSet(f, T \ {y})}
<1>1. ASSUME NEW T \in SUBSET S, \A x \in T : T \ {x} \in Good
      PROVE  T \in Good
  <2>1. SUFFICES ASSUME NEW y \in T
                 PROVE  SumFunctionOnSet(f, T) = f[y] + SumFunctionOnSet(f, T \ {y})
    OBVIOUS
  <2>2. IsFiniteSet(T)
    BY FS_Subset
  <2>3. PICK c \in T : SumFunctionOnSet(f, T) = f[c] + SumFunctionOnSet(f, T \ {c})
    BY <2>2, SumOfChosen
  <2>4. CASE c = y
    BY <2>3, <2>4
  <2>5. CASE c # y
    <3> DEFINE rest == (T \ {c}) \ {y}
    <3>1. SumFunctionOnSet(f, T \ {c}) = f[y] + SumFunctionOnSet(f, rest)
      BY <1>1, <2>5
    <3>2. SumFunctionOnSet(f, T \ {y}) = f[c] + SumFunctionOnSet(f, rest)
      <4>1. rest = (T \ {y}) \ {c}
        OBVIOUS
      <4> HIDE DEF rest
      <4> QED BY <1>1, <2>5, <4>1
    <3>3. SumFunctionOnSet(f, rest) \in Int
      <4>1. IsFiniteSet(rest)
        BY FS_Subset, <2>2
      <4>2. \A x \in rest : f[x] \in Int
        OBVIOUS
      <4> HIDE DEF rest
      <4> QED BY <4>1, <4>2, SumType
    <3>4. f[c] \in Int /\ f[y] \in Int
      OBVIOUS
    <3> HIDE DEF rest
    <3> QED BY <2>3, <3>1, <3>2, <3>3, <3>4
  <2> QED BY <2>4, <2>5
<1>2. SUBSET S \subseteq Good
  <2> HIDE DEF Good
  <2> QED BY <1>1, SetInduction
<1> QED BY <1>2

\* The sum depends on nothing but the values on the set.
LEMMA SumSame ==
  ASSUME NEW S, IsFiniteSet(S), NEW f, NEW g, \A x \in S : f[x] = g[x]
  PROVE  SumFunctionOnSet(f, S) = SumFunctionOnSet(g, S)
<1> DEFINE Good == {T \in SUBSET S : SumFunctionOnSet(f, T) = SumFunctionOnSet(g, T)}
<1>1. ASSUME NEW T \in SUBSET S, \A x \in T : T \ {x} \in Good
      PROVE  T \in Good
  <2>1. IsFiniteSet(T)
    BY FS_Subset
  <2>2. CASE T = {}
    BY <2>2, SumOfNothing
  <2>3. CASE T # {}
    <3>1. /\ Chosen(T) \in T
          /\ SumFunctionOnSet(f, T) = f[Chosen(T)] + SumFunctionOnSet(f, T \ {Chosen(T)})
          /\ SumFunctionOnSet(g, T) = g[Chosen(T)] + SumFunctionOnSet(g, T \ {Chosen(T)})
      BY <2>1, <2>3, SumOfChosen
    <3> QED BY <3>1, <1>1
  <2> QED BY <2>2, <2>3
<1>2. SUBSET S \subseteq Good
  <2> HIDE DEF Good
  <2> QED BY <1>1, SetInduction
<1> QED BY <1>2

\* A change of one value changes the sum by as much.
LEMMA SumChange ==
  ASSUME NEW S, IsFiniteSet(S), NEW f, NEW g, NEW i \in S,
         \A x \in S : f[x] \in Int /\ g[x] \in Int,
         \A x \in S \ {i} : f[x] = g[x]
  PROVE  SumFunctionOnSet(g, S) = SumFunctionOnSet(f, S) - f[i] + g[i]
<1>1. IsFiniteSet(S \ {i})
  BY FS_Subset
<1>2. SumFunctionOnSet(f, S \ {i}) = SumFunctionOnSet(g, S \ {i})
  BY <1>1, SumSame
<1>3. SumFunctionOnSet(f, S \ {i}) \in Int
  BY <1>1, SumType
<1>4. SumFunctionOnSet(f, S) = f[i] + SumFunctionOnSet(f, S \ {i})
  BY SumSplit
<1>5. SumFunctionOnSet(g, S) = g[i] + SumFunctionOnSet(g, S \ {i})
  BY SumSplit
<1>6. f[i] \in Int /\ g[i] \in Int
  OBVIOUS
<1> QED BY <1>2, <1>3, <1>4, <1>5, <1>6

\* The sum of the sums.
LEMMA SumPlus ==
  ASSUME NEW S, IsFiniteSet(S), NEW f, NEW g, NEW h,
         \A x \in S : f[x] \in Int /\ g[x] \in Int /\ h[x] = f[x] + g[x]
  PROVE  SumFunctionOnSet(h, S) = SumFunctionOnSet(f, S) + SumFunctionOnSet(g, S)
<1> DEFINE Good == {T \in SUBSET S : SumFunctionOnSet(h, T)
                      = SumFunctionOnSet(f, T) + SumFunctionOnSet(g, T)}
<1>1. ASSUME NEW T \in SUBSET S, \A x \in T : T \ {x} \in Good
      PROVE  T \in Good
  <2>1. IsFiniteSet(T)
    BY FS_Subset
  <2>2. CASE T = {}
    <3>1. /\ SumFunctionOnSet(f, {}) = 0 /\ SumFunctionOnSet(g, {}) = 0
          /\ SumFunctionOnSet(h, {}) = 0
      BY SumOfNothing
    <3> QED BY <2>2, <3>1
  <2>3. CASE T # {}
    <3>1. PICK c \in T, U \in SUBSET S : c = Chosen(T) /\ U = T \ {Chosen(T)}
      BY <2>1, <2>3, SumOfChosen
    <3>2. /\ SumFunctionOnSet(f, T) = f[c] + SumFunctionOnSet(f, U)
          /\ SumFunctionOnSet(g, T) = g[c] + SumFunctionOnSet(g, U)
          /\ SumFunctionOnSet(h, T) = h[c] + SumFunctionOnSet(h, U)
      BY <2>1, <2>3, <3>1, SumOfChosen
    <3>3. SumFunctionOnSet(h, U) = SumFunctionOnSet(f, U) + SumFunctionOnSet(g, U)
      BY <3>1, <1>1
    <3>4. SumFunctionOnSet(f, U) \in Int /\ SumFunctionOnSet(g, U) \in Int
      <4>1. IsFiniteSet(U)
        BY FS_Subset
      <4> QED BY <4>1, SumType
    <3>5. f[c] \in Int /\ g[c] \in Int /\ h[c] = f[c] + g[c]
      OBVIOUS
    <3> QED BY <3>2, <3>3, <3>4, <3>5
  <2> QED BY <2>2, <2>3
<1>2. SUBSET S \subseteq Good
  <2> HIDE DEF Good
  <2> QED BY <1>1, SetInduction
<1> QED BY <1>2

\* The sum does not shrink where the values do not.
LEMMA SumAtMost ==
  ASSUME NEW S, IsFiniteSet(S), NEW f, NEW g,
         \A x \in S : f[x] \in Int /\ g[x] \in Int /\ f[x] <= g[x]
  PROVE  SumFunctionOnSet(f, S) <= SumFunctionOnSet(g, S)
<1>1. PICK d : d = [x \in S |-> g[x] - f[x]]
  OBVIOUS
<1>2. \A x \in S : d[x] \in Nat /\ d[x] \in Int /\ g[x] = f[x] + d[x]
  BY <1>1
<1>3. SumFunctionOnSet(g, S) = SumFunctionOnSet(f, S) + SumFunctionOnSet(d, S)
  BY <1>2, SumPlus
<1>4. SumFunctionOnSet(f, S) \in Int /\ SumFunctionOnSet(d, S) \in Nat
  BY <1>2, SumType, SumNat
<1> QED BY <1>3, <1>4

\* Two disjoint sets are summed up one after the other.
LEMMA SumOfUnion ==
  ASSUME NEW S, IsFiniteSet(S), NEW R, IsFiniteSet(R), S \cap R = {},
         NEW f, \A x \in S \cup R : f[x] \in Int
  PROVE  SumFunctionOnSet(f, S \cup R) = SumFunctionOnSet(f, S) + SumFunctionOnSet(f, R)
<1> DEFINE Good == {T \in SUBSET S : SumFunctionOnSet(f, T \cup R)
                      = SumFunctionOnSet(f, T) + SumFunctionOnSet(f, R)}
<1>1. SumFunctionOnSet(f, R) \in Int
  BY SumType
<1>2. ASSUME NEW T \in SUBSET S, \A x \in T : T \ {x} \in Good
      PROVE  T \in Good
  <2>1. IsFiniteSet(T) /\ IsFiniteSet(T \cup R)
    BY FS_Subset, FS_Union
  <2>2. CASE T = {}
    <3>1. SumFunctionOnSet(f, T) = 0
      BY <2>2, SumOfNothing
    <3>2. PICK V : V = T \cup R
      OBVIOUS
    <3>3. V = R
      BY <2>2, <3>2
    <3>4. SumFunctionOnSet(f, V) = SumFunctionOnSet(f, T) + SumFunctionOnSet(f, R)
      BY <1>1, <3>1, <3>3
    <3> QED BY <3>2, <3>4
  <2>3. CASE T # {}
    <3>1. PICK c \in T, U \in SUBSET S : U = T \ {c}
      BY <2>3
    <3>2. PICK V : V = T \cup R
      OBVIOUS
    <3>3. V \ {c} = U \cup R /\ c \in V
      BY <3>1, <3>2
    <3>4. SumFunctionOnSet(f, V) = f[c] + SumFunctionOnSet(f, V \ {c})
      <4>1. \A x \in V : f[x] \in Int
        BY <3>2
      <4> QED BY <2>1, <3>2, <3>3, <4>1, SumSplit
    <3>5. SumFunctionOnSet(f, T) = f[c] + SumFunctionOnSet(f, U)
      BY <2>1, <3>1, SumSplit
    <3>6. SumFunctionOnSet(f, U \cup R) = SumFunctionOnSet(f, U) + SumFunctionOnSet(f, R)
      BY <3>1, <1>2
    <3>7. SumFunctionOnSet(f, U) \in Int
      <4>1. IsFiniteSet(U)
        BY FS_Subset
      <4> QED BY <4>1, SumType
    <3>8. f[c] \in Int
      OBVIOUS
    <3>9. SumFunctionOnSet(f, V \ {c}) = SumFunctionOnSet(f, U) + SumFunctionOnSet(f, R)
      BY <3>3, <3>6
    <3>10. SumFunctionOnSet(f, V) = SumFunctionOnSet(f, T) + SumFunctionOnSet(f, R)
      BY <1>1, <3>4, <3>5, <3>7, <3>8, <3>9
    <3> QED BY <3>2, <3>10
  <2> QED BY <2>2, <2>3
<1>3. SUBSET S \subseteq Good
  <2> HIDE DEF Good
  <2> QED BY <1>2, SetInduction
<1> QED BY <1>3

\* A part adds up to no more than the whole.
LEMMA SumOfFewer ==
  ASSUME NEW S, IsFiniteSet(S), NEW T \in SUBSET S, NEW f, \A x \in S : f[x] \in Nat
  PROVE  SumFunctionOnSet(f, T) <= SumFunctionOnSet(f, S)
<1>1. PICK R \in SUBSET S : R = S \ T
  OBVIOUS
<1>2. IsFiniteSet(T) /\ IsFiniteSet(R)
  BY FS_Subset
<1>3. SumFunctionOnSet(f, T) \in Nat /\ SumFunctionOnSet(f, R) \in Nat
  BY <1>2, SumNat
<1>4. SumFunctionOnSet(f, T \cup R) = SumFunctionOnSet(f, T) + SumFunctionOnSet(f, R)
  <2>1. T \cap R = {} /\ \A x \in T \cup R : f[x] \in Int
    BY <1>1
  <2> QED BY <1>2, <2>1, SumOfUnion
<1>5. PICK V : V = T \cup R
  OBVIOUS
<1>6. V = S
  BY <1>1, <1>5
<1>7. SumFunctionOnSet(f, T) <= SumFunctionOnSet(f, V)
  BY <1>3, <1>4, <1>5
<1> QED BY <1>6, <1>7

\* The elements may be given other names, as long as no two get the same.
LEMMA SumRenamed ==
  ASSUME NEW S, IsFiniteSet(S), NEW key, NEW f, NEW g,
         \A x \in S : f[x] \in Int /\ g[key[x]] = f[x],
         \A x, y \in S : key[x] = key[y] => x = y
  PROVE  SumFunctionOnSet(g, {key[x] : x \in S}) = SumFunctionOnSet(f, S)
<1> DEFINE Keys(T) == {key[x] : x \in T}
           Good == {T \in SUBSET S : SumFunctionOnSet(g, Keys(T)) = SumFunctionOnSet(f, T)}
<1>1. ASSUME NEW T \in SUBSET S, \A x \in T : T \ {x} \in Good
      PROVE  T \in Good
  <2>1. IsFiniteSet(T)
    BY FS_Subset
  <2>2. IsFiniteSet(Keys(T))
    <3>1. PICK k : k = [x \in T |-> key[x]]
      OBVIOUS
    <3>2. k \in Surjection(T, Keys(T))
      BY <3>1 DEF Surjection
    <3> QED BY <2>1, <3>2, FS_Surjection
  <2>3. CASE T = {}
    <3>1. Keys(T) = {}
      BY <2>3
    <3> HIDE DEF Keys
    <3> QED BY <2>3, <3>1, SumOfNothing
  <2>4. CASE T # {}
    <3>1. PICK c \in T, U \in SUBSET S : U = T \ {c}
      BY <2>4
    <3>2. Keys(T) \ {key[c]} = Keys(U) /\ key[c] \in Keys(T)
      BY <3>1
    <3>3. \A k \in Keys(T) : g[k] \in Int
      OBVIOUS
    <3>4. SumFunctionOnSet(g, Keys(T)) = g[key[c]] + SumFunctionOnSet(g, Keys(T) \ {key[c]})
      <4> HIDE DEF Keys
      <4> QED BY <2>2, <3>2, <3>3, SumSplit
    <3>5. SumFunctionOnSet(f, T) = f[c] + SumFunctionOnSet(f, U)
      BY <2>1, <3>1, SumSplit
    <3>6. SumFunctionOnSet(g, Keys(U)) = SumFunctionOnSet(f, U)
      BY <3>1, <1>1
    <3>7. g[key[c]] = f[c]
      OBVIOUS
    <3> HIDE DEF Keys
    <3> QED BY <3>2, <3>4, <3>5, <3>6, <3>7
  <2> QED BY <2>3, <2>4
<1>2. SUBSET S \subseteq Good
  <2> HIDE DEF Good
  <2> QED BY <1>1, SetInduction
<1> QED BY <1>2

\* The elements of one key, and those whose keys are in K.
KeyedAs(S, key, k) == {x \in S : key[x] = k}
Keyed(S, key, K) == {x \in S : key[x] \in K}

\* The elements may be summed up by groups, those of one key at a time.
LEMMA SumByGroups ==
  ASSUME NEW S, IsFiniteSet(S), NEW f, \A x \in S : f[x] \in Int,
         NEW K, IsFiniteSet(K), NEW key, NEW group,
         \A k \in K : group[k] = SumFunctionOnSet(f, KeyedAs(S, key, k))
  PROVE  SumFunctionOnSet(group, K) = SumFunctionOnSet(f, Keyed(S, key, K))
<1> DEFINE One(k) == KeyedAs(S, key, k)
           In(T) == Keyed(S, key, T)
           Good == {T \in SUBSET K : SumFunctionOnSet(group, T) = SumFunctionOnSet(f, In(T))}
<1> USE DEF KeyedAs, Keyed
<1>1. ASSUME NEW T
      PROVE  SumFunctionOnSet(f, In(T)) \in Int /\ IsFiniteSet(In(T))
  <2>1. IsFiniteSet(In(T)) /\ \A x \in In(T) : f[x] \in Int
    BY FS_Subset
  <2> HIDE DEF In
  <2> QED BY <2>1, SumType
<1>2. ASSUME NEW k
      PROVE  SumFunctionOnSet(f, One(k)) \in Int /\ IsFiniteSet(One(k))
  <2>1. IsFiniteSet(One(k)) /\ \A x \in One(k) : f[x] \in Int
    BY FS_Subset
  <2> HIDE DEF One
  <2> QED BY <2>1, SumType
<1>3. \A k \in K : group[k] \in Int /\ group[k] = SumFunctionOnSet(f, One(k))
  BY <1>2
<1>4. ASSUME NEW T \in SUBSET K, \A k \in T : T \ {k} \in Good
      PROVE  T \in Good
  <2>1. IsFiniteSet(T)
    BY FS_Subset
  <2>2. CASE T = {}
    <3>1. In(T) = {}
      BY <2>2
    <3> HIDE DEF In
    <3> QED BY <2>2, <3>1, SumOfNothing
  <2>3. CASE T # {}
    <3>1. PICK c \in T, U \in SUBSET K : U = T \ {c}
      BY <2>3
    <3>2. In(T) = One(c) \cup In(U) /\ One(c) \cap In(U) = {}
      BY <3>1
    <3>3. \A x \in One(c) \cup In(U) : f[x] \in Int
      OBVIOUS
    <3>4. SumFunctionOnSet(f, In(U)) = SumFunctionOnSet(group, U)
      BY <3>1, <1>4
    <3> HIDE DEF One, In
    <3>5. SumFunctionOnSet(f, In(T)) = SumFunctionOnSet(f, One(c)) + SumFunctionOnSet(f, In(U))
      BY <1>1, <1>2, <3>2, <3>3, SumOfUnion
    <3>6. SumFunctionOnSet(group, T) = group[c] + SumFunctionOnSet(group, U)
      <4>1. \A k \in T : group[k] \in Int
        BY <1>3
      <4> QED BY <2>1, <3>1, <4>1, SumSplit
    <3>7. group[c] = SumFunctionOnSet(f, One(c))
      BY <1>3
    <3> QED BY <3>4, <3>5, <3>6, <3>7
  <2> QED BY <2>2, <2>3
<1>5. SUBSET K \subseteq Good
  <2> HIDE DEF Good
  <2> QED BY <1>4, SetInduction
<1> QED BY <1>5

\* A product as a term of its own, by which the provers find the factors.
Product(k, m) == k * m

\* Raising the values on a part by one number raises the sum by its multiple.
LEMMA SumRaised ==
  ASSUME NEW S, IsFiniteSet(S), NEW T \in SUBSET S, NEW k \in Int, NEW f, NEW g,
         \A x \in S : f[x] \in Int,
         \A x \in T : g[x] = f[x] + k,
         \A x \in S \ T : g[x] = f[x]
  PROVE  SumFunctionOnSet(g, S) = SumFunctionOnSet(f, S) + Product(k, Cardinality(T))
<1> DEFINE Good == {U \in SUBSET S : SumFunctionOnSet(g, U)
                      = SumFunctionOnSet(f, U) + k * Cardinality(U \cap T)}
<1>1. ASSUME NEW U \in SUBSET S, \A x \in U : U \ {x} \in Good
      PROVE  U \in Good
  <2>1. IsFiniteSet(U) /\ IsFiniteSet(U \cap T)
    BY FS_Subset
  <2>2. CASE U = {}
    <3>1. U \cap T = {} /\ Cardinality({}) = 0
      BY <2>2, FS_EmptySet
    <3>2. SumFunctionOnSet(f, {}) = 0 /\ SumFunctionOnSet(g, {}) = 0
      BY SumOfNothing
    <3> QED BY <2>2, <3>1, <3>2
  <2>3. CASE U # {}
    <3>1. PICK c \in U, V \in SUBSET S : V = U \ {c}
      BY <2>3
    <3>2. SumFunctionOnSet(f, U) = f[c] + SumFunctionOnSet(f, V)
      BY <2>1, <3>1, SumSplit
    <3>3. SumFunctionOnSet(g, U) = g[c] + SumFunctionOnSet(g, V)
      <4>1. \A x \in U : g[x] \in Int
        OBVIOUS
      <4> QED BY <2>1, <3>1, <4>1, SumSplit
    <3>4. SumFunctionOnSet(g, V) = SumFunctionOnSet(f, V) + k * Cardinality(V \cap T)
      BY <3>1, <1>1
    <3>5. SumFunctionOnSet(f, V) \in Int /\ Cardinality(V \cap T) \in Nat
      <4>1. IsFiniteSet(V) /\ IsFiniteSet(V \cap T)
        BY FS_Subset
      <4> QED BY <4>1, SumType, FS_CardinalityType
    <3>6. CASE c \in T
      <4>1. PICK W : W = U \cap T
        OBVIOUS
      <4>2. V \cap T = W \ {c} /\ c \in W /\ IsFiniteSet(W)
        BY <2>1, <3>1, <3>6, <4>1
      <4>3. Cardinality(W \ {c}) = Cardinality(W) - 1 /\ Cardinality(W) \in Nat
        BY <4>2, FS_RemoveElement, FS_CardinalityType
      <4>4. PICK a \in Nat, b \in Nat : a = Cardinality(W) /\ b = Cardinality(V \cap T)
                                        /\ b = a - 1
        BY <3>5, <4>2, <4>3
      <4>5. k * a = k * b + k
        BY <4>4
      <4>6. g[c] = f[c] + k /\ f[c] \in Int
        BY <3>6
      <4>7. k * b \in Int
        BY <4>4
      <4> QED BY <3>2, <3>3, <3>4, <3>5, <4>1, <4>4, <4>5, <4>6, <4>7
    <3>7. CASE c \notin T
      <4>1. PICK W : W = U \cap T
        OBVIOUS
      <4>2. V \cap T = W /\ g[c] = f[c] /\ f[c] \in Int
        BY <3>1, <3>7, <4>1
      <4>3. PICK a \in Nat : a = Cardinality(W)
        BY <3>5, <4>2
      <4>4. PICK p \in Int : p = k * a
        OBVIOUS
      <4>5. SumFunctionOnSet(g, V) = SumFunctionOnSet(f, V) + p
        BY <3>4, <4>2, <4>3, <4>4
      <4>6. SumFunctionOnSet(g, U) = SumFunctionOnSet(f, U) + p
        BY <3>2, <3>3, <3>5, <4>2, <4>5
      <4> QED BY <4>1, <4>3, <4>4, <4>6
    <3> QED BY <3>6, <3>7
  <2> QED BY <2>2, <2>3
<1>2. SUBSET S \subseteq Good
  <2> HIDE DEF Good
  <2> QED BY <1>1, SetInduction
<1>3. S \cap T = T
  OBVIOUS
<1> QED BY <1>2, <1>3 DEF Product

\* The sum of one amount over and over.
LEMMA SumConstant ==
  ASSUME NEW S, IsFiniteSet(S), NEW k \in Int, NEW f, \A x \in S : f[x] = k
  PROVE  SumFunctionOnSet(f, S) = Product(k, Cardinality(S))
<1>1. PICK z : z = [x \in S |-> 0]
  OBVIOUS
<1>2. \A x \in S : z[x] \in Int /\ z[x] = 0 /\ f[x] = z[x] + k
  BY <1>1
<1>3. SumFunctionOnSet(z, S) = 0
  BY <1>2, SumZero
<1>4. PICK T \in SUBSET S : T = S
  OBVIOUS
<1>5. SumFunctionOnSet(f, S) = SumFunctionOnSet(z, S) + Product(k, Cardinality(T))
  <2>1. \A x \in S : z[x] \in Int
    BY <1>2
  <2>2. \A x \in T : f[x] = z[x] + k
    BY <1>2
  <2>3. \A x \in S \ T : f[x] = z[x]
    BY <1>4
  <2>4. IsFiniteSet(S) /\ k \in Int /\ T \in SUBSET S
    OBVIOUS
  <2> QED BY ONLY <2>1, <2>2, <2>3, <2>4, SumRaised, ZenonT(30)
<1>6. Product(k, Cardinality(S)) \in Int
  BY FS_CardinalityType DEF Product
<1> QED BY <1>3, <1>4, <1>5, <1>6

\* A sum over what is somewhere 0 is the sum over the rest.
LEMMA SumWhere ==
  ASSUME NEW S, IsFiniteSet(S), NEW T \in SUBSET S, NEW f, NEW g,
         \A x \in S : g[x] \in Int,
         \A x \in T : g[x] = f[x],
         \A x \in S \ T : g[x] = 0
  PROVE  SumFunctionOnSet(g, S) = SumFunctionOnSet(f, T)
<1>1. PICK R : R = S \ T
  OBVIOUS
<1>2. IsFiniteSet(R) /\ IsFiniteSet(T) /\ T \cap R = {} /\ T \cup R = S
  BY <1>1, FS_Subset
<1>3. SumFunctionOnSet(g, T \cup R) = SumFunctionOnSet(g, T) + SumFunctionOnSet(g, R)
  <2>1. \A x \in T \cup R : g[x] \in Int
    BY <1>2
  <2> QED BY <1>2, <2>1, SumOfUnion
<1>4. SumFunctionOnSet(g, R) = 0
  <2>1. \A x \in R : g[x] = 0
    BY <1>1
  <2> QED BY <1>2, <2>1, SumZero
<1>5. SumFunctionOnSet(g, T) = SumFunctionOnSet(f, T)
  BY <1>2, SumSame
<1>6. SumFunctionOnSet(g, T) \in Int
  <2>1. \A x \in T : g[x] \in Int
    BY <1>2
  <2> QED BY <1>2, <2>1, SumType
<1>7. T \cup R = S
  BY <1>2
<1>8. SumFunctionOnSet(g, S) = SumFunctionOnSet(g, T) + 0
  BY ONLY <1>3, <1>4, <1>7
<1> QED BY <1>5, <1>6, <1>8

\* What goes to the accounts of A, each by its key, is no more than there is.
LEMMA SharedOut ==
  ASSUME NEW S, IsFiniteSet(S), NEW f, \A x \in S : f[x] \in Nat,
         NEW A, IsFiniteSet(A), NEW key, NEW share,
         \A a \in A : share[a] = SumFunctionOnSet(f, KeyedAs(S, key, a))
  PROVE  /\ SumFunctionOnSet(share, A) <= SumFunctionOnSet(f, S)
         /\ \A a \in A : share[a] \in Nat
<1>1. \A x \in S : f[x] \in Int
  OBVIOUS
<1>2. SumFunctionOnSet(share, A) = SumFunctionOnSet(f, Keyed(S, key, A))
  BY <1>1, SumByGroups
<1>3. Keyed(S, key, A) \in SUBSET S
  BY DEF Keyed
<1>4. SumFunctionOnSet(f, Keyed(S, key, A)) <= SumFunctionOnSet(f, S)
  BY <1>3, SumOfFewer
<1>5. ASSUME NEW a \in A PROVE share[a] \in Nat
  <2>1. PICK T : T = KeyedAs(S, key, a)
    OBVIOUS
  <2>2. IsFiniteSet(T) /\ \A x \in T : f[x] \in Nat
    BY <2>1, FS_Subset DEF KeyedAs
  <2>3. SumFunctionOnSet(f, T) \in Nat
    BY <2>2, SumNat
  <2> QED BY <2>1, <2>3
<1> QED BY <1>2, <1>4, <1>5
=============================================================================
