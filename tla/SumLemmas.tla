----------------------------- MODULE SumLemmas ------------------------------
(***************************************************************************)
(* Facts about SumFunctionOnSet, the sum of a function's values over a     *)
(* finite set, that the proofs about caps, pledges and counts rest on.     *)
(*                                                                         *)
(* The sum is a recursive function over the subsets of the set, so the     *)
(* facts need induction.  It is done on sets of numbers: a set that has    *)
(* zero and with every number the next one has all of them.                *)
(***************************************************************************)
EXTENDS Integers, Functions, FiniteSetTheorems, WellFoundedInduction, TLAPS

(* Induction: otherwise there would be a least number outside the set.     *)
LEMMA NatSetInduction ==
  ASSUME NEW T, 0 \in T, \A n \in Nat : n \in T => n + 1 \in T
  PROVE  Nat \subseteq T
  <1> SUFFICES ASSUME ~ (Nat \subseteq T) PROVE FALSE
    OBVIOUS
  <1> DEFINE Bad == {n \in Nat : n \notin T}
  <1>1. IsWellFoundedOn(OpToRel(<, Nat), Nat)
    BY NatLessThanWellFounded
  <1>2. Bad \subseteq Nat /\ Bad # {}
    OBVIOUS
  <1>3. ASSUME NEW n \in Bad
        PROVE  n \in Nat /\ n - 1 \in Nat /\ n - 1 < n /\ n - 1 \in Bad
    <2>1. n \in Nat /\ n # 0
      OBVIOUS
    <2>2. n - 1 \in Nat /\ (n - 1) + 1 = n
      BY <2>1
    <2> QED BY <2>1, <2>2
  <1> HIDE DEF Bad
  <1>4. \E n \in Bad : \A m \in Bad : ~ (<<m, n>> \in OpToRel(<, Nat))
    BY <1>1, <1>2, WFMin
  <1>5. \A m, n \in Nat : m < n => <<m, n>> \in OpToRel(<, Nat)
    BY DEF OpToRel
  <1> QED BY <1>3, <1>4, <1>5

(* Every set of numbers that has one has a least one.                      *)
LEMMA LeastNat ==
  ASSUME NEW B, B \subseteq Nat, B # {}
  PROVE  \E n \in B : \A m \in B : n <= m
  <1>1. IsWellFoundedOn(OpToRel(<, Nat), Nat)
    BY NatLessThanWellFounded
  <1>2. \E n \in B : \A m \in B : ~ (<<m, n>> \in OpToRel(<, Nat))
    BY <1>1, WFMin
  <1>3. \A m, n \in Nat : m < n => <<m, n>> \in OpToRel(<, Nat)
    BY DEF OpToRel
  <1>4. PICK n \in B : \A m \in B : ~ (<<m, n>> \in OpToRel(<, Nat))
    BY <1>2
  <1>5. \A m \in B : ~ (m < n)
    BY <1>3, <1>4
  <1>6. \A m \in B : n <= m
    <2> TAKE m \in B
    <2>1. ~ (m < n) /\ m \in Nat /\ n \in Nat
      BY <1>4, <1>5
    <2> QED BY <2>1
  <1> QED BY <1>4, <1>6

-----------------------------------------------------------------------------
(* The recursive function behind the sum.                                  *)

Some(s) == CHOOSE x \in s : TRUE

SumStep(f, g, s) == IF s = {} THEN 0 ELSE f[Some(s)] + g[s \ {Some(s)}]

IsSum(f, S, g) == g = [s \in SUBSET S |-> SumStep(f, g, s)]

(* An element chosen from a set that has one is in it.                     *)
LEMMA SomeIn == \A s : s # {} => Some(s) \in s
  BY DEF Some

(* The sum, by its library definition, is that function at the set.        *)
LEMMA SumIs ==
  ASSUME NEW f, NEW S
  PROVE SumFunctionOnSet(f, S) = (CHOOSE g : IsSum(f, S, g))[S]
  BY DEF SumFunctionOnSet, FoldFunctionOnSet, MapThenFoldSet, IsSum, SumStep, Some

(* It exists: it is built for the sets of at most n elements.              *)
LEMMA SumExists ==
  ASSUME NEW f, NEW S, IsFiniteSet(S)
  PROVE  \E g : IsSum(f, S, g)
  <1> DEFINE Upto(n) == {s \in SUBSET S : Cardinality(s) <= n}
             Good(n, g) == g = [s \in Upto(n) |-> SumStep(f, g, s)]
             T == {n \in Nat : \E g : Good(n, g)}
  <1>0. \A s \in SUBSET S : IsFiniteSet(s) /\ Cardinality(s) \in Nat
    BY FS_Subset, FS_CardinalityType
  <1>a. \A s \in SUBSET S : s # {} => /\ s \ {Some(s)} \in SUBSET S
                                      /\ Cardinality(s \ {Some(s)}) = Cardinality(s) - 1
    BY <1>0, SomeIn, FS_RemoveElement
  <1>b. \A s \in SUBSET S : Cardinality(s) = 0 <=> s = {}
    BY <1>0, FS_EmptySet
  <1>1. 0 \in T
    <2> DEFINE g == [s \in Upto(0) |-> 0]
    <2>1. \A s \in Upto(0) : s = {}
      BY <1>0, <1>b
    <2>2. Good(0, g)
      BY <2>1 DEF SumStep
    <2> HIDE DEF Good
    <2> QED BY <2>2
  <1>2. ASSUME NEW n \in Nat, n \in T PROVE n + 1 \in T
    <2>1. PICK g : Good(n, g)
      BY <1>2
    <2> DEFINE h == [s \in Upto(n + 1) |-> SumStep(f, g, s)]
    <2>2. ASSUME NEW s \in Upto(n + 1) PROVE SumStep(f, g, s) = SumStep(f, h, s)
      <3>1. CASE s = {}
        BY <3>1 DEF SumStep
      <3>2. CASE s # {}
        <4> DEFINE t == s \ {Some(s)}
        <4>1. Cardinality(s) \in Nat /\ Cardinality(s) <= n + 1
          BY <1>0
        <4>2. t \in SUBSET S /\ Cardinality(t) = Cardinality(s) - 1
          BY <1>a, <3>2
        <4>3. t \in Upto(n) /\ t \in Upto(n + 1)
          BY <4>1, <4>2
        <4>4. g[t] = SumStep(f, g, t)
          BY <2>1, <4>3
        <4>5. h[t] = SumStep(f, g, t)
          BY <4>3
        <4> QED BY <3>2, <4>4, <4>5 DEF SumStep
      <3> QED BY <3>1, <3>2
    <2>3. Good(n + 1, h)
      BY <2>2
    <2> HIDE DEF Good
    <2> QED BY <2>3
  <1>3. Cardinality(S) \in T
    <2> HIDE DEF T
    <2>1. Nat \subseteq T
      BY <1>1, <1>2, NatSetInduction
    <2>2. Cardinality(S) \in Nat
      BY FS_CardinalityType
    <2> QED BY <2>1, <2>2
  <1>4. PICK g : Good(Cardinality(S), g)
    BY <1>3
  <1>5. Upto(Cardinality(S)) = SUBSET S
    BY FS_Subset
  <1> QED BY <1>4, <1>5 DEF IsSum

(* On a smaller set it is the same function.                               *)
LEMMA SumAgree ==
  ASSUME NEW f, NEW S, IsFiniteSet(S), NEW T \in SUBSET S,
         NEW g, IsSum(f, S, g), NEW h, IsSum(f, T, h)
  PROVE  g[T] = h[T]
  <1> DEFINE N == {n \in Nat : \A s \in SUBSET T : Cardinality(s) = n => g[s] = h[s]}
  <1>0. \A s \in SUBSET T : IsFiniteSet(s) /\ Cardinality(s) \in Nat /\ s \in SUBSET S
    BY FS_Subset, FS_CardinalityType
  <1>a. \A s \in SUBSET T : s # {} => /\ s \ {Some(s)} \in SUBSET T
                                      /\ Cardinality(s \ {Some(s)}) = Cardinality(s) - 1
    BY <1>0, SomeIn, FS_RemoveElement
  <1>b. \A s \in SUBSET T : Cardinality(s) = 0 <=> s = {}
    BY <1>0, FS_EmptySet
  <1>c. \A s \in SUBSET T : g[s] = SumStep(f, g, s) /\ h[s] = SumStep(f, h, s)
    BY <1>0 DEF IsSum
  <1>1. 0 \in N
    BY <1>b, <1>c DEF SumStep
  <1>2. ASSUME NEW n \in Nat, n \in N PROVE n + 1 \in N
    <2> SUFFICES ASSUME NEW s \in SUBSET T, Cardinality(s) = n + 1 PROVE g[s] = h[s]
      OBVIOUS
    <2>1. s # {} /\ s \ {Some(s)} \in SUBSET T /\ Cardinality(s \ {Some(s)}) = n
      BY <1>a, <1>b
    <2>2. g[s \ {Some(s)}] = h[s \ {Some(s)}]
      BY <1>2, <2>1
    <2> QED BY <1>c, <2>1, <2>2 DEF SumStep
  <1>3. Nat \subseteq N
    <2> HIDE DEF N
    <2> QED BY <1>1, <1>2, NatSetInduction
  <1> QED BY <1>0, <1>3

(* The sum over no elements is zero.                                       *)
LEMMA SumEmpty ==
  ASSUME NEW f
  PROVE  SumFunctionOnSet(f, {}) = 0
  <1>1. \E g : IsSum(f, {}, g)
    BY SumExists, FS_EmptySet
  <1>2. IsSum(f, {}, CHOOSE g : IsSum(f, {}, g))
    BY <1>1
  <1> QED BY <1>2, SumIs DEF IsSum, SumStep

(* One step of the recursion: the chosen element, and the rest.            *)
LEMMA SumSome ==
  ASSUME NEW f, NEW S, IsFiniteSet(S), S # {}
  PROVE  SumFunctionOnSet(f, S) = f[Some(S)] + SumFunctionOnSet(f, S \ {Some(S)})
  <1> DEFINE T == S \ {Some(S)}
             g == CHOOSE k : IsSum(f, S, k)
             h == CHOOSE k : IsSum(f, T, k)
  <1>1. IsFiniteSet(T) /\ T \in SUBSET S
    BY FS_Subset
  <1>2. IsSum(f, S, g)
    BY SumExists
  <1>3. IsSum(f, T, h)
    BY <1>1, SumExists
  <1>4. SumFunctionOnSet(f, S) = g[S] /\ SumFunctionOnSet(f, T) = h[T]
    BY SumIs
  <1>5. g[T] = h[T]
    <2> HIDE DEF g, h, T
    <2> QED BY <1>1, <1>2, <1>3, SumAgree
  <1>6. g[S] = f[Some(S)] + g[T]
    <2> HIDE DEF g
    <2> QED BY <1>2 DEF IsSum, SumStep
  <1> QED BY <1>4, <1>5, <1>6

-----------------------------------------------------------------------------
(* What the proofs cite.                                                   *)

(* Without one of its n + 1 elements a set has n.                          *)
LEMMA OneLess ==
  ASSUME NEW T, IsFiniteSet(T), NEW n \in Nat, Cardinality(T) = n + 1, NEW x \in T
  PROVE  Cardinality(T \ {x}) = n
  <1>1. Cardinality(T \ {x}) = Cardinality(T) - 1
    BY FS_RemoveElement
  <1> QED BY <1>1

(* A sum of integers is an integer, and a sum of naturals a natural.       *)
LEMMA SumType ==
  ASSUME NEW S, IsFiniteSet(S), NEW V \in {Int, Nat}, NEW f, \A x \in S : f[x] \in V
  PROVE  SumFunctionOnSet(f, S) \in V
  <1> DEFINE N == {n \in Nat : \A T \in SUBSET S :
                     Cardinality(T) = n => SumFunctionOnSet(f, T) \in V}
  <1>0. \A T \in SUBSET S : IsFiniteSet(T) /\ Cardinality(T) \in Nat
    BY FS_Subset, FS_CardinalityType
  <1>1. 0 \in N
    <2> SUFFICES ASSUME NEW T \in SUBSET S, Cardinality(T) = 0
                 PROVE  SumFunctionOnSet(f, T) \in V
      OBVIOUS
    <2>1. T = {}
      BY <1>0, FS_EmptySet
    <2> QED BY <2>1, SumEmpty
  <1>2. ASSUME NEW n \in Nat, n \in N PROVE n + 1 \in N
    <2> SUFFICES ASSUME NEW T \in SUBSET S, Cardinality(T) = n + 1
                 PROVE  SumFunctionOnSet(f, T) \in V
      OBVIOUS
    <2>1. T # {}
      BY <1>0, FS_EmptySet
    <2>2. Some(T) \in T
      BY <2>1, SomeIn
    <2>3. T \ {Some(T)} \in SUBSET S /\ Cardinality(T \ {Some(T)}) = n
      BY <1>0, <2>2, OneLess
    <2>4. SumFunctionOnSet(f, T \ {Some(T)}) \in V
      BY <1>2, <2>3
    <2>5. SumFunctionOnSet(f, T) = f[Some(T)] + SumFunctionOnSet(f, T \ {Some(T)})
      BY <1>0, <2>1, SumSome
    <2>6. f[Some(T)] \in V
      BY <2>2
    <2>7. \A a, b \in V : a + b \in V
      OBVIOUS
    <2> QED BY <2>4, <2>5, <2>6, <2>7
  <1>3. Nat \subseteq N
    <2> HIDE DEF N
    <2> QED BY <1>1, <1>2, NatSetInduction
  <1> QED BY <1>0, <1>3

(* A sum of integers is an integer.                                        *)
LEMMA SumInt ==
  ASSUME NEW S, IsFiniteSet(S), NEW f, \A x \in S : f[x] \in Int
  PROVE  SumFunctionOnSet(f, S) \in Int
  BY SumType

(* A sum of naturals is a natural.                                         *)
LEMMA SumNat ==
  ASSUME NEW S, IsFiniteSet(S), NEW f, \A x \in S : f[x] \in Nat
  PROVE  SumFunctionOnSet(f, S) \in Nat
  BY SumType

(* Whichever element is taken out, the sum is its value and the rest.      *)
LEMMA SumRemove ==
  ASSUME NEW S, IsFiniteSet(S), NEW f, \A x \in S : f[x] \in Int, NEW e \in S
  PROVE  SumFunctionOnSet(f, S) = f[e] + SumFunctionOnSet(f, S \ {e})
  <1> DEFINE N == {n \in Nat : \A T \in SUBSET S : Cardinality(T) = n =>
                     \A x \in T : SumFunctionOnSet(f, T) = f[x] + SumFunctionOnSet(f, T \ {x})}
  <1>0. \A T \in SUBSET S : IsFiniteSet(T) /\ Cardinality(T) \in Nat
    BY FS_Subset, FS_CardinalityType
  <1>a. \A T \in SUBSET S : SumFunctionOnSet(f, T) \in Int
    BY <1>0, SumInt
  <1>1. 0 \in N
    <2>1. \A T \in SUBSET S : Cardinality(T) = 0 => T = {}
      BY <1>0, FS_EmptySet
    <2> QED BY <2>1
  <1>2. ASSUME NEW n \in Nat, n \in N PROVE n + 1 \in N
    <2> SUFFICES ASSUME NEW T \in SUBSET S, Cardinality(T) = n + 1, NEW x \in T
                 PROVE  SumFunctionOnSet(f, T) = f[x] + SumFunctionOnSet(f, T \ {x})
      OBVIOUS
    <2> DEFINE c == Some(T)
    <2>1. c \in T
      BY SomeIn
    <2>2. SumFunctionOnSet(f, T) = f[c] + SumFunctionOnSet(f, T \ {c})
      BY <1>0, SumSome
    <2> HIDE DEF c
    <2>3. CASE x = c
      BY <2>2, <2>3
    <2>4. CASE x # c
      <3>1. /\ T \ {c} \in SUBSET S /\ Cardinality(T \ {c}) = n /\ x \in T \ {c}
            /\ T \ {x} \in SUBSET S /\ Cardinality(T \ {x}) = n /\ c \in T \ {x}
        BY <1>0, <2>1, <2>4, OneLess
      <3>2. SumFunctionOnSet(f, T \ {c}) = f[x] + SumFunctionOnSet(f, (T \ {c}) \ {x})
        BY <1>2, <3>1
      <3>3. SumFunctionOnSet(f, T \ {x}) = f[c] + SumFunctionOnSet(f, (T \ {x}) \ {c})
        BY <1>2, <3>1
      <3>4. (T \ {c}) \ {x} = (T \ {x}) \ {c} /\ (T \ {c}) \ {x} \in SUBSET S
        OBVIOUS
      <3>5. /\ f[x] \in Int /\ f[c] \in Int
            /\ SumFunctionOnSet(f, (T \ {c}) \ {x}) \in Int
        BY <1>a, <2>1, <3>4
      <3> DEFINE r == SumFunctionOnSet(f, (T \ {c}) \ {x})
      <3>6. f[c] + (f[x] + r) = f[x] + (f[c] + r)
        <4> HIDE DEF r
        <4> QED BY <3>5 DEF r
      <3> QED BY <2>2, <3>2, <3>3, <3>4, <3>6
    <2> QED BY <2>3, <2>4
  <1>3. Nat \subseteq N
    <2> HIDE DEF N
    <2> QED BY <1>1, <1>2, NatSetInduction
  <1> QED BY <1>0, <1>3

(* An element more adds its value.                                         *)
LEMMA SumAdd ==
  ASSUME NEW S, IsFiniteSet(S), NEW e, e \notin S,
         NEW f, \A x \in S \cup {e} : f[x] \in Int
  PROVE  SumFunctionOnSet(f, S \cup {e}) = f[e] + SumFunctionOnSet(f, S)
  <1>1. IsFiniteSet(S \cup {e})
    BY FS_AddElement
  <1>2. (S \cup {e}) \ {e} = S
    OBVIOUS
  <1>3. SumFunctionOnSet(f, S \cup {e}) = f[e] + SumFunctionOnSet(f, (S \cup {e}) \ {e})
    <2> DEFINE U == S \cup {e}
    <2>1. IsFiniteSet(U) /\ e \in U /\ \A x \in U : f[x] \in Int
      BY <1>1
    <2> HIDE DEF U
    <2>2. SumFunctionOnSet(f, U) = f[e] + SumFunctionOnSet(f, U \ {e})
      BY <2>1, SumRemove
    <2> QED BY <2>2 DEF U
  <1> QED BY <1>2, <1>3

(* Smaller values have a smaller sum.                                      *)
LEMMA SumMonotone ==
  ASSUME NEW S, IsFiniteSet(S), NEW f, NEW g,
         \A x \in S : f[x] \in Int /\ g[x] \in Int /\ f[x] <= g[x]
  PROVE  SumFunctionOnSet(f, S) <= SumFunctionOnSet(g, S)
  <1> DEFINE N == {n \in Nat : \A T \in SUBSET S : Cardinality(T) = n =>
                     SumFunctionOnSet(f, T) <= SumFunctionOnSet(g, T)}
  <1>0. \A T \in SUBSET S : IsFiniteSet(T) /\ Cardinality(T) \in Nat
    BY FS_Subset, FS_CardinalityType
  <1>a. \A T \in SUBSET S : SumFunctionOnSet(f, T) \in Int /\ SumFunctionOnSet(g, T) \in Int
    BY <1>0, SumInt
  <1>1. 0 \in N
    <2> SUFFICES ASSUME NEW T \in SUBSET S, Cardinality(T) = 0
                 PROVE  SumFunctionOnSet(f, T) <= SumFunctionOnSet(g, T)
      OBVIOUS
    <2>1. T = {}
      BY <1>0, FS_EmptySet
    <2> QED BY <2>1, SumEmpty
  <1>2. ASSUME NEW n \in Nat, n \in N PROVE n + 1 \in N
    <2> SUFFICES ASSUME NEW T \in SUBSET S, Cardinality(T) = n + 1
                 PROVE  SumFunctionOnSet(f, T) <= SumFunctionOnSet(g, T)
      OBVIOUS
    <2> DEFINE c == Some(T)
               F == SumFunctionOnSet(f, T \ {c})
               G == SumFunctionOnSet(g, T \ {c})
    <2>1. T # {}
      BY <1>0, FS_EmptySet
    <2>2. c \in T
      BY <2>1, SomeIn
    <2>3. T \ {c} \in SUBSET S /\ Cardinality(T \ {c}) = n
      BY <1>0, <2>2, OneLess
    <2>4. SumFunctionOnSet(f, T) = f[c] + F /\ SumFunctionOnSet(g, T) = g[c] + G
      BY <1>0, <2>1, SumSome
    <2>5. F <= G
      BY <1>2, <2>3
    <2>6. F \in Int /\ G \in Int
      BY <1>a, <2>3
    <2>7. f[c] \in Int /\ g[c] \in Int /\ f[c] <= g[c]
      BY <2>2
    <2> HIDE DEF F, G, c
    <2> QED BY <2>4, <2>5, <2>6, <2>7
  <1>3. Nat \subseteq N
    <2> HIDE DEF N
    <2> QED BY <1>1, <1>2, NatSetInduction
  <1> QED BY <1>0, <1>3

(* Functions equal on the set have the same sum.                           *)
LEMMA SumSame ==
  ASSUME NEW S, IsFiniteSet(S), NEW f, NEW g, \A x \in S : f[x] \in Int /\ f[x] = g[x]
  PROVE  SumFunctionOnSet(f, S) = SumFunctionOnSet(g, S)
  <1>1. \A x \in S : g[x] \in Int /\ f[x] <= g[x] /\ g[x] <= f[x]
    OBVIOUS
  <1>2. SumFunctionOnSet(f, S) <= SumFunctionOnSet(g, S)
    BY <1>1, SumMonotone
  <1>3. SumFunctionOnSet(g, S) <= SumFunctionOnSet(f, S)
    BY <1>1, SumMonotone
  <1>4. SumFunctionOnSet(f, S) \in Int /\ SumFunctionOnSet(g, S) \in Int
    BY <1>1, SumInt
  <1> QED BY <1>2, <1>3, <1>4

(* Two functions that differ at one element have sums that differ as much. *)
LEMMA SumChange ==
  ASSUME NEW S, IsFiniteSet(S), NEW e \in S, NEW f, NEW g,
         \A x \in S : f[x] \in Int /\ g[x] \in Int,
         \A x \in S \ {e} : f[x] = g[x]
  PROVE  SumFunctionOnSet(g, S) = SumFunctionOnSet(f, S) - f[e] + g[e]
  <1> DEFINE T == S \ {e}
  <1>1. IsFiniteSet(T) /\ \A x \in T : f[x] \in Int /\ f[x] = g[x]
    BY FS_Subset
  <1>2. SumFunctionOnSet(f, S) = f[e] + SumFunctionOnSet(f, T)
    BY SumRemove
  <1>3. SumFunctionOnSet(g, S) = g[e] + SumFunctionOnSet(g, T)
    BY SumRemove
  <1> HIDE DEF T
  <1>4. SumFunctionOnSet(f, T) = SumFunctionOnSet(g, T)
    BY <1>1, SumSame
  <1>5. SumFunctionOnSet(f, T) \in Int
    BY <1>1, SumInt
  <1> QED BY <1>2, <1>3, <1>4, <1>5

(* Raising the values of some elements by c raises the sum by c for each.  *)
LEMMA SumRaised ==
  ASSUME NEW S, IsFiniteSet(S), NEW T \in SUBSET S, NEW c \in Int,
         NEW f, \A x \in S : f[x] \in Int
  PROVE  SumFunctionOnSet([x \in S |-> IF x \in T THEN f[x] + c ELSE f[x]], S)
           = SumFunctionOnSet(f, S) + c * Cardinality(T)
  <1> DEFINE h(U) == [x \in S |-> IF x \in U THEN f[x] + c ELSE f[x]]
             N == {n \in Nat : \A U \in SUBSET S : Cardinality(U) = n =>
                     SumFunctionOnSet(h(U), S) = SumFunctionOnSet(f, S) + c * n}
  <1>0. \A U \in SUBSET S : IsFiniteSet(U) /\ Cardinality(U) \in Nat
    BY FS_Subset, FS_CardinalityType
  <1>a. SumFunctionOnSet(f, S) \in Int
    BY SumInt
  <1>b. \A U \in SUBSET S : \A x \in S : h(U)[x] \in Int
    OBVIOUS
  <1>c. \A U \in SUBSET S : SumFunctionOnSet(h(U), S) \in Int
    <2> TAKE U \in SUBSET S
    <2> DEFINE g == h(U)
    <2>1. \A x \in S : g[x] \in Int
      BY <1>b
    <2> HIDE DEF g
    <2>2. SumFunctionOnSet(g, S) \in Int
      BY <2>1, SumInt
    <2> QED BY <2>2 DEF g
  <1>1. 0 \in N
    <2> SUFFICES ASSUME NEW U \in SUBSET S, Cardinality(U) = 0
                 PROVE  SumFunctionOnSet(h(U), S) = SumFunctionOnSet(f, S) + c * 0
      OBVIOUS
    <2>1. U = {}
      BY <1>0, FS_EmptySet
    <2> DEFINE g == h(U)
    <2>2. \A x \in S : g[x] \in Int /\ g[x] = f[x]
      BY <2>1
    <2> HIDE DEF g
    <2>3. SumFunctionOnSet(g, S) = SumFunctionOnSet(f, S)
      BY <2>2, SumSame
    <2>4. SumFunctionOnSet(f, S) = SumFunctionOnSet(f, S) + c * 0
      BY <1>a
    <2> QED BY <2>3, <2>4 DEF g
  <1>2. ASSUME NEW n \in Nat, n \in N PROVE n + 1 \in N
    <2> SUFFICES ASSUME NEW U \in SUBSET S, Cardinality(U) = n + 1
                 PROVE  SumFunctionOnSet(h(U), S) = SumFunctionOnSet(f, S) + c * (n + 1)
      OBVIOUS
    <2>1. U # {}
      BY FS_EmptySet
    <2>2. PICK e : e \in U
      BY <2>1
    <2>3. U \ {e} \in SUBSET S /\ Cardinality(U \ {e}) = n /\ e \in S
      BY <1>0, <2>2, OneLess
    <2> DEFINE a == h(U \ {e})
               b == h(U)
    <2>4. \A x \in S : a[x] \in Int /\ b[x] \in Int
      BY <1>b, <2>3
    <2>5. \A x \in S \ {e} : a[x] = b[x]
      OBVIOUS
    <2>6. a[e] = f[e] /\ b[e] = f[e] + c
      BY <2>2, <2>3
    <2>7. SumFunctionOnSet(a, S) = SumFunctionOnSet(f, S) + c * n
      BY <1>2, <2>3
    <2>8. SumFunctionOnSet(a, S) \in Int
      BY <1>c, <2>3
    <2> HIDE DEF a, b
    <2>9. SumFunctionOnSet(b, S) = SumFunctionOnSet(a, S) - a[e] + b[e]
      BY <2>3, <2>4, <2>5, SumChange
    <2>10. f[e] \in Int
      BY <2>3
    <2>11. SumFunctionOnSet(b, S) = (SumFunctionOnSet(f, S) + c * n) + c
      BY <2>6, <2>7, <2>8, <2>9, <2>10
    <2>12. c * (n + 1) = c * n + c /\ c * n \in Int
      OBVIOUS
    <2>13. SumFunctionOnSet(b, S) = SumFunctionOnSet(f, S) + c * (n + 1)
      BY <1>a, <2>11, <2>12
    <2> QED BY <2>13 DEF b
  <1>3. Nat \subseteq N
    <2> HIDE DEF N
    <2> QED BY <1>1, <1>2, NatSetInduction
  <1> QED BY <1>0, <1>3

(* No value exceeds the sum of naturals it is part of.                     *)
LEMMA SumMember ==
  ASSUME NEW S, IsFiniteSet(S), NEW f, \A x \in S : f[x] \in Nat, NEW e \in S
  PROVE  f[e] <= SumFunctionOnSet(f, S)
  <1>1. SumFunctionOnSet(f, S) = f[e] + SumFunctionOnSet(f, S \ {e})
    BY SumRemove
  <1>2. SumFunctionOnSet(f, S \ {e}) \in Nat
    BY FS_Subset, SumNat
  <1> QED BY <1>1, <1>2

(* The sum of zeros is zero.                                               *)
LEMMA SumZero ==
  ASSUME NEW S, IsFiniteSet(S), NEW f, \A x \in S : f[x] = 0
  PROVE  SumFunctionOnSet(f, S) = 0
  <1> DEFINE N == {n \in Nat : \A T \in SUBSET S :
                     Cardinality(T) = n => SumFunctionOnSet(f, T) = 0}
  <1>0. \A T \in SUBSET S : IsFiniteSet(T) /\ Cardinality(T) \in Nat
    BY FS_Subset, FS_CardinalityType
  <1>1. 0 \in N
    <2>1. \A T \in SUBSET S : Cardinality(T) = 0 => T = {}
      BY <1>0, FS_EmptySet
    <2> QED BY <2>1, SumEmpty
  <1>2. ASSUME NEW n \in Nat, n \in N PROVE n + 1 \in N
    <2> SUFFICES ASSUME NEW T \in SUBSET S, Cardinality(T) = n + 1
                 PROVE  SumFunctionOnSet(f, T) = 0
      OBVIOUS
    <2>1. T # {}
      BY <1>0, FS_EmptySet
    <2>2. Some(T) \in T
      BY <2>1, SomeIn
    <2>3. T \ {Some(T)} \in SUBSET S /\ Cardinality(T \ {Some(T)}) = n
      BY <1>0, <2>2, OneLess
    <2>4. SumFunctionOnSet(f, T) = f[Some(T)] + SumFunctionOnSet(f, T \ {Some(T)})
      BY <1>0, <2>1, SumSome
    <2> QED BY <1>2, <2>2, <2>3, <2>4
  <1>3. Nat \subseteq N
    <2> HIDE DEF N
    <2> QED BY <1>1, <1>2, NatSetInduction
  <1> QED BY <1>0, <1>3

(* The sum over one element is its value.                                  *)
LEMMA SumSingleton ==
  ASSUME NEW e, NEW f, f[e] \in Int
  PROVE  SumFunctionOnSet(f, {e}) = f[e]
  <1>1. IsFiniteSet({e}) /\ {e} \ {e} = {}
    BY FS_Singleton
  <1> DEFINE S == {e}
  <1>2. IsFiniteSet(S) /\ (\A x \in S : f[x] \in Int) /\ e \in S
    BY <1>1
  <1> HIDE DEF S
  <1>3. SumFunctionOnSet(f, S) = f[e] + SumFunctionOnSet(f, S \ {e})
    BY <1>2, SumRemove
  <1> QED BY <1>1, <1>3, SumEmpty DEF S

(* Counts by age, an age later: what drops out is the count of the oldest. *)
LEMMA SumShift ==
  ASSUME NEW w \in Nat, NEW f, \A a \in 0..w : f[a] \in Nat
  PROVE  LET g == [a \in 0..w |-> IF a = 0 THEN 0 ELSE f[a - 1]]
         IN SumFunctionOnSet(g, 0..w) + f[w] = SumFunctionOnSet(f, 0..w)
  <1> DEFINE g == [a \in 0..w |-> IF a = 0 THEN 0 ELSE f[a - 1]]
             F(n) == SumFunctionOnSet(f, 0..n)
             G(n) == SumFunctionOnSet(g, 0..n)
             N == {n \in Nat : n <= w => G(n) + f[n] = F(n)}
  <1>a. \A n \in Nat : IsFiniteSet(0..n)
    BY FS_Interval
  <1>b. \A a \in 0..w : g[a] \in Nat
    OBVIOUS
  <1>1. 0 \in N
    <2>1. 0..0 = {0}
      OBVIOUS
    <2>2. 0 \in 0..w /\ f[0] \in Int /\ g[0] = 0
      OBVIOUS
    <2> HIDE DEF g
    <2>3. SumFunctionOnSet(f, {0}) = f[0] /\ SumFunctionOnSet(g, {0}) = g[0]
      BY <2>2, SumSingleton
    <2>4. F(0) = f[0] /\ G(0) = 0
      BY <2>1, <2>2, <2>3
    <2> QED BY <2>2, <2>4
  <1>2. ASSUME NEW n \in Nat, n \in N PROVE n + 1 \in N
    <2> SUFFICES ASSUME n + 1 <= w PROVE G(n + 1) + f[n + 1] = F(n + 1)
      OBVIOUS
    <2> DEFINE m == n + 1
    <2>1. /\ 0..m = (0..n) \cup {m} /\ m \notin 0..n /\ 0..m \subseteq 0..w
          /\ m \in 0..w /\ n \in 0..w /\ 0..n \subseteq 0..w
      OBVIOUS
    <2>2. g[m] = f[n]
      BY <2>1
    <2>3. /\ \A a \in (0..n) \cup {m} : f[a] \in Int /\ g[a] \in Int
          /\ f[n] \in Int /\ f[m] \in Int
      BY <1>b, <2>1
    <2>4. G(n) + f[n] = F(n)
      BY <1>2
    <2> HIDE DEF g, m
    <2>5. /\ SumFunctionOnSet(f, (0..n) \cup {m}) = f[m] + SumFunctionOnSet(f, 0..n)
          /\ SumFunctionOnSet(g, (0..n) \cup {m}) = g[m] + SumFunctionOnSet(g, 0..n)
      <3> DEFINE S == 0..n
      <3>1. IsFiniteSet(S) /\ m \notin S /\ \A a \in S \cup {m} : f[a] \in Int /\ g[a] \in Int
        BY <1>a, <2>1, <2>3
      <3> HIDE DEF S
      <3>2. SumFunctionOnSet(f, S \cup {m}) = f[m] + SumFunctionOnSet(f, S)
        BY <3>1, SumAdd
      <3>3. SumFunctionOnSet(g, S \cup {m}) = g[m] + SumFunctionOnSet(g, S)
        BY <3>1, SumAdd
      <3> QED BY <3>2, <3>3 DEF S
    <2>6. F(n) \in Int /\ G(n) \in Int
      <3> DEFINE S == 0..n
      <3>1. IsFiniteSet(S) /\ \A a \in S : f[a] \in Int /\ g[a] \in Int
        BY <1>a, <2>3
      <3> HIDE DEF S
      <3>2. SumFunctionOnSet(f, S) \in Int /\ SumFunctionOnSet(g, S) \in Int
        BY <3>1, SumInt
      <3> QED BY <3>2 DEF S
    <2>7. F(m) = f[m] + F(n) /\ G(m) = f[n] + G(n)
      BY <2>1, <2>2, <2>5
    <2>8. G(m) + f[m] = F(m)
      <3> HIDE DEF F, G
      <3> QED BY <2>3, <2>4, <2>6, <2>7
    <2> QED BY <2>8 DEF m
  <1>3. Nat \subseteq N
    <2> HIDE DEF N
    <2> QED BY <1>1, <1>2, NatSetInduction
  <1> QED BY <1>3
=============================================================================
